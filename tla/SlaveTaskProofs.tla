-------------------------- MODULE SlaveTaskProofs ---------------------------
(***************************************************************************)
(* Theorems about SlaveTask, for every bound on tasks, results and         *)
(* failures, every set of commands (but see AssertionHolds) and every set  *)
(* of faults.                                                              *)
(***************************************************************************)
EXTENDS SlaveTask, TLAPS, SequenceTheorems

USE SlaveBoundAssumption DEF SlaveId, NoSlave

USE DEF TASK_STATUS_DELETE_REQUESTED, TASK_STATUS_DONE, TASK_STATUS_NEW,
        TASK_STATUS_REQUESTED, TASK_STATUS_RUNNING, TASK_STATUS_STOP_REQUESTED,
        TASK_STATUS_STOP_WAITING, TASK_STATUS_STOPPED, TASK_STATUS_INTERRUPTED,
        TASK_STATUS_DELETE_ULTIMATE_REQUESTED, TASK_STATUS_STOP_REQUESTED_GIVEUP,
        TASK_STATUS_DELETE_WAITING, TASK_STATUS_DELETE_ULTIMATE_WAITING

\* After a scan that is Done the handler deletes the task first.
DeletePC == {"ftask", "fconfig", "ftarget", "fcred"}
MakePC == {"config", "task", "start", "record"}

\* The handler works on a task of the slave.
TaskInv ==
    /\ pc \in MakePC \cup DeletePC \cup {"fstop", "rsleep", "isleep"}
          => mine # NoSlave
    /\ pc \in {"rsleep", "isleep", "start"} => "task" \in ids
    /\ after = "done" => mine # NoSlave /\ pc \in DeletePC \cup {"exit"}

TypeInv == TypeOK /\ TaskInv

\* The handler exits when it has written Stopped, at once.  (Not a part of IInv: it
\* holds when no report is deleted.)
StoppedExits == pc \notin {"free", "exit"} => run_status # TASK_STATUS_STOPPED

\* What a handler that polls has counted is in the report, as long as this exists;
\* and the slave task gets no more results once the handler has seen it Done.
Fetched ==
    /\ pc \in PollPC \cup {"psleep"} /\ HasReport
          => {mine} \X (1 .. next_result - 1) \subseteq results
    /\ pc = "report" /\ seen = "Done" => slave_status[mine] \in {"Done", "none"}
    /\ after = "done" => slave_status[mine] \in {"Done", "none"}

\* A handler that may still come to a scan that is Done knows the config and the
\* target on the slave.
Known ==
    pc \in MakePC \cup PollPC \cup {"isleep", "psleep"} \/ after = "done"
    => slave_objs[mine] \cap {"config", "target"} \subseteq ids

\* How far the clean up has come.
Cleaned ==
    after = "done" /\ link =>
        /\ pc # "ftask" => slave_status[mine] = "none"
        /\ pc \notin {"ftask", "fconfig"} => "config" \notin slave_objs[mine]
        /\ pc \in {"fcred", "exit"} => "target" \notin slave_objs[mine]
        /\ pc = "exit" => "credential" \notin slave_objs[mine] \cap ids

IInv == TypeInv /\ Fetched /\ ResultsComplete /\ Known /\ Cleaned

-----------------------------------------------------------------------------
(***************************************************************************)
(* Types.                                                                  *)
(***************************************************************************)

\* The parts of the type invariant: the statuses,
StatusType ==
    /\ run_status \in task_status_t /\ scan_run_status \in task_status_t
    /\ seen_run \in task_status_t

\* the flags,
FlagType ==
    /\ hidden \in BOOLEAN /\ current_scanner_task \in BOOLEAN
    /\ last_stopped_report \in BOOLEAN /\ termination_signal \in BOOLEAN
    /\ link \in BOOLEAN

\* what the handler is doing,
PlaceType == pc \in PC /\ after \in {"retry", "giveup", "done"}

KnowType == ids \subseteq Id /\ seen \in SlaveStatus

CountType == next_result \in 1 .. MaxResult + 1 /\ failures \in 0 .. MaxFailure

\* what master and slave know of the tasks on the slave,
NameType ==
    /\ slave_task_uuid \in 0 .. next_slave - 1
    /\ mine \in 0 .. next_slave - 1
    /\ next_slave \in 1 .. MaxTask + 1
    /\ results \subseteq SlaveId \X (1 .. MaxResult)

SlaveType ==
    /\ slave_status \in [SlaveId -> SlaveStatus]
    /\ slave_objs \in [SlaveId -> SUBSET Obj]
    /\ slave_results \in [SlaveId -> 0 .. MaxResult]

\* and TaskInv, with the last part of TypeOK.
MineInv ==
    /\ pc \in MakePC \cup DeletePC \cup PollPC
                \cup {"fstop", "rget", "rids", "rsleep", "isleep", "psleep"}
          => mine # NoSlave
    /\ pc \in PollPC \cup {"start", "record", "rget", "rids", "rsleep", "isleep",
                           "psleep"}
          => "task" \in ids
    /\ after = "done" => mine # NoSlave /\ pc \in DeletePC \cup {"exit"}

\* The rows of earlier reports are not part of Types, as few steps look at them.
RowKnown(row) == row \in Row /\ row.uuid < next_slave
RowsKnown(rows) == rows \in Seq(Row) /\ \A i \in 1 .. Len(rows) : rows[i].uuid < next_slave
RowType == RowsKnown(older)

Types ==
    /\ StatusType /\ FlagType /\ PlaceType /\ KnowType /\ CountType
    /\ NameType /\ SlaveType /\ MineInv

\* TypeInv is the conjunction of the parts; also in the next state.
LEMMA TypeParts == TypeInv <=> Types /\ RowType
BY DEF TypeInv, RowType, RowsKnown, TypeOK, TaskInv, Types, StatusType, FlagType, PlaceType, KnowType,
       CountType, NameType, SlaveType, MineInv, MakePC, DeletePC

LEMMA TypePartsNext == Types' /\ RowType' => TypeInv'
BY DEF TypeInv, RowType, RowsKnown, TypeOK, TaskInv, Types, StatusType, FlagType, PlaceType, KnowType,
       CountType, NameType, SlaveType, MineInv, MakePC, DeletePC

\* The statuses.
LEMMA Statuses ==
    /\ TASK_STATUS_DELETE_REQUESTED \in task_status_t
    /\ TASK_STATUS_DONE \in task_status_t
    /\ TASK_STATUS_NEW \in task_status_t
    /\ TASK_STATUS_REQUESTED \in task_status_t
    /\ TASK_STATUS_RUNNING \in task_status_t
    /\ TASK_STATUS_STOP_REQUESTED \in task_status_t
    /\ TASK_STATUS_STOP_WAITING \in task_status_t
    /\ TASK_STATUS_STOPPED \in task_status_t
    /\ TASK_STATUS_INTERRUPTED \in task_status_t
    /\ TASK_STATUS_DELETE_ULTIMATE_REQUESTED \in task_status_t
    /\ TASK_STATUS_STOP_REQUESTED_GIVEUP \in task_status_t
    /\ TASK_STATUS_DELETE_WAITING \in task_status_t
    /\ TASK_STATUS_DELETE_ULTIMATE_WAITING \in task_status_t
BY DEF task_status_t, ActiveStatus, InactiveStatus, ResumableStatus

\* The task on the slave that the handler works on is one.
LEMMA MineIsTask ==
    ASSUME Types, mine # NoSlave
    PROVE  /\ mine \in SlaveId
           /\ slave_status[mine] \in SlaveStatus
           /\ slave_objs[mine] \subseteq Obj
           /\ slave_results[mine] \in 0 .. MaxResult
<1>1. mine \in SlaveId
  BY DEF Types, NameType
<1> QED
  BY <1>1 DEF Types, SlaveType

\* The row of no report, the last row of older, and what is left without it.
LEMMA NoRowKnown == ASSUME Types PROVE RowKnown(NoRow)
BY Statuses DEF RowKnown, NoRow, Row, Types, NameType

LEMMA OlderRows ==
    ASSUME Types, RowType
    PROVE  RowKnown(Newest(older)) /\ RowsKnown(Earlier(older))
<1>1. CASE older = << >>
  BY <1>1, NoRowKnown DEF Newest, Earlier, RowType
<1>2. CASE older # << >>
  <2>1. older \in Seq(Row) /\ Len(older) \in Nat \ {0}
    BY <1>2 DEF RowType, RowsKnown
  <2>2. RowKnown(Newest(older))
    BY <1>2, <2>1 DEF Newest, RowKnown, RowType, RowsKnown
  <2>3. /\ SubSeq(older, 1, Len(older) - 1) \in Seq(Row)
        /\ Len(SubSeq(older, 1, Len(older) - 1)) = Len(older) - 1
        /\ \A i \in 1 .. Len(older) - 1 : SubSeq(older, 1, Len(older) - 1)[i] = older[i]
    <3>1. \A i \in 1 .. Len(older) - 1 : older[i] \in Row
      BY <2>1
    <3>2. PICK n \in Nat : n = Len(older) - 1
      BY <2>1
    <3>3. /\ SubSeq(older, 1, n) \in Seq(Row)
          /\ Len(SubSeq(older, 1, n)) = IF 1 <= n THEN n - 1 + 1 ELSE 0
          /\ \A i \in 1 .. n - 1 + 1 : SubSeq(older, 1, n)[i] = older[1 + i - 1]
      BY <3>1, <3>2, SubSeqProperties
    <3> QED
      BY <3>2, <3>3
  <2>4. RowsKnown(Earlier(older))
    BY <1>2, <2>1, <2>3 DEF Earlier, RowType, RowsKnown
  <2> QED
    BY <2>2, <2>4
<1> QED
  BY <1>1, <1>2

\* The report of the handler, and with it the rows when the handler is gone.
LEMMA CurrentKnown == ASSUME Types PROVE RowKnown(Current)
BY DEF RowKnown, Current, Row, Types, StatusType, NameType

LEMMA LastRows ==
    ASSUME Types, RowType
    PROVE  RowKnown(LastRow) /\ RowsKnown(OtherRows)
BY OlderRows, CurrentKnown DEF LastRow, OtherRows, RowType

\* The rows of all reports.
LEMMA AllRowsKnown ==
    ASSUME Types, RowType
    PROVE  RowsKnown(AllRows)
<1>1. RowKnown(Current) /\ RowsKnown(older)
  BY CurrentKnown DEF RowType
<1>2. PICK row : row = Current
  OBVIOUS
<1>3. RowsKnown(Append(older, row))
  BY <1>1, <1>2 DEF RowKnown, RowsKnown
<1> QED
  BY <1>1, <1>2, <1>3 DEF AllRows

\* The rows without one of them.
LEMMA WithoutKnown ==
    ASSUME Types, RowType, NEW i \in 1 .. Len(older)
    PROVE  RowsKnown(Without(older, i))
<1>1. older \in Seq(Row) /\ Len(older) \in Nat \ {0}
  BY DEF RowType, RowsKnown
<1>2. \A j \in 1 .. Len(older) - 1 :
          LET row == IF j < i THEN older[j] ELSE older[j + 1]
          IN  row \in Row /\ row.uuid < next_slave
  BY <1>1 DEF RowType, RowsKnown
<1>3. Without(older, i) \in Seq(Row) /\ Len(Without(older, i)) = Len(older) - 1
  BY <1>1, <1>2 DEF Without
<1> QED
  BY <1>1, <1>2, <1>3 DEF RowsKnown, Without

\* The report becomes a row: its part of the types.
LEMMA TakeRowType ==
    ASSUME Types, NEW row, RowKnown(row), TakeRow(row), next_slave' = next_slave,
           run_status' \in task_status_t, seen_run' \in task_status_t,
           mine' \in {mine, NoSlave}
    PROVE  StatusType' /\ NameType'
BY DEF TakeRow, RowKnown, Row, Types, StatusType, NameType

\* delete_slave_task keeps the types of the slave, and makes no object.
LEMMA DeleteSlaveTaskType ==
    ASSUME Types, NEW n \in 0 .. next_slave - 1, DeleteSlaveTask(n)
    PROVE  /\ SlaveType' /\ UNCHANGED << slave_results, next_slave >>
           /\ \A m \in SlaveId :
                 /\ slave_objs'[m] \subseteq slave_objs[m]
                 /\ slave_status[m] \in {"Done", "none"}
                       => slave_status'[m] \in {"Done", "none"}
                 /\ slave_status[m] = "none" => slave_status'[m] = "none"
<1>1. SlaveType
  BY DEF Types
<1>2. CASE UNCHANGED slave
  BY <1>1, <1>2 DEF slave, SlaveType
<1>3. CASE /\ n # NoSlave
           /\ slave_status[n] \in SlaveActive
           /\ slave_status' = [slave_status EXCEPT ![n] = "Delete Requested"]
           /\ UNCHANGED << slave_objs, slave_results, next_slave >>
  BY <1>1, <1>3 DEF SlaveType, SlaveStatus, SlaveActive
<1>4. CASE /\ n # NoSlave
           /\ slave_status[n] \notin SlaveActive \cup {"none"}
           /\ slave_status' = [slave_status EXCEPT ![n] = "none"]
           /\ \E kept \in SUBSET slave_objs[n] :
                 slave_objs' = [slave_objs EXCEPT ![n] = kept]
           /\ UNCHANGED << slave_results, next_slave >>
  <2>1. n \in SlaveId
    BY <1>4 DEF Types, NameType
  <2> QED
    BY <1>1, <1>4, <2>1 DEF SlaveType, SlaveStatus
<1> QED
  BY <1>2, <1>3, <1>4 DEF DeleteSlaveTask

\* A command of a client keeps the types.
LEMMA RequestType ==
    ASSUME Types,
           StartTask \/ ResumeTask \/ StopTask \/ DeleteTask
    PROVE  Types'
<1> USE DEF SetReport, SetStatus, SetStatusOfCurrent, SetBoth, KeepStatus, KeepReport,
            Close, Fail, Giveup, CountFailure, Goto, db, setup, polled, net,
            slave, StopStatus, Stoppable, TakeRow, NoRow
<1>0. StatusType /\ FlagType /\ PlaceType /\ KnowType
      /\ CountType /\ NameType /\ SlaveType /\ MineInv
  BY DEF Types
<1>1. CASE StartTask
  <2>1. KnowType' /\ CountType' /\ SlaveType'
    BY <1>0, <1>1 DEF StartTask, KnowType, CountType, SlaveType
  <2>2. StatusType'
    BY <1>0, <1>1, Statuses DEF StartTask, StatusType
  <2>3. FlagType'
    BY <1>0, <1>1 DEF StartTask, FlagType
  <2>4. PlaceType'
    BY <1>0, <1>1 DEF StartTask, PlaceType, PC, SleepPC, PollPC
  <2>5. NameType'
    BY <1>0, <1>1 DEF StartTask, NameType, CountType
  <2>6. MineInv'
    BY <1>0, <1>1 DEF StartTask, MineInv, MakePC, DeletePC, PollPC,
           SleepPC, NameType
  <2> QED
    BY <2>1, <2>2, <2>3, <2>4, <2>5, <2>6 DEF Types
<1>2. CASE ResumeTask
  <2>1. KnowType' /\ CountType' /\ SlaveType'
    BY <1>0, <1>2 DEF ResumeTask, KnowType, CountType, SlaveType
  <2>2. StatusType'
    BY <1>0, <1>2, Statuses DEF ResumeTask, StatusType
  <2>3. FlagType'
    BY <1>0, <1>2 DEF ResumeTask, FlagType
  <2>4. PlaceType'
    BY <1>0, <1>2 DEF ResumeTask, PlaceType, PC, SleepPC, PollPC
  <2>5. NameType'
    BY <1>0, <1>2 DEF ResumeTask, NameType, CountType
  <2>6. MineInv'
    BY <1>0, <1>2 DEF ResumeTask, MineInv, MakePC, DeletePC, PollPC,
           SleepPC, NameType
  <2> QED
    BY <2>1, <2>2, <2>3, <2>4, <2>5, <2>6 DEF Types
<1>3. CASE StopTask
  <2>1. FlagType' /\ PlaceType' /\ KnowType' /\ CountType' /\ NameType' /\
        SlaveType' /\ MineInv'
    BY <1>0, <1>3 DEF StopTask, FlagType, PlaceType, KnowType, CountType,
           NameType, SlaveType, MineInv
  <2>2. StatusType'
    BY <1>0, <1>3, Statuses DEF StopTask, StatusType
  <2> QED
    BY <2>1, <2>2 DEF Types
<1>4. CASE DeleteTask
  <2>1. PlaceType' /\ KnowType' /\ CountType' /\ NameType' /\ SlaveType' /\
        MineInv'
    BY <1>0, <1>4 DEF DeleteTask, PlaceType, KnowType, CountType,
           NameType, SlaveType, MineInv
  <2>2. StatusType'
    BY <1>0, <1>4, Statuses DEF DeleteTask, StatusType
  <2>3. FlagType'
    BY <1>0, <1>4 DEF DeleteTask, FlagType
  <2> QED
    BY <2>1, <2>2, <2>3 DEF Types
<1> QED
  BY <1>1, <1>2, <1>3, <1>4

\* DELETE_REPORT.
LEMMA DeleteReportType ==
    ASSUME Types, RowType, DeleteReport
    PROVE  Types' /\ RowType'
<1>1. UNCHANGED << hidden, pc, setup, polled, after, termination_signal, net >>
  BY DEF DeleteReport
<1>2. FlagType' /\ PlaceType' /\ KnowType' /\ CountType' /\ MineInv'
  BY <1>1 DEF setup, polled, net, Types, FlagType, PlaceType, KnowType, CountType,
              MineInv
<1>3. SlaveType' /\ next_slave' = next_slave
  <2>1. slave_task_uuid \in 0 .. next_slave - 1 /\ DeleteSlaveTask(slave_task_uuid)
    BY DEF DeleteReport, Types, NameType
  <2> QED
    BY <2>1, DeleteSlaveTaskType
<1>4. /\ run_status' = Newest(older).status
      /\ \/ TakeRow(Newest(older)) /\ older' = Earlier(older)
         \/ TakeRow(NoRow) /\ older' = older
  BY DEF DeleteReport
<1>5. PICK row : row = Newest(older)
  OBVIOUS
<1>6. RowKnown(row) /\ RowsKnown(Earlier(older)) /\ RowKnown(NoRow)
  BY <1>5, OlderRows, NoRowKnown
<1>7. run_status' \in task_status_t /\ seen_run' \in task_status_t /\ mine' = mine
  BY <1>1, <1>4, <1>5, <1>6 DEF RowKnown, Row, setup, polled, Types, StatusType
<1>8. StatusType' /\ NameType'
  <2>1. CASE TakeRow(NoRow)
    BY <1>3, <1>6, <1>7, <2>1, TakeRowType
  <2>2. CASE TakeRow(row)
    BY <1>3, <1>6, <1>7, <2>2, TakeRowType
  <2> QED
    BY <1>4, <1>5, <2>1, <2>2
<1>9. RowType'
  BY <1>3, <1>4, <1>6 DEF RowType, RowsKnown
<1> QED
  BY <1>2, <1>3, <1>8, <1>9 DEF Types

LEMMA DeleteOlderReportType ==
    ASSUME Types, RowType, NEW i \in 1 .. MaxOlder, DeleteOlderReport(i)
    PROVE  Types' /\ RowType'
<1>1. /\ UNCHANGED << hidden, scan_run_status, slave_task_uuid, results, pc, setup,
                      polled, after, termination_signal, net >>
      /\ i \in 1 .. Len(older) /\ DeleteSlaveTask(older[i].uuid)
      /\ older' = Without(older, i)
      /\ run_status' = IF HasReport THEN scan_run_status ELSE Newest(older').status
  BY DEF DeleteOlderReport
<1>2. FlagType' /\ PlaceType' /\ KnowType' /\ CountType' /\ MineInv'
  BY <1>1 DEF setup, polled, net, Types, FlagType, PlaceType, KnowType, CountType,
              MineInv
<1>3. SlaveType' /\ next_slave' = next_slave
  <2>1. older[i] \in Row /\ older[i].uuid < next_slave
    BY <1>1 DEF RowType, RowsKnown
  <2>2. older[i].uuid \in 0 .. next_slave - 1
    BY <2>1 DEF Row, Types, NameType
  <2> QED
    BY <1>1, <2>2, DeleteSlaveTaskType
<1>4. RowsKnown(older')
  BY <1>1, WithoutKnown
<1>5. Newest(older').status \in task_status_t
  <2>1. CASE older' = << >>
    BY <2>1, Statuses DEF Newest, NoRow
  <2>2. CASE older' # << >>
    <3>1. Len(older') \in 1 .. Len(older')
      BY <1>4, <2>2 DEF RowsKnown
    <3>2. older'[Len(older')] \in Row
      BY <1>4, <3>1 DEF RowsKnown
    <3> QED
      BY <2>2, <3>2 DEF Newest, Row
  <2> QED
    BY <2>1, <2>2
<1>6. StatusType'
  BY <1>1, <1>5 DEF setup, polled, Types, StatusType
<1>7. NameType'
  BY <1>1, <1>3 DEF setup, Types, NameType
<1>8. RowType'
  BY <1>3, <1>4 DEF RowType, RowsKnown
<1> QED
  BY <1>2, <1>3, <1>6, <1>7, <1>8 DEF Types

\* The head of handle_slave_task and of slave_setup.
LEMMA BeginType ==
    ASSUME Types,
           Connect \/ LoginFails \/ ConnectFails \/ Setup
    PROVE  Types'
<1> USE DEF SetReport, SetStatus, SetStatusOfCurrent, SetBoth, KeepStatus, KeepReport,
            Close, Fail, Giveup, CountFailure, Goto, db, setup, polled, net,
            slave
<1>0. StatusType /\ FlagType /\ PlaceType /\ KnowType
      /\ CountType /\ NameType /\ SlaveType /\ MineInv
  BY DEF Types
<1>1. CASE Connect
  <2>1. StatusType' /\ KnowType' /\ CountType' /\ NameType' /\ SlaveType'
    BY <1>0, <1>1 DEF Connect, StatusType, KnowType, CountType, NameType,
           SlaveType
  <2>2. FlagType'
    BY <1>0, <1>1 DEF Connect, FlagType
  <2>3. PlaceType'
    BY <1>0, <1>1 DEF Connect, PlaceType, PC, SleepPC, PollPC
  <2>4. MineInv'
    BY <1>0, <1>1 DEF Connect, MineInv, MakePC, DeletePC, PollPC,
           SleepPC, NameType
  <2> QED
    BY <2>1, <2>2, <2>3, <2>4 DEF Types
<1>2. CASE LoginFails
  <2>1. FlagType' /\ KnowType' /\ NameType' /\ SlaveType'
    BY <1>0, <1>2 DEF LoginFails, FlagType, KnowType, NameType, SlaveType
  <2>2. StatusType'
    BY <1>0, <1>2, Statuses DEF LoginFails, StatusType
  <2>3. PlaceType'
    BY <1>0, <1>2 DEF LoginFails, PlaceType, PC, SleepPC, PollPC
  <2>4. CountType'
    BY <1>0, <1>2 DEF LoginFails, CountType
  <2>5. MineInv'
    BY <1>0, <1>2 DEF LoginFails, MineInv, MakePC, DeletePC, PollPC,
           SleepPC, NameType
  <2> QED
    BY <2>1, <2>2, <2>3, <2>4, <2>5 DEF Types
<1>3. CASE ConnectFails
  <2>1. FlagType' /\ KnowType' /\ CountType' /\ NameType' /\ SlaveType'
    BY <1>0, <1>3 DEF ConnectFails, FlagType, KnowType, CountType,
           NameType, SlaveType
  <2>2. StatusType'
    BY <1>0, <1>3, Statuses DEF ConnectFails, StatusType
  <2>3. PlaceType'
    BY <1>0, <1>3 DEF ConnectFails, PlaceType, PC, SleepPC, PollPC
  <2>4. MineInv'
    BY <1>0, <1>3 DEF ConnectFails, MineInv, MakePC, DeletePC, PollPC,
           SleepPC, NameType
  <2> QED
    BY <2>1, <2>2, <2>3, <2>4 DEF Types
<1>4. CASE Setup
  <2>1. FlagType' /\ CountType' /\ SlaveType'
    BY <1>0, <1>4 DEF Setup, FlagType, CountType, SlaveType
  <2>2. StatusType'
    BY <1>0, <1>4, Statuses DEF Setup, StatusType
  <2>3. PlaceType'
    BY <1>0, <1>4 DEF Setup, PlaceType, PC, SleepPC, PollPC
  <2>4. KnowType'
    BY <1>0, <1>4 DEF Setup, KnowType, Obj, Id, SlaveStatus, SlaveActive
  <2>5. NameType'
    BY <1>0, <1>4 DEF Setup, NameType, CountType
  <2>6. MineInv'
    BY <1>0, <1>4 DEF Setup, MineInv, MakePC, DeletePC, PollPC, SleepPC,
           NameType
  <2> QED
    BY <2>1, <2>2, <2>3, <2>4, <2>5, <2>6 DEF Types
<1> QED
  BY <1>1, <1>2, <1>3, <1>4

\* The resumption of a scan.
LEMMA ResumeType ==
    ASSUME Types,
           ResumeAsIs \/ ResumeOnSlave \/ ResumeFromStart \/ ResumeFails \/ SetupIds
    PROVE  Types'
<1> USE DEF SetReport, SetStatus, SetStatusOfCurrent, SetBoth, KeepStatus, KeepReport,
            Close, Fail, Giveup, CountFailure, Goto, db, setup, polled, net,
            slave, StartPolling
<1>0. StatusType /\ FlagType /\ PlaceType /\ KnowType
      /\ CountType /\ NameType /\ SlaveType /\ MineInv
  BY DEF Types
<1>1. CASE ResumeAsIs
  <2>0. mine # NoSlave
    BY <1>0, <1>1 DEF ResumeAsIs, MineInv, MakePC, DeletePC, PollPC
  <2>1. StatusType' /\ FlagType' /\ CountType' /\ NameType' /\ SlaveType'
    BY <1>0, <1>1 DEF ResumeAsIs, StatusType, FlagType, CountType,
           NameType, SlaveType
  <2>2. PlaceType'
    BY <1>0, <1>1 DEF ResumeAsIs, PlaceType, PC, SleepPC, PollPC
  <2>3. KnowType'
    BY <1>0, <1>1, <2>0, MineIsTask DEF ResumeAsIs, KnowType, Obj, Id,
           SlaveStatus, SlaveActive
  <2>4. MineInv'
    BY <1>0, <1>1, <2>0 DEF ResumeAsIs, MineInv, MakePC, DeletePC,
           PollPC, SleepPC, NameType
  <2> QED
    BY <2>1, <2>2, <2>3, <2>4 DEF Types
<1>2. CASE ResumeOnSlave
  <2>0. mine # NoSlave
    BY <1>0, <1>2 DEF ResumeOnSlave, MineInv, MakePC, DeletePC, PollPC
  <2>1. StatusType' /\ FlagType' /\ CountType' /\ NameType'
    BY <1>0, <1>2 DEF ResumeOnSlave, StatusType, FlagType, CountType,
           NameType
  <2>2. PlaceType'
    BY <1>0, <1>2 DEF ResumeOnSlave, PlaceType, PC, SleepPC, PollPC
  <2>3. KnowType'
    BY <1>0, <1>2, <2>0, MineIsTask DEF ResumeOnSlave, KnowType, Obj,
           Id, SlaveStatus, SlaveActive
  <2>4. SlaveType'
    BY <1>0, <1>2, <2>0, MineIsTask DEF ResumeOnSlave, SlaveType, Obj,
           SlaveStatus, SlaveActive
  <2>5. MineInv'
    BY <1>0, <1>2, <2>0 DEF ResumeOnSlave, MineInv, MakePC, DeletePC,
           PollPC, SleepPC, NameType
  <2> QED
    BY <2>1, <2>2, <2>3, <2>4, <2>5 DEF Types
<1>3. CASE ResumeFromStart
  <2>0. mine # NoSlave
    BY <1>0, <1>3 DEF ResumeFromStart, MineInv, MakePC, DeletePC, PollPC
  <2>1. StatusType' /\ FlagType' /\ KnowType' /\ SlaveType'
    BY <1>0, <1>3 DEF ResumeFromStart, StatusType, FlagType, KnowType,
           SlaveType
  <2>2. PlaceType'
    BY <1>0, <1>3 DEF ResumeFromStart, PlaceType, PC, SleepPC, PollPC
  <2>3. CountType'
    <3>1. next_result' = next_result /\ (failures' = failures \/ CountFailure)
      BY <1>3 DEF ResumeFromStart
    <3> QED
      BY <1>0, <3>1 DEF CountType
  <2>4. NameType'
    BY <1>0, <1>3, <2>0, MineIsTask DEF ResumeFromStart, NameType,
           CountType
  <2>5. MineInv'
    BY <1>0, <1>3, <2>0 DEF ResumeFromStart, MineInv, MakePC, DeletePC,
           PollPC, SleepPC, NameType
  <2> QED
    BY <2>1, <2>2, <2>3, <2>4, <2>5 DEF Types
<1>4. CASE ResumeFails
  <2>0. mine # NoSlave
    BY <1>0, <1>4 DEF ResumeFails, MineInv, MakePC, DeletePC, PollPC
  <2>1. StatusType' /\ KnowType' /\ NameType'
    BY <1>0, <1>4 DEF ResumeFails, StatusType, KnowType, NameType
  <2>2. FlagType'
    BY <1>0, <1>4 DEF ResumeFails, FlagType
  <2>3. PlaceType'
    BY <1>0, <1>4 DEF ResumeFails, PlaceType, PC, SleepPC, PollPC
  <2>4. CountType'
    BY <1>0, <1>4, <2>0, MineIsTask DEF ResumeFails, CountType
  <2>5. SlaveType'
    BY <1>0, <1>4, <2>0, MineIsTask DEF ResumeFails, SlaveType, Obj,
           SlaveStatus, SlaveActive
  <2>6. MineInv'
    BY <1>0, <1>4, <2>0 DEF ResumeFails, MineInv, MakePC, DeletePC,
           PollPC, SleepPC, NameType
  <2> QED
    BY <2>1, <2>2, <2>3, <2>4, <2>5, <2>6 DEF Types
<1>5. CASE SetupIds
  <2>0. mine # NoSlave
    BY <1>0, <1>5 DEF SetupIds, MineInv, MakePC, DeletePC, PollPC
  <2>1. NameType' /\ SlaveType'
    BY <1>0, <1>5 DEF SetupIds, NameType, SlaveType
  <2>2. StatusType'
    BY <1>0, <1>5, Statuses DEF SetupIds, StatusType
  <2>3. FlagType'
    BY <1>0, <1>5 DEF SetupIds, FlagType
  <2>4. PlaceType'
    BY <1>0, <1>5 DEF SetupIds, PlaceType, PC, SleepPC, PollPC
  <2>5. KnowType'
    BY <1>0, <1>5, <2>0, MineIsTask DEF SetupIds, KnowType, Obj, Id,
           SlaveStatus, SlaveActive
  <2>6. CountType'
    BY <1>0, <1>5, <2>0, MineIsTask DEF SetupIds, CountType
  <2>7. MineInv'
    BY <1>0, <1>5, <2>0 DEF SetupIds, MineInv, MakePC, DeletePC, PollPC,
           SleepPC, NameType
  <2> QED
    BY <2>1, <2>2, <2>3, <2>4, <2>5, <2>6, <2>7 DEF Types
<1> QED
  BY <1>1, <1>2, <1>3, <1>4, <1>5

\* What is made on the slave.
LEMMA CreateType ==
    ASSUME Types,
           CreateTarget \/ CreateConfig \/ CreateTask \/ StartOnSlave \/ RecordUuid
    PROVE  Types'
<1> USE DEF SetReport, SetStatus, SetStatusOfCurrent, SetBoth, KeepStatus, KeepReport,
            Close, Fail, Giveup, CountFailure, Goto, db, setup, polled, net,
            slave, RequestFails, MaybeMade, CreateCredentials
<1>0. StatusType /\ FlagType /\ PlaceType /\ KnowType
      /\ CountType /\ NameType /\ SlaveType /\ MineInv
  BY DEF Types
<1>1. CASE CreateTarget
  <2>1. FlagType'
    BY <1>0, <1>1 DEF CreateTarget, FlagType
  <2>2. StatusType'
    BY <1>0, <1>1, Statuses DEF CreateTarget, StatusType
  <2>3. PlaceType'
    BY <1>0, <1>1 DEF CreateTarget, PlaceType, PC, SleepPC, PollPC
  <2>4. KnowType'
    BY <1>0, <1>1 DEF CreateTarget, KnowType, Obj, Id, SlaveStatus,
           SlaveActive
  <2>5. CountType'
    BY <1>0, <1>1 DEF CreateTarget, CountType
  <2>6. NameType'
    BY <1>0, <1>1 DEF CreateTarget, NameType, CountType
  <2>7. SlaveType'
    <3>1. PICK o \in SUBSET Obj : slave_objs' = [slave_objs EXCEPT ![next_slave] = o]
      BY <1>1 DEF CreateTarget, Obj
    <3>2. slave_objs' \in [SlaveId -> SUBSET Obj]
      BY <1>0, <3>1 DEF SlaveType
    <3> QED
      BY <1>0, <1>1, <3>2 DEF CreateTarget, SlaveType
  <2>8. MineInv'
    BY <1>0, <1>1 DEF CreateTarget, MineInv, MakePC, DeletePC, PollPC,
           SleepPC, NameType
  <2> QED
    BY <2>1, <2>2, <2>3, <2>4, <2>5, <2>6, <2>7, <2>8 DEF Types
<1>2. CASE CreateConfig
  <2>0. mine # NoSlave
    BY <1>0, <1>2 DEF CreateConfig, MineInv, MakePC, DeletePC, PollPC
  <2>1. StatusType' /\ FlagType' /\ NameType'
    BY <1>0, <1>2 DEF CreateConfig, StatusType, FlagType, NameType
  <2>2. PlaceType'
    BY <1>0, <1>2 DEF CreateConfig, PlaceType, PC, SleepPC, PollPC
  <2>3. KnowType'
    BY <1>0, <1>2, <2>0, MineIsTask DEF CreateConfig, KnowType, Obj, Id,
           SlaveStatus, SlaveActive
  <2>4. CountType'
    BY <1>0, <1>2, <2>0, MineIsTask DEF CreateConfig, CountType
  <2>5. SlaveType'
    <3>1. PICK o \in SUBSET Obj : slave_objs' = [slave_objs EXCEPT ![mine] = @ \cup o]
      BY <1>2 DEF CreateConfig, Obj
    <3>2. slave_objs' \in [SlaveId -> SUBSET Obj]
      BY <1>0, <3>1 DEF SlaveType
    <3> QED
      BY <1>0, <1>2, <3>2 DEF CreateConfig, SlaveType
  <2>6. MineInv'
    BY <1>0, <1>2, <2>0 DEF CreateConfig, MineInv, MakePC, DeletePC,
           PollPC, SleepPC, NameType
  <2> QED
    BY <2>1, <2>2, <2>3, <2>4, <2>5, <2>6 DEF Types
<1>3. CASE CreateTask
  <2>0. mine # NoSlave
    BY <1>0, <1>3 DEF CreateTask, MineInv, MakePC, DeletePC, PollPC
  <2>1. StatusType' /\ FlagType' /\ NameType'
    BY <1>0, <1>3 DEF CreateTask, StatusType, FlagType, NameType
  <2>2. PlaceType'
    BY <1>0, <1>3 DEF CreateTask, PlaceType, PC, SleepPC, PollPC
  <2>3. KnowType'
    BY <1>0, <1>3, <2>0, MineIsTask DEF CreateTask, KnowType, Obj, Id,
           SlaveStatus, SlaveActive
  <2>4. CountType'
    BY <1>0, <1>3, <2>0, MineIsTask DEF CreateTask, CountType
  <2>5. SlaveType'
    BY <1>0, <1>3, <2>0, MineIsTask DEF CreateTask, SlaveType, Obj,
           SlaveStatus, SlaveActive
  <2>6. MineInv'
    BY <1>0, <1>3, <2>0 DEF CreateTask, MineInv, MakePC, DeletePC,
           PollPC, SleepPC, NameType
  <2> QED
    BY <2>1, <2>2, <2>3, <2>4, <2>5, <2>6 DEF Types
<1>4. CASE StartOnSlave
  <2>0. mine # NoSlave
    BY <1>0, <1>4 DEF StartOnSlave, MineInv, MakePC, DeletePC, PollPC
  <2>1. StatusType' /\ FlagType' /\ KnowType' /\ NameType'
    BY <1>0, <1>4 DEF StartOnSlave, StatusType, FlagType, KnowType,
           NameType
  <2>2. PlaceType'
    BY <1>0, <1>4 DEF StartOnSlave, PlaceType, PC, SleepPC, PollPC
  <2>3. CountType'
    BY <1>0, <1>4, <2>0, MineIsTask DEF StartOnSlave, CountType
  <2>4. SlaveType'
    BY <1>0, <1>4, <2>0, MineIsTask DEF StartOnSlave, SlaveType, Obj,
           SlaveStatus, SlaveActive
  <2>5. MineInv'
    <3>1. /\ mine' = mine /\ ids' = ids
          /\ pc' \in {"record", "fstop", "ftask"}
          /\ after' = after \/ after' = "retry"
      BY <1>4 DEF StartOnSlave
    <3>2. pc = "start" /\ after # "done"
      BY <1>0, <1>4 DEF StartOnSlave, MineInv, DeletePC
    <3> QED
      BY <1>0, <2>0, <3>1, <3>2 DEF MineInv, MakePC, DeletePC, PollPC
  <2> QED
    BY <2>1, <2>2, <2>3, <2>4, <2>5 DEF Types
<1>5. CASE RecordUuid
  <2>0. mine # NoSlave
    BY <1>0, <1>5 DEF RecordUuid, MineInv, MakePC, DeletePC, PollPC
  <2>1. StatusType' /\ KnowType' /\ SlaveType'
    BY <1>0, <1>5 DEF RecordUuid, StatusType, KnowType, SlaveType
  <2>2. FlagType'
    BY <1>0, <1>5 DEF RecordUuid, FlagType
  <2>3. PlaceType'
    BY <1>0, <1>5 DEF RecordUuid, PlaceType, PC, SleepPC, PollPC
  <2>4. CountType'
    BY <1>0, <1>5, <2>0, MineIsTask DEF RecordUuid, CountType
  <2>5. NameType'
    BY <1>0, <1>5, <2>0, MineIsTask DEF RecordUuid, NameType, CountType
  <2>6. MineInv'
    BY <1>0, <1>5, <2>0 DEF RecordUuid, MineInv, MakePC, DeletePC,
           PollPC, SleepPC, NameType
  <2> QED
    BY <2>1, <2>2, <2>3, <2>4, <2>5, <2>6 DEF Types
<1> QED
  BY <1>1, <1>2, <1>3, <1>4, <1>5

\* The polling loop.
LEMMA PollType ==
    ASSUME Types,
           \/ Poll \/ PollAsserts \/ PollStop \/ PollWait \/ PollGiveup
           \/ PollFails \/ PollMissing \/ NoStatus \/ Get \/ GetReport \/ BadReport
    PROVE  Types'
<1> USE DEF SetReport, SetStatus, SetStatusOfCurrent, SetBoth, KeepStatus, KeepReport,
            Close, Fail, Giveup, CountFailure, Goto, db, setup, polled, net,
            slave, WaitingStatus, FailStopTask
<1>0. StatusType /\ FlagType /\ PlaceType /\ KnowType
      /\ CountType /\ NameType /\ SlaveType /\ MineInv
  BY DEF Types
<1>1. CASE Poll
  <2>0. mine # NoSlave
    BY <1>0, <1>1 DEF Poll, MineInv, MakePC, DeletePC, PollPC
  <2>1. FlagType' /\ KnowType' /\ CountType' /\ NameType' /\ SlaveType' /\ StatusType'
    BY <1>0, <1>1 DEF Poll, FlagType, KnowType, CountType, NameType, SlaveType,
           StatusType
  <2>2. PlaceType'
    BY <1>0, <1>1 DEF Poll, PlaceType, PC, SleepPC, PollPC
  <2>3. MineInv'
    BY <1>0, <1>1, <2>0 DEF Poll, MineInv, MakePC, DeletePC, PollPC
  <2> QED
    BY <2>1, <2>2, <2>3 DEF Types
<1>7. CASE PollAsserts \/ PollWait \/ PollGiveup
  <2>0. mine # NoSlave
    BY <1>0, <1>7 DEF PollAsserts, PollWait, PollGiveup, MineInv, PollPC
  <2>1. FlagType' /\ KnowType' /\ CountType' /\ NameType' /\ SlaveType'
    BY <1>0, <1>7 DEF PollAsserts, PollWait, PollGiveup, FlagType, KnowType,
           CountType, NameType, SlaveType
  <2>2. StatusType'
    BY <1>0, <1>7, Statuses DEF PollAsserts, PollWait, PollGiveup, StatusType
  <2>3. PlaceType'
    BY <1>0, <1>7 DEF PollAsserts, PollWait, PollGiveup, PlaceType, PC, SleepPC, PollPC
  <2>4. MineInv'
    BY <1>0, <1>7, <2>0 DEF PollAsserts, PollWait, PollGiveup, MineInv, MakePC,
           DeletePC, PollPC
  <2> QED
    BY <2>1, <2>2, <2>3, <2>4 DEF Types
<1>8. CASE PollStop
  <2>0. mine # NoSlave
    BY <1>0, <1>8 DEF PollStop, MineInv, PollPC
  <2>1. FlagType' /\ KnowType' /\ CountType' /\ NameType'
    BY <1>0, <1>8 DEF PollStop, FlagType, KnowType, CountType, NameType
  <2>2. StatusType'
    BY <1>0, <1>8, Statuses DEF PollStop, StatusType
  <2>3. PlaceType'
    BY <1>0, <1>8 DEF PollStop, PlaceType, PC, SleepPC, PollPC
  <2>4. SlaveType'
    BY <1>0, <1>8, <2>0, MineIsTask DEF PollStop, SlaveType, SlaveStatus, SlaveActive
  <2>5. MineInv'
    BY <1>0, <1>8, <2>0 DEF PollStop, MineInv, MakePC, DeletePC, PollPC
  <2> QED
    BY <2>1, <2>2, <2>3, <2>4, <2>5 DEF Types
<1>9. CASE NoStatus
  <2>0. mine # NoSlave
    BY <1>0, <1>9 DEF NoStatus, MineInv, PollPC
  <2>1. FlagType' /\ KnowType' /\ NameType' /\ SlaveType'
    BY <1>0, <1>9 DEF NoStatus, FlagType, KnowType, NameType, SlaveType
  <2>2. StatusType'
    BY <1>0, <1>9, Statuses DEF NoStatus, StatusType
  <2>3. PlaceType' /\ CountType'
    BY <1>0, <1>9 DEF NoStatus, PlaceType, CountType, PC
  <2>4. MineInv'
    BY <1>0, <1>9, <2>0 DEF NoStatus, MineInv, MakePC, DeletePC, PollPC
  <2> QED
    BY <2>1, <2>2, <2>3, <2>4 DEF Types
<1>2. CASE PollFails
  <2>0. mine # NoSlave
    BY <1>0, <1>2 DEF PollFails, MineInv, MakePC, DeletePC, PollPC
  <2>1. FlagType' /\ CountType' /\ NameType' /\ SlaveType'
    BY <1>0, <1>2 DEF PollFails, FlagType, CountType, NameType, SlaveType
  <2>2. StatusType'
    BY <1>0, <1>2, Statuses DEF PollFails, StatusType
  <2>3. PlaceType'
    BY <1>0, <1>2 DEF PollFails, PlaceType, PC, SleepPC, PollPC
  <2>4. KnowType'
    BY <1>0, <1>2, <2>0, MineIsTask DEF PollFails, KnowType, Obj, Id,
           SlaveStatus, SlaveActive
  <2>5. MineInv'
    BY <1>0, <1>2, <2>0 DEF PollFails, MineInv, MakePC, DeletePC,
           PollPC, SleepPC, NameType
  <2> QED
    BY <2>1, <2>2, <2>3, <2>4, <2>5 DEF Types
<1>3. CASE PollMissing
  <2>0. mine # NoSlave
    BY <1>0, <1>3 DEF PollMissing, MineInv, MakePC, DeletePC, PollPC
  <2>1. FlagType' /\ CountType' /\ NameType' /\ SlaveType'
    BY <1>0, <1>3 DEF PollMissing, FlagType, CountType, NameType,
           SlaveType
  <2>2. StatusType'
    BY <1>0, <1>3, Statuses DEF PollMissing, StatusType
  <2>3. PlaceType'
    BY <1>0, <1>3 DEF PollMissing, PlaceType, PC, SleepPC, PollPC
  <2>4. KnowType'
    BY <1>0, <1>3, <2>0, MineIsTask DEF PollMissing, KnowType, Obj, Id,
           SlaveStatus, SlaveActive
  <2>5. MineInv'
    BY <1>0, <1>3, <2>0 DEF PollMissing, MineInv, MakePC, DeletePC,
           PollPC, SleepPC, NameType
  <2> QED
    BY <2>1, <2>2, <2>3, <2>4, <2>5 DEF Types
<1>4. CASE Get
  <2>0. mine # NoSlave
    BY <1>0, <1>4 DEF Get, MineInv, MakePC, DeletePC, PollPC
  <2>1. FlagType' /\ CountType' /\ NameType' /\ SlaveType'
    BY <1>0, <1>4 DEF Get, FlagType, CountType, NameType, SlaveType
  <2>2. StatusType'
    BY <1>0, <1>4, Statuses DEF Get, StatusType
  <2>3. PlaceType'
    BY <1>0, <1>4 DEF Get, PlaceType, PC, SleepPC, PollPC
  <2>4. KnowType'
    BY <1>0, <1>4, <2>0, MineIsTask DEF Get, KnowType, Obj, Id,
           SlaveStatus, SlaveActive
  <2>5. MineInv'
    BY <1>0, <1>4, <2>0 DEF Get, MineInv, MakePC, DeletePC, PollPC,
           SleepPC, NameType
  <2> QED
    BY <2>1, <2>2, <2>3, <2>4, <2>5 DEF Types
<1>5. CASE GetReport
  <2>0. mine # NoSlave
    BY <1>0, <1>5 DEF GetReport, MineInv, MakePC, DeletePC, PollPC
  <2>1. SlaveType'
    BY <1>0, <1>5 DEF GetReport, SlaveType
  <2>2. StatusType'
    BY <1>0, <1>5, Statuses DEF GetReport, StatusType
  <2>3. FlagType'
    BY <1>0, <1>5 DEF GetReport, FlagType
  <2>4. PlaceType'
    BY <1>0, <1>5 DEF GetReport, PlaceType, PC, SleepPC, PollPC
  <2>5. KnowType'
    BY <1>0, <1>5, <2>0, MineIsTask DEF GetReport, KnowType, Obj, Id,
           SlaveStatus, SlaveActive
  <2>6. CountType'
    BY <1>0, <1>5, <2>0, MineIsTask DEF GetReport, CountType
  <2>7. NameType'
    BY <1>0, <1>5, <2>0, MineIsTask DEF GetReport, NameType, CountType
  <2>8. MineInv'
    BY <1>0, <1>5, <2>0 DEF GetReport, MineInv, MakePC, DeletePC,
           PollPC, SleepPC, NameType
  <2> QED
    BY <2>1, <2>2, <2>3, <2>4, <2>5, <2>6, <2>7, <2>8 DEF Types
<1>6. CASE BadReport
  <2>0. mine # NoSlave
    BY <1>0, <1>6 DEF BadReport, MineInv, MakePC, DeletePC, PollPC
  <2>1. StatusType' /\ FlagType' /\ NameType' /\ SlaveType'
    BY <1>0, <1>6 DEF BadReport, StatusType, FlagType, NameType,
           SlaveType
  <2>2. PlaceType'
    BY <1>0, <1>6 DEF BadReport, PlaceType, PC, SleepPC, PollPC
  <2>3. KnowType'
    BY <1>0, <1>6, <2>0, MineIsTask DEF BadReport, KnowType, Obj, Id,
           SlaveStatus, SlaveActive
  <2>4. CountType'
    BY <1>0, <1>6, <2>0, MineIsTask DEF BadReport, CountType
  <2>5. MineInv'
    BY <1>0, <1>6, <2>0 DEF BadReport, MineInv, MakePC, DeletePC,
           PollPC, SleepPC, NameType
  <2> QED
    BY <2>1, <2>2, <2>3, <2>4, <2>5 DEF Types
<1> QED
  BY <1>1, <1>2, <1>3, <1>4, <1>5, <1>6, <1>7, <1>8, <1>9

\* slave_sleep_connect.
LEMMA SleepType ==
    ASSUME Types,
           Reconnect \/ SleepStopped
    PROVE  Types'
<1> USE DEF SetReport, SetStatus, SetStatusOfCurrent, SetBoth, KeepStatus, KeepReport,
            Close, Fail, Giveup, CountFailure, Goto, db, setup, polled, net,
            slave, StartPolling, Connected
<1>0. StatusType /\ FlagType /\ PlaceType /\ KnowType
      /\ CountType /\ NameType /\ SlaveType /\ MineInv
  BY DEF Types
<1>1. CASE Reconnect
  <2>1. StatusType' /\ KnowType' /\ CountType' /\ NameType' /\ SlaveType'
    BY <1>0, <1>1 DEF Reconnect, StatusType, KnowType, CountType,
           NameType, SlaveType
  <2>2. FlagType'
    BY <1>0, <1>1 DEF Reconnect, FlagType
  <2>3. PlaceType'
    BY <1>0, <1>1 DEF Reconnect, PlaceType, PC, SleepPC, PollPC
  <2>4. MineInv'
    BY <1>0, <1>1 DEF Reconnect, MineInv, MakePC, DeletePC, PollPC,
           SleepPC, NameType
  <2> QED
    BY <2>1, <2>2, <2>3, <2>4 DEF Types
<1>2. CASE SleepStopped
  <2>1. NameType' /\ SlaveType'
    BY <1>0, <1>2 DEF SleepStopped, NameType, SlaveType
  <2>2. StatusType'
    BY <1>0, <1>2, Statuses DEF SleepStopped, StatusType
  <2>3. FlagType'
    BY <1>0, <1>2 DEF SleepStopped, FlagType
  <2>4. PlaceType'
    BY <1>0, <1>2 DEF SleepStopped, PlaceType, PC, SleepPC, PollPC
  <2>5. KnowType'
    BY <1>0, <1>2 DEF SleepStopped, KnowType, Obj, Id, SlaveStatus,
           SlaveActive
  <2>6. CountType'
    BY <1>0, <1>2 DEF SleepStopped, CountType
  <2>7. MineInv'
    BY <1>0, <1>2 DEF SleepStopped, MineInv, MakePC, DeletePC, PollPC,
           SleepPC, NameType
  <2> QED
    BY <2>1, <2>2, <2>3, <2>4, <2>5, <2>6, <2>7 DEF Types
<1> QED
  BY <1>1, <1>2

\* The clean up.
LEMMA CleanType ==
    ASSUME Types,
           CleanStop \/ CleanTask \/ CleanConfig \/ CleanTarget \/ CleanCredentials
    PROVE  Types'
<1> USE DEF SetReport, SetStatus, SetStatusOfCurrent, SetBoth, KeepStatus, KeepReport,
            Close, Fail, Giveup, CountFailure, Goto, db, setup, polled, net,
            slave, DeleteObj, Gone
<1>0. StatusType /\ FlagType /\ PlaceType /\ KnowType
      /\ CountType /\ NameType /\ SlaveType /\ MineInv
  BY DEF Types
<1>1. CASE CleanStop
  <2>0. mine # NoSlave
    BY <1>0, <1>1 DEF CleanStop, MineInv, MakePC, DeletePC, PollPC
  <2>1. StatusType' /\ FlagType' /\ KnowType' /\ CountType' /\ NameType'
    BY <1>0, <1>1 DEF CleanStop, StatusType, FlagType, KnowType,
           CountType, NameType
  <2>2. PlaceType'
    BY <1>0, <1>1 DEF CleanStop, PlaceType, PC, SleepPC, PollPC
  <2>3. SlaveType'
    BY <1>0, <1>1, <2>0, MineIsTask DEF CleanStop, SlaveType, Obj,
           SlaveStatus, SlaveActive
  <2>4. MineInv'
    BY <1>0, <1>1, <2>0 DEF CleanStop, MineInv, MakePC, DeletePC,
           PollPC, SleepPC, NameType
  <2> QED
    BY <2>1, <2>2, <2>3, <2>4 DEF Types
<1>2. CASE CleanTask
  <2>0. mine # NoSlave
    BY <1>0, <1>2 DEF CleanTask, MineInv, MakePC, DeletePC, PollPC
  <2>1. StatusType' /\ FlagType' /\ KnowType' /\ CountType'
    BY <1>0, <1>2 DEF CleanTask, StatusType, FlagType, KnowType,
           CountType
  <2>2. PlaceType'
    BY <1>0, <1>2 DEF CleanTask, PlaceType, PC, SleepPC, PollPC
  <2>3. NameType'
    <3>1. /\ slave_task_uuid' = 0 /\ mine' = mine /\ results' = results
          /\ next_slave' = next_slave
      BY <1>2 DEF CleanTask
    <3> QED
      BY <1>0, <3>1 DEF NameType
  <2>4. SlaveType'
    BY <1>0, <1>2, <2>0, MineIsTask DEF CleanTask, SlaveType, Obj,
           SlaveStatus, SlaveActive
  <2>5. MineInv'
    BY <1>0, <1>2, <2>0 DEF CleanTask, MineInv, MakePC, DeletePC,
           PollPC, SleepPC, NameType
  <2> QED
    BY <2>1, <2>2, <2>3, <2>4, <2>5 DEF Types
<1>3. CASE CleanConfig
  <2>0. mine # NoSlave
    BY <1>0, <1>3 DEF CleanConfig, MineInv, MakePC, DeletePC, PollPC
  <2>1. StatusType' /\ FlagType' /\ KnowType' /\ CountType' /\ NameType'
    BY <1>0, <1>3 DEF CleanConfig, StatusType, FlagType, KnowType,
           CountType, NameType
  <2>2. PlaceType'
    BY <1>0, <1>3 DEF CleanConfig, PlaceType, PC, SleepPC, PollPC
  <2>3. SlaveType'
    BY <1>0, <1>3, <2>0, MineIsTask DEF CleanConfig, SlaveType, Obj,
           SlaveStatus, SlaveActive
  <2>4. MineInv'
    BY <1>0, <1>3, <2>0 DEF CleanConfig, MineInv, MakePC, DeletePC,
           PollPC, SleepPC, NameType
  <2> QED
    BY <2>1, <2>2, <2>3, <2>4 DEF Types
<1>4. CASE CleanTarget
  <2>0. mine # NoSlave
    BY <1>0, <1>4 DEF CleanTarget, MineInv, MakePC, DeletePC, PollPC
  <2>1. StatusType' /\ FlagType' /\ KnowType' /\ CountType' /\ NameType'
    BY <1>0, <1>4 DEF CleanTarget, StatusType, FlagType, KnowType,
           CountType, NameType
  <2>2. PlaceType'
    BY <1>0, <1>4 DEF CleanTarget, PlaceType, PC, SleepPC, PollPC
  <2>3. SlaveType'
    BY <1>0, <1>4, <2>0, MineIsTask DEF CleanTarget, SlaveType, Obj,
           SlaveStatus, SlaveActive
  <2>4. MineInv'
    BY <1>0, <1>4, <2>0 DEF CleanTarget, MineInv, MakePC, DeletePC,
           PollPC, SleepPC, NameType
  <2> QED
    BY <2>1, <2>2, <2>3, <2>4 DEF Types
<1>5. CASE CleanCredentials
  <2>0. mine # NoSlave
    BY <1>0, <1>5 DEF CleanCredentials, MineInv, MakePC, DeletePC, PollPC
  <2>1. StatusType'
    BY <1>0, <1>5 DEF CleanCredentials, StatusType
  <2>2. FlagType'
    BY <1>0, <1>5 DEF CleanCredentials, FlagType
  <2>3. PlaceType'
    BY <1>0, <1>5 DEF CleanCredentials, PlaceType, PC, SleepPC, PollPC
  <2>4. KnowType'
    BY <1>0, <1>5, <2>0, MineIsTask DEF CleanCredentials, KnowType, Obj,
           Id, SlaveStatus, SlaveActive
  <2>5. CountType'
    BY <1>0, <1>5, <2>0, MineIsTask DEF CleanCredentials, CountType
  <2>6. NameType'
    BY <1>0, <1>5, <2>0, MineIsTask DEF CleanCredentials, NameType,
           CountType
  <2>7. SlaveType'
    BY <1>0, <1>5, <2>0, MineIsTask DEF CleanCredentials, SlaveType,
           Obj, SlaveStatus, SlaveActive
  <2>8. MineInv'
    BY <1>0, <1>5, <2>0 DEF CleanCredentials, MineInv, MakePC, DeletePC,
           PollPC, SleepPC, NameType
  <2> QED
    BY <2>1, <2>2, <2>3, <2>4, <2>5, <2>6, <2>7, <2>8 DEF Types
<1> QED
  BY <1>1, <1>2, <1>3, <1>4, <1>5

\* The handler is gone; the row of its report, if it was deleted, is not that of the
\* last report any more.
LEMMA GoneType ==
    ASSUME Types, RowType, Exit \/ ResultRefused
    PROVE  Types' /\ RowType'
<1>1. /\ Gone /\ TakeRow(LastRow) /\ older' = OtherRows
      /\ UNCHANGED << run_status, hidden, failures, slave >>
  BY DEF Exit, ResultRefused
<1>2. FlagType' /\ PlaceType' /\ KnowType' /\ CountType' /\ SlaveType' /\ MineInv'
  <2>0. FlagType'
    BY <1>1 DEF Gone, Types, FlagType
  <2>1. CountType' /\ SlaveType'
    BY <1>1 DEF Gone, slave, Types, CountType, SlaveType
  <2>2. PlaceType' /\ KnowType'
    BY <1>1 DEF Gone, PlaceType, KnowType, PC, SlaveStatus
  <2>3. MineInv'
    BY <1>1 DEF Gone, MineInv, MakePC, DeletePC, PollPC
  <2> QED
    BY <2>0, <2>1, <2>2, <2>3
<1>3. RowKnown(LastRow) /\ RowsKnown(OtherRows)
  BY LastRows
<1>4. PICK row : row = LastRow
  OBVIOUS
<1>5. /\ run_status' \in task_status_t /\ seen_run' \in task_status_t
      /\ mine' = NoSlave /\ next_slave' = next_slave
  BY <1>1, Statuses DEF Gone, slave, Types, StatusType
<1>6. StatusType' /\ NameType'
  BY <1>1, <1>3, <1>4, <1>5, TakeRowType
<1>7. RowType'
  BY <1>1, <1>3, <1>5 DEF RowType, RowsKnown
<1> QED
  BY <1>2, <1>6, <1>7 DEF Types

\* The same after a crash.
LEMMA CrashType ==
    ASSUME Types, RowType, Crash
    PROVE  Types' /\ RowType'
<1>1. /\ Gone /\ CountFailure
      /\ UNCHANGED << hidden, slave >>
      /\ run_status' = IF hidden THEN run_status ELSE Recovered(run_status)
      /\ TakeRow([LastRow EXCEPT !.status = Recovered(LastRow.status)])
  BY DEF Crash
<1>2. FlagType' /\ PlaceType' /\ KnowType' /\ CountType' /\ SlaveType' /\ MineInv'
  <2>0. FlagType'
    BY <1>1 DEF Gone, Types, FlagType
  <2>1. CountType' /\ SlaveType'
    BY <1>1 DEF Gone, CountFailure, slave, Types, CountType, SlaveType
  <2>2. PlaceType' /\ KnowType'
    BY <1>1 DEF Gone, PlaceType, KnowType, PC, SlaveStatus
  <2>3. MineInv'
    BY <1>1 DEF Gone, MineInv, MakePC, DeletePC, PollPC
  <2> QED
    BY <2>0, <2>1, <2>2, <2>3
<1>3. RowKnown(LastRow) /\ RowsKnown(OtherRows)
  BY LastRows
<1>4. \A status \in task_status_t : Recovered(status) \in task_status_t
  BY Statuses DEF Recovered
<1>5. /\ run_status' \in task_status_t /\ seen_run' \in task_status_t
      /\ mine' = NoSlave /\ next_slave' = next_slave
  BY <1>1, <1>4, Statuses DEF Gone, slave, Types, StatusType
<1>6. \A row \in Row : /\ [row EXCEPT !.status = Recovered(row.status)] \in Row
                       /\ [row EXCEPT !.status = Recovered(row.status)].uuid = row.uuid
  BY <1>4 DEF Row
<1>7. StatusType' /\ NameType'
  <2>1. PICK row : row = [LastRow EXCEPT !.status = Recovered(LastRow.status)]
    OBVIOUS
  <2>2. RowKnown(row) /\ TakeRow(row)
    BY <1>1, <1>3, <1>6, <2>1 DEF RowKnown
  <2> QED
    BY <1>5, <2>2, TakeRowType
<1>8. RowType'
  <2>1. PICK rows : rows = OtherRows
    OBVIOUS
  <2>2. older' = [i \in 1 .. Len(rows) |->
                     [rows[i] EXCEPT !.status = Recovered(rows[i].status)]]
    BY <2>1 DEF Crash
  <2>3. rows \in Seq(Row) /\ \A i \in 1 .. Len(rows) : rows[i].uuid < next_slave
    BY <1>3, <2>1 DEF RowsKnown
  <2>4. ASSUME NEW i \in 1 .. Len(rows)
        PROVE  older'[i] \in Row /\ older'[i].uuid < next_slave
    <3>1. PICK row \in Row : row = rows[i]
      BY <2>3
    <3>2. older'[i] = [row EXCEPT !.status = Recovered(row.status)]
      BY <2>2, <3>1
    <3>3. row.uuid < next_slave
      BY <2>3, <3>1
    <3> QED
      BY <1>6, <3>2, <3>3
  <2>5. older' \in Seq(Row) /\ Len(older') = Len(rows)
    BY <2>2, <2>3, <2>4
  <2> QED
    BY <1>5, <2>4, <2>5 DEF RowType, RowsKnown
<1> QED
  BY <1>2, <1>7, <1>8 DEF Types

\* The failures of connection and process.
LEMMA FaultType ==
    ASSUME Types,
           LoseLink \/ Signal
    PROVE  Types'
<1> USE DEF SetReport, SetStatus, SetStatusOfCurrent, SetBoth, KeepStatus, KeepReport,
            Close, Fail, Giveup, CountFailure, Goto, db, setup, polled, net,
            slave, Gone
<1>0. StatusType /\ FlagType /\ PlaceType /\ KnowType
      /\ CountType /\ NameType /\ SlaveType /\ MineInv
  BY DEF Types
<1>1. CASE LoseLink
  <2>1. StatusType' /\ PlaceType' /\ KnowType' /\ NameType' /\ SlaveType' /\
        MineInv'
    BY <1>0, <1>1 DEF LoseLink, StatusType, PlaceType, KnowType,
           NameType, SlaveType, MineInv
  <2>2. FlagType'
    BY <1>0, <1>1 DEF LoseLink, FlagType
  <2>3. CountType'
    BY <1>0, <1>1 DEF LoseLink, CountType
  <2> QED
    BY <2>1, <2>2, <2>3 DEF Types
<1>2. CASE Signal
  <2>1. StatusType' /\ PlaceType' /\ KnowType' /\ NameType' /\ SlaveType' /\
        MineInv'
    BY <1>0, <1>2 DEF Signal, StatusType, PlaceType, KnowType, NameType,
           SlaveType, MineInv
  <2>2. FlagType'
    BY <1>0, <1>2 DEF Signal, FlagType
  <2>3. CountType'
    BY <1>0, <1>2 DEF Signal, CountType
  <2> QED
    BY <2>1, <2>2, <2>3 DEF Types
<1> QED
  BY <1>1, <1>2

\* The tasks on the slave go on, and somebody removes or interrupts them.
LEMMA SlaveStepType ==
    ASSUME Types, NEW n \in SlaveId, SlaveStep(n) \/ SlaveFault(n)
    PROVE  Types'
<1>1. /\ UNCHANGED << db, pc, setup, polled, after, termination_signal, link,
                     slave_objs, next_slave >>
      /\ failures' = failures \/ CountFailure
  BY DEF SlaveStep, SlaveFault, SlaveGoes, SlaveResult
<1>2. StatusType' /\ FlagType' /\ PlaceType' /\ KnowType' /\ NameType' /\ MineInv'
  BY <1>1 DEF db, setup, polled, Types, StatusType, FlagType, PlaceType, KnowType,
              NameType, MineInv
<1>3. CountType'
  BY <1>1 DEF polled, Types, CountType, CountFailure
<1>4. slave_status' \in [SlaveId -> SlaveStatus]
  <2>1. SlaveType
    BY DEF Types
  <2>2. slave_status' = slave_status
        \/ \E new \in SlaveStatus : slave_status' = [slave_status EXCEPT ![n] = new]
    BY DEF SlaveStep, SlaveFault, SlaveGoes, SlaveResult, SlaveStatus, SlaveActive
  <2> QED
    BY <2>1, <2>2 DEF SlaveType
<1>5. slave_results' \in [SlaveId -> 0 .. MaxResult]
  <2>1. SlaveType
    BY DEF Types
  <2>2. \/ slave_results' = slave_results
        \/ /\ slave_results[n] < MaxResult
           /\ slave_results' = [slave_results EXCEPT ![n] = slave_results[n] + 1]
    BY DEF SlaveStep, SlaveFault, SlaveGoes, SlaveResult
  <2> QED
    BY <2>1, <2>2 DEF SlaveType
<1> QED
  BY <1>1, <1>2, <1>3, <1>4, <1>5 DEF Types, SlaveType

\* The initial state.
LEMMA InitType == Init => Types /\ RowType
<1> SUFFICES ASSUME Init PROVE Types /\ RowType
  OBVIOUS
<1>1. StatusType /\ FlagType
  BY Statuses DEF Init, StatusType, FlagType
<1>2. PlaceType /\ KnowType
  BY DEF Init, PlaceType, KnowType, PC, SlaveStatus
<1>3. CountType /\ NameType
  BY DEF Init, CountType, NameType
<1>4. SlaveType
  BY DEF Init, SlaveType, SlaveStatus
<1>5. MineInv
  BY DEF Init, MineInv, MakePC, DeletePC, PollPC
<1>6. RowType
  BY DEF Init, RowType, RowsKnown
<1> QED
  BY <1>1, <1>2, <1>3, <1>4, <1>5, <1>6 DEF Types

\* The steps that leave the rows of earlier reports as they are.
LEMMA OlderKept ==
    ASSUME RowType, Types, older' = older, next_slave' \in {next_slave, next_slave + 1}
    PROVE  RowType'
<1>1. next_slave \in Nat /\ older \in Seq(Row)
  BY DEF Types, NameType, RowType, RowsKnown
<1>2. \A i \in 1 .. Len(older) : older[i].uuid \in Nat /\ older[i].uuid < next_slave
  <2>1. \A i \in 1 .. Len(older) : older[i] \in Row
    BY <1>1
  <2>2. \A row \in Row : row.uuid \in Nat
    BY DEF Row
  <2> QED
    BY <2>1, <2>2 DEF RowType, RowsKnown
<1>3. \A k \in Nat : k < next_slave => k < next_slave'
  BY <1>1
<1> QED
  BY <1>1, <1>2, <1>3 DEF RowType, RowsKnown

LEMMA RowNext ==
    ASSUME Types, RowType, [Next]_vars,
           ~ DeleteReport, ~ \E i \in 1 .. MaxOlder : DeleteOlderReport(i),
           ~ Exit, ~ ResultRefused, ~ Crash
    PROVE  RowType'
<1> USE DEF db, slave, KeepReport
<1>1. CASE StartTask
  <2>1. older' = AllRows /\ next_slave' = next_slave
    BY <1>1 DEF StartTask
  <2> QED
    BY <2>1, AllRowsKnown DEF RowType, RowsKnown
<1>2. CASE ResumeTask \/ StopTask \/ DeleteTask
  BY <1>2, OlderKept DEF ResumeTask, StopTask, DeleteTask
<1>3. CASE \/ Connect \/ ConnectFails \/ Setup \/ LoginFails
           \/ ResumeAsIs \/ ResumeOnSlave \/ ResumeFromStart \/ ResumeFails \/ SetupIds
  BY <1>3, OlderKept DEF Connect, ConnectFails, Setup, LoginFails, ResumeAsIs,
     ResumeOnSlave, ResumeFromStart, ResumeFails, SetupIds
<1>4. CASE CreateTarget \/ CreateConfig \/ CreateTask \/ StartOnSlave \/ RecordUuid
  BY <1>4, OlderKept DEF CreateTarget, CreateConfig, CreateTask, StartOnSlave,
     RecordUuid
<1>5. CASE \/ Poll \/ PollAsserts \/ PollStop \/ PollWait \/ PollGiveup
           \/ PollFails \/ PollMissing \/ NoStatus \/ Get \/ GetReport \/ BadReport
  BY <1>5, OlderKept DEF Poll, PollAsserts, PollStop, PollWait, PollGiveup, PollFails,
     PollMissing, NoStatus, Get, GetReport, BadReport
<1>6. CASE \/ Reconnect \/ SleepStopped \/ CleanStop \/ CleanTask \/ CleanConfig
           \/ CleanTarget \/ CleanCredentials \/ LoseLink \/ Signal
  BY <1>6, OlderKept DEF Reconnect, SleepStopped, CleanStop, CleanTask, CleanConfig,
     CleanTarget, CleanCredentials, LoseLink, Signal
<1>7. CASE \E n \in SlaveId : SlaveStep(n) \/ SlaveFault(n)
  BY <1>7, OlderKept DEF SlaveStep, SlaveFault, SlaveGoes, SlaveResult
<1>8. CASE UNCHANGED vars
  BY <1>8, OlderKept DEF vars
<1> QED
  BY <1>1, <1>2, <1>3, <1>4, <1>5, <1>6, <1>7, <1>8
     DEF Next, Request, HandlerStep, Failure

\* Every step keeps the types.
LEMMA NextType == Types /\ RowType /\ [Next]_vars => Types' /\ RowType'
<1> SUFFICES ASSUME Types, RowType, [Next]_vars PROVE Types' /\ RowType'
  OBVIOUS
<1>1. CASE DeleteReport \/ \E i \in 1 .. MaxOlder : DeleteOlderReport(i)
  BY <1>1, DeleteReportType, DeleteOlderReportType
<1>2. CASE Exit \/ ResultRefused
  BY <1>2, GoneType
<1>3. CASE Crash
  BY <1>3, CrashType
<1>4. ASSUME ~ DeleteReport, ~ \E i \in 1 .. MaxOlder : DeleteOlderReport(i),
             ~ Exit, ~ ResultRefused, ~ Crash
      PROVE  Types' /\ RowType'
  <2>1. Types'
    <3>1. CASE Request
      BY <1>4, <3>1, RequestType DEF Request
    <3>2. CASE HandlerStep
      BY <1>4, <3>2, BeginType, ResumeType, CreateType, PollType, SleepType, CleanType
         DEF HandlerStep
    <3>3. CASE \E n \in SlaveId : SlaveStep(n)
      BY <3>3, SlaveStepType
    <3>4. CASE Failure
      BY <1>4, <3>4, BeginType, PollType, SlaveStepType, FaultType DEF Failure
    <3>5. CASE UNCHANGED vars
      BY <3>5 DEF vars, db, setup, polled, net, slave, Types, StatusType, FlagType,
                  PlaceType, KnowType, CountType, NameType, SlaveType, MineInv
    <3> QED
      BY <1>4, <3>1, <3>2, <3>3, <3>4, <3>5 DEF Next
  <2> QED
    BY <1>4, <2>1, RowNext
<1> QED
  BY <1>1, <1>2, <1>3, <1>4

-----------------------------------------------------------------------------
(***************************************************************************)
(* A handler that has written Stopped exits.                               *)
(***************************************************************************)

\* What a command writes is not Stopped, and a handler is only started.
LEMMA RequestStopped ==
    ASSUME Types, StoppedExits, Request, "delete_report" \notin Ops
    PROVE  StoppedExits'
BY DEF StoppedExits, Request, DeleteReport, DeleteOlderReport, StartTask, ResumeTask, StopTask, DeleteTask, SetBoth,
       StopStatus, Stoppable, ActiveStatus

\* The handler.
LEMMA HandlerStopped ==
    ASSUME Types, StoppedExits, HandlerStep
    PROVE  StoppedExits'
<1> USE DEF StoppedExits, SetStatus, SetStatusOfCurrent, SetBoth, KeepStatus, Goto,
            Giveup, db
<1>1. CASE Connect \/ ConnectFails \/ Setup
  BY <1>1 DEF Connect, ConnectFails, Setup
<1>2. CASE ResumeAsIs \/ ResumeOnSlave \/ ResumeFromStart \/ ResumeFails \/ SetupIds
  BY <1>2 DEF ResumeAsIs, ResumeOnSlave, ResumeFromStart, ResumeFails, SetupIds,
              StartPolling
<1>3. CASE CreateTarget
  BY <1>3 DEF CreateTarget
<1>4. CASE CreateConfig \/ CreateTask \/ StartOnSlave \/ RecordUuid
  BY <1>4 DEF CreateConfig, CreateTask, StartOnSlave, RecordUuid
<1>5. CASE Poll \/ PollAsserts \/ PollStop \/ PollWait \/ PollGiveup
  BY <1>5 DEF Poll, PollAsserts, PollStop, PollWait, PollGiveup, WaitingStatus
<1>6. CASE PollFails \/ PollMissing
  BY <1>6 DEF PollFails, PollMissing
<1>7. CASE Get
  BY <1>7 DEF Get
<1>8. CASE GetReport
  BY <1>8 DEF GetReport
<1>9. CASE Reconnect
  BY <1>9 DEF Reconnect, SleepPC
<1>10. CASE SleepStopped
  BY <1>10 DEF SleepStopped, StartPolling, SleepPC
<1>11. CASE CleanStop \/ CleanTask \/ CleanConfig \/ CleanTarget \/ CleanCredentials
  BY <1>11 DEF CleanStop, CleanTask, CleanConfig, CleanTarget, CleanCredentials
<1>12. CASE Exit
  BY <1>12 DEF Exit, Gone
<1> QED
  BY <1>1, <1>2, <1>3, <1>4, <1>5, <1>6, <1>7, <1>8, <1>9, <1>10, <1>11, <1>12
     DEF HandlerStep

\* The slave and the failures.
LEMMA OtherStopped ==
    ASSUME Types, StoppedExits,
           ResultRefused \/ (\E n \in SlaveId : SlaveStep(n)) \/ Failure
    PROVE  StoppedExits'
<1> USE DEF StoppedExits
<1>1. CASE \E n \in SlaveId : SlaveStep(n) \/ SlaveFault(n)
  BY <1>1 DEF SlaveStep, SlaveFault, SlaveGoes, SlaveResult, db
<1>2. CASE LoginFails \/ NoStatus \/ BadReport \/ LoseLink \/ Signal
  BY <1>2 DEF LoginFails, NoStatus, SetStatus, BadReport, LoseLink, Signal, SetBoth, Goto, db
<1>3. CASE Crash \/ ResultRefused
  BY <1>3 DEF Crash, ResultRefused, Gone
<1> QED
  BY <1>1, <1>2, <1>3 DEF Failure

-----------------------------------------------------------------------------
(***************************************************************************)
(* The results, and the clean up.                                          *)
(***************************************************************************)
ScanInv == Fetched /\ ResultsComplete /\ Known /\ Cleaned

\* Where the handler is on its way to a scan that is Done.
NearPC == MakePC \cup PollPC \cup {"isleep", "psleep"}

\* Elsewhere, before the scan is Done, there is nothing to keep.
LEMMA FarStep ==
    ASSUME pc' \notin NearPC, after' # "done"
    PROVE  ScanInv'
BY DEF ScanInv, Fetched, ResultsComplete, Known, Cleaned, NearPC, PollPC

\* On the way there is something to keep about the report and the objects only.
LEMMA NearStep ==
    ASSUME after' # "done",
           pc' \in PollPC \cup {"psleep"} /\ HasReport'
              => {mine'} \X (1 .. next_result' - 1) \subseteq results',
           pc' = "report" /\ seen' = "Done" => slave_status'[mine'] \in {"Done", "none"},
           slave_objs'[mine'] \cap {"config", "target"} \subseteq ids'
    PROVE  ScanInv'
BY DEF ScanInv, Fetched, ResultsComplete, Known, Cleaned

\* A step of others does not make a task on the slave that has ended go on.
LEMMA QuietStep ==
    ASSUME Types, ScanInv,
           UNCHANGED << pc, after, mine, ids, next_result, seen >>,
           HasReport' => HasReport /\ results' = results,
           link' => link,
           \A n \in SlaveId :
              /\ slave_objs'[n] \subseteq slave_objs[n]
              /\ slave_status[n] \in {"Done", "none"}
                    => /\ slave_status'[n] \in {"Done", "none"}
                       /\ slave_results'[n] = slave_results[n]
              /\ slave_status[n] = "none" => slave_status'[n] = "none"
    PROVE  ScanInv'
<1>1. ASSUME mine # NoSlave
      PROVE  mine \in SlaveId
  BY <1>1, MineIsTask
<1>2. pc \in MakePC \cup PollPC \cup {"isleep", "psleep"} \/ after = "done"
         => mine \in SlaveId
  BY <1>1 DEF Types, MineInv
<1>3. Fetched'
  BY <1>2 DEF ScanInv, Fetched, PollPC
<1>4. ResultsComplete'
  BY <1>2 DEF ScanInv, Fetched, ResultsComplete
<1>5. Known'
  BY <1>2 DEF ScanInv, Known
<1>6. Cleaned'
  BY <1>2 DEF ScanInv, Cleaned
<1> QED
  BY <1>3, <1>4, <1>5, <1>6 DEF ScanInv

\* Before the clean up of a scan that is Done, after is something else.
LEMMA NotDone ==
    ASSUME Types, pc \notin DeletePC \cup {"exit"}
    PROVE  after # "done"
BY DEF Types, MineInv

\* The commands.
LEMMA RequestScan ==
    ASSUME Types, RowType, ScanInv, Request
    PROVE  ScanInv'
<1>1. CASE StartTask \/ ResumeTask
  BY <1>1, NotDone, FarStep
     DEF StartTask, ResumeTask, DeletePC, NearPC, MakePC, PollPC
<1>2. CASE StopTask \/ DeleteTask
  BY <1>2, QuietStep DEF StopTask, DeleteTask, setup, polled, net, slave, HasReport
<1>3. CASE DeleteReport
  <2>1. /\ UNCHANGED << pc, setup, polled, after, net >>
        /\ pc # "free" => ~ HasReport'
        /\ DeleteSlaveTask(slave_task_uuid)
    BY <1>3 DEF DeleteReport, TakeRow, NoRow, HasReport
  <2>2. CASE pc = "free"
    BY <2>1, <2>2, NotDone, FarStep DEF DeletePC, NearPC, MakePC, PollPC
  <2>3. CASE pc # "free"
    <3>1. slave_task_uuid \in 0 .. next_slave - 1
      BY DEF Types, NameType
    <3> QED
      BY <2>1, <2>3, <3>1, DeleteSlaveTaskType, QuietStep DEF setup, polled, net
  <2> QED
    BY <2>2, <2>3
<1>4. ASSUME NEW i \in 1 .. MaxOlder, DeleteOlderReport(i)
      PROVE  ScanInv'
  <2>1. /\ UNCHANGED << pc, setup, polled, after, net, results, scan_run_status >>
        /\ DeleteSlaveTask(older[i].uuid) /\ i \in 1 .. Len(older)
    BY <1>4 DEF DeleteOlderReport
  <2>2. older[i] \in Row /\ older[i].uuid < next_slave
    BY <2>1 DEF RowType, RowsKnown
  <2>3. older[i].uuid \in 0 .. next_slave - 1
    BY <2>2 DEF Row, Types, NameType
  <2> QED
    BY <2>1, <2>3, DeleteSlaveTaskType, QuietStep DEF setup, polled, net, HasReport
<1> QED
  BY <1>1, <1>2, <1>3, <1>4 DEF Request

\* The slave and the failures.
LEMMA OtherScan ==
    ASSUME Types, ScanInv,
           ResultRefused \/ (\E n \in SlaveId : SlaveStep(n)) \/ Failure
    PROVE  ScanInv'
<1>1. ASSUME NEW n \in SlaveId, SlaveStep(n) \/ SlaveFault(n)
      PROVE  ScanInv'
  <2>1. /\ UNCHANGED << pc, after, mine, ids, results, scan_run_status, next_result,
                        seen, slave_objs, link >>
    BY <1>1 DEF SlaveStep, SlaveFault, SlaveGoes, SlaveResult, db, setup, polled
  <2>2. \/ slave_status' = slave_status /\ slave_status[n] = "Running"
           /\ slave_results' = [slave_results EXCEPT ![n] = slave_results[n] + 1]
        \/ /\ slave_results' = slave_results
           /\ \E old, new \in SlaveStatus :
                 /\ slave_status[n] = old
                 /\ slave_status' = [slave_status EXCEPT ![n] = new]
                 /\ old # "none" /\ (old = "Done" => new = "none")
    BY <1>1 DEF SlaveStep, SlaveFault, SlaveGoes, SlaveResult, SlaveStatus,
                SlaveActive
  <2>3. SlaveType
    BY DEF Types
  <2>4. \A m \in SlaveId :
            /\ slave_status[m] \in {"Done", "none"}
                  => /\ slave_status'[m] \in {"Done", "none"}
                     /\ slave_results'[m] = slave_results[m]
            /\ slave_status[m] = "none" => slave_status'[m] = "none"
    BY <2>2, <2>3 DEF SlaveType
  <2> QED
    BY <2>1, <2>4, QuietStep DEF HasReport
<1>2. CASE LoginFails \/ NoStatus
  BY <1>2, NotDone, FarStep
     DEF LoginFails, NoStatus, Goto, DeletePC, NearPC, MakePC, PollPC
<1>3. CASE BadReport
  BY <1>3, FarStep DEF BadReport, FailStopTask, NearPC, MakePC, PollPC
<1>4. CASE LoseLink
  BY <1>4, QuietStep DEF LoseLink, db, setup, polled, slave, HasReport
<1>5. CASE Signal
  BY <1>5, QuietStep DEF Signal, db, setup, polled, slave, HasReport
<1>6. CASE Crash \/ ResultRefused
  BY <1>6, FarStep DEF Crash, ResultRefused, Gone, NearPC, MakePC, PollPC
<1> QED
  BY <1>1, <1>2, <1>3, <1>4, <1>5, <1>6 DEF Failure

\* handle_slave_task until the scan is set up or resumed.
LEMMA BeginScan ==
    ASSUME Types, ScanInv,
           \/ Connect \/ ConnectFails \/ Setup
           \/ ResumeAsIs \/ ResumeOnSlave \/ ResumeFromStart \/ ResumeFails
    PROVE  ScanInv'
<1>1. pc \notin DeletePC \cup {"exit"}
  BY DEF Connect, ConnectFails, Setup, ResumeAsIs, ResumeOnSlave, ResumeFromStart,
         ResumeFails, DeletePC
<1>2. after' = after
  BY DEF Connect, ConnectFails, Setup, ResumeAsIs, ResumeOnSlave, ResumeFromStart,
         ResumeFails
<1>3. pc' \in {"setup", "exit", "target", "rget", "rids", "rsleep", "fsleep"}
  BY DEF Connect, ConnectFails, Setup, ResumeAsIs, ResumeOnSlave, ResumeFromStart,
         ResumeFails, Goto
<1> QED
  BY <1>1, <1>2, <1>3, NotDone, FarStep DEF NearPC, MakePC, PollPC

\* The handler comes to poll a task that it resumes: it has read the uuids.
LEMMA SetupIdsScan ==
    ASSUME Types, ScanInv, SetupIds
    PROVE  ScanInv'
<1>1. after' # "done"
  BY NotDone DEF SetupIds, DeletePC
<1>2. slave_objs'[mine'] \cap {"config", "target"} \subseteq ids'
  BY DEF SetupIds, slave
<1>3. \/ pc' = "isleep"
      \/ pc' = "poll" /\ next_result' = 1
  BY DEF SetupIds, StartPolling, Goto
<1>4. pc' \in PollPC \cup {"psleep"}
         => {mine'} \X (1 .. next_result' - 1) \subseteq results'
  BY <1>3 DEF PollPC
<1> QED
  BY <1>1, <1>2, <1>3, <1>4, NearStep

\* The setup from the beginning: what is made is known, or the handler cleans up.
LEMMA CreateScan ==
    ASSUME Types, ScanInv,
           CreateTarget \/ CreateConfig \/ CreateTask \/ StartOnSlave \/ RecordUuid
    PROVE  ScanInv'
<1>1. after # "done"
  BY NotDone DEF CreateTarget, CreateConfig, CreateTask, StartOnSlave, RecordUuid,
                 DeletePC
<1>2. CASE CreateTarget
  <2>1. next_slave \in SlaveId
    BY <1>2 DEF CreateTarget, Types, NameType
  <2>2. \/ pc' = "fcred" /\ after' # "done"
        \/ /\ pc' = "config" /\ after' = after
           /\ \E o \in SUBSET Obj : /\ slave_objs' = [slave_objs EXCEPT ![next_slave] = o]
                                    /\ mine' = next_slave /\ ids' = o
    BY <1>2 DEF CreateTarget, Goto, Obj
  <2>3. CASE pc' = "fcred" /\ after' # "done"
    BY <2>3, FarStep DEF NearPC, MakePC, PollPC
  <2>4. CASE /\ pc' = "config" /\ after' = after
             /\ \E o \in SUBSET Obj :
                   /\ slave_objs' = [slave_objs EXCEPT ![next_slave] = o]
                   /\ mine' = next_slave /\ ids' = o
    <3>1. slave_objs'[mine'] = ids'
      BY <2>1, <2>4 DEF Types, SlaveType
    <3> QED
      BY <1>1, <2>4, <3>1, NearStep DEF PollPC
  <2> QED
    BY <2>2, <2>3, <2>4
<1>3. CASE CreateConfig
  <2>1. pc = "config" /\ mine' = mine
    BY <1>3 DEF CreateConfig
  <2>2. slave_objs[mine] \cap {"config", "target"} \subseteq ids
    BY <2>1 DEF ScanInv, Known, MakePC
  <2>3. mine \in SlaveId
    BY <2>1, MineIsTask DEF Types, MineInv, MakePC
  <2>4. \/ pc' = "ftarget" /\ after' = "retry"
        \/ /\ pc' = "task" /\ after' = after
           /\ slave_objs' = [slave_objs EXCEPT ![mine] = @ \cup {"config"}]
           /\ ids' = ids \cup {"config"}
    BY <1>3 DEF CreateConfig, Goto
  <2>5. CASE pc' = "ftarget" /\ after' = "retry"
    BY <2>5, FarStep DEF NearPC, MakePC, PollPC
  <2>6. CASE /\ pc' = "task" /\ after' = after
             /\ slave_objs' = [slave_objs EXCEPT ![mine] = @ \cup {"config"}]
             /\ ids' = ids \cup {"config"}
    <3>1. slave_objs'[mine'] = slave_objs[mine] \cup {"config"}
      BY <2>1, <2>3, <2>6 DEF Types, SlaveType
    <3>2. slave_objs'[mine'] \cap {"config", "target"} \subseteq ids'
      BY <2>2, <2>6, <3>1
    <3> QED
      BY <1>1, <2>6, <3>2, NearStep DEF PollPC
  <2> QED
    BY <2>4, <2>5, <2>6
<1>4. CASE CreateTask \/ StartOnSlave \/ RecordUuid
  <2>1. pc \in MakePC /\ mine' = mine /\ slave_objs' = slave_objs
    BY <1>4 DEF CreateTask, StartOnSlave, RecordUuid, MakePC, setup, slave
  <2>2. slave_objs[mine] \cap {"config", "target"} \subseteq ids
    BY <2>1 DEF ScanInv, Known
  <2>3. ids \subseteq ids' /\ (after' = after \/ after' = "retry")
    BY <1>4 DEF CreateTask, StartOnSlave, RecordUuid, setup
  <2>4. \/ pc' \in {"start", "record", "fconfig", "fstop", "ftask"}
        \/ pc' = "poll" /\ next_result' = 1
    BY <1>4 DEF CreateTask, StartOnSlave, RecordUuid, Goto
  <2>5. slave_objs'[mine'] \cap {"config", "target"} \subseteq ids'
    BY <2>1, <2>2, <2>3
  <2>6. pc' \in PollPC \cup {"psleep"}
           => {mine'} \X (1 .. next_result' - 1) \subseteq results'
    BY <2>4 DEF PollPC
  <2> QED
    BY <1>1, <2>3, <2>4, <2>5, <2>6, NearStep
<1> QED
  BY <1>2, <1>3, <1>4

\* In the polling loop the report and the objects remain as they are, unless the
\* report is fetched.
LEMMA PollScan ==
    ASSUME Types, ScanInv,
           \/ Poll \/ PollAsserts \/ PollStop \/ PollWait \/ PollGiveup
           \/ PollFails \/ PollMissing \/ Get
    PROVE  ScanInv'
<1> USE DEF Poll, PollAsserts, PollStop, PollWait, PollGiveup, PollFails, PollMissing,
            Get
<1>1. pc \in PollPC
  BY DEF PollPC
<1>2. UNCHANGED << mine, ids, next_result, results, slave_objs >>
  BY DEF KeepReport, db, setup, polled, slave
<1>3. HasReport' => HasReport
  BY DEF HasReport, SetReport, SetStatus, KeepStatus, db
<1>4. after' # "done"
  BY <1>1, NotDone DEF PollPC, DeletePC, FailStopTask, Giveup, Goto
<1>5. pc' = "report" /\ seen' = "Done" => slave_status'[mine'] = "Done"
  BY DEF FailStopTask, Giveup, Goto, setup, slave
<1>6. HasReport => {mine} \X (1 .. next_result - 1) \subseteq results
  BY <1>1 DEF ScanInv, Fetched
<1>7. slave_objs[mine] \cap {"config", "target"} \subseteq ids
  BY <1>1 DEF ScanInv, Known
<1> QED
  BY <1>2, <1>3, <1>4, <1>5, <1>6, <1>7, NearStep

\* The new results are fetched.  If the slave task was Done before, these are all.
LEMMA GetReportScan ==
    ASSUME Types, ScanInv, GetReport
    PROVE  ScanInv'
<1>1. pc = "report" /\ mine' = mine /\ ids' = ids
  BY DEF GetReport
<1>2. UNCHANGED << slave_status, slave_objs, slave_results, link >>
  BY DEF GetReport, slave, net
<1>3. mine # NoSlave /\ after # "done"
  BY <1>1, NotDone DEF Types, MineInv, PollPC, DeletePC
<1>4. slave_results[mine] \in Nat
  BY <1>3, MineIsTask
<1>5. ASSUME HasReport'
      PROVE  {mine} \X (1 .. slave_results[mine]) \subseteq results'
  <2>0. HasReport
    BY <1>5 DEF GetReport, HasReport, SetReport, SetStatus, KeepStatus
  <2>1. next_result \in Nat
    BY DEF Types, CountType
  <2>2. {mine} \X (1 .. next_result - 1) \subseteq results
    BY <1>1, <2>0 DEF ScanInv, Fetched, PollPC
  <2>3. results' = results \cup {mine} \X (next_result .. slave_results[mine])
    BY <2>0 DEF GetReport
  <2>4. \A i \in 1 .. slave_results[mine] :
            i \in 1 .. next_result - 1 \/ i \in next_result .. slave_results[mine]
    BY <1>4, <2>1
  <2> QED
    BY <2>2, <2>3, <2>4
<1>6. slave_objs[mine] \cap {"config", "target"} \subseteq ids
  BY <1>1 DEF ScanInv, Known, PollPC
<1>7. CASE seen = "Done"
  <2>1. slave_status[mine] \in {"Done", "none"}
    BY <1>1, <1>7 DEF ScanInv, Fetched
  <2>2. pc' = "ftask" /\ after' = "done"
    BY <1>7 DEF GetReport, Goto
  <2>3. Fetched'
    BY <1>1, <1>2, <2>1, <2>2 DEF Fetched, PollPC
  <2>4. ResultsComplete'
    BY <1>1, <1>2, <1>5 DEF ResultsComplete
  <2>5. Known'
    BY <1>1, <1>2, <1>6 DEF Known
  <2>6. Cleaned'
    BY <2>2 DEF Cleaned
  <2> QED
    BY <2>3, <2>4, <2>5, <2>6 DEF ScanInv
<1>8. CASE seen # "Done"
  <2>1. pc' = "poll" /\ after' = after
    BY <1>8 DEF GetReport, Goto
  <2>2. next_result' - 1 = slave_results[mine]
    BY <1>4 DEF GetReport
  <2> QED
    BY <1>1, <1>2, <1>3, <1>5, <1>6, <2>1, <2>2, NearStep
<1> QED
  BY <1>7, <1>8

\* slave_sleep_connect.
LEMMA SleepScan ==
    ASSUME Types, ScanInv, Reconnect \/ SleepStopped
    PROVE  ScanInv'
<1>1. after' = after /\ after # "done"
  BY NotDone DEF Reconnect, SleepStopped, SleepPC, DeletePC
<1>2. UNCHANGED << mine, ids, results, slave_objs >>
  BY DEF Reconnect, SleepStopped, KeepReport, db, setup, slave
<1>3. CASE Reconnect /\ pc # "psleep"
  <2>1. pc' \in {"rget", "rids", "setup"}
    BY <1>3 DEF Reconnect, SleepPC, Connected, Goto
  <2> QED
    BY <1>1, <2>1, FarStep DEF NearPC, MakePC, PollPC
<1>4. CASE Reconnect /\ pc = "psleep"
  <2>1. pc' = "poll" /\ next_result' = next_result
    BY <1>4 DEF Reconnect, Connected, Goto, polled
  <2>2. /\ HasReport => {mine} \X (1 .. next_result - 1) \subseteq results
        /\ slave_objs[mine] \cap {"config", "target"} \subseteq ids
    BY <1>4 DEF ScanInv, Fetched, Known
  <2>3. HasReport' => HasReport
    BY <1>4 DEF Reconnect, db, HasReport
  <2> QED
    BY <1>1, <1>2, <2>1, <2>2, <2>3, NearStep
<1>5. CASE SleepStopped /\ pc = "isleep"
  <2>1. pc' = "poll" /\ next_result' = 1
    BY <1>5 DEF SleepStopped, StartPolling, Goto
  <2>2. slave_objs[mine] \cap {"config", "target"} \subseteq ids
    BY <1>5 DEF ScanInv, Known
  <2>3. {mine'} \X (1 .. next_result' - 1) \subseteq results'
    BY <2>1
  <2> QED
    BY <1>1, <1>2, <2>1, <2>2, <2>3, NearStep
<1>6. CASE SleepStopped /\ pc # "isleep"
  BY <1>1, <1>6, FarStep DEF SleepStopped, Goto, NearPC, MakePC, PollPC
<1> QED
  BY <1>3, <1>4, <1>5, <1>6

\* After a failure the clean up has nothing to keep.
LEMMA FailedClean ==
    ASSUME Types, after # "done",
           CleanStop \/ CleanTask \/ CleanConfig \/ CleanTarget \/ CleanCredentials
    PROVE  ScanInv'
<1>1. after' # "done"
  BY DEF CleanStop, CleanTask, CleanConfig, CleanTarget, CleanCredentials
<1>2. pc' \in {"ftask", "fconfig", "ftarget", "fcred", "fsleep", "exit"}
  BY DEF CleanStop, CleanTask, CleanConfig, CleanTarget, CleanCredentials, Goto,
         Fail, Giveup
<1> QED
  BY <1>1, <1>2, FarStep DEF NearPC, MakePC, PollPC

\* After a scan that is Done: the report remains, the task goes first, and then
\* what it used.
LEMMA DoneClean ==
    ASSUME Types, ScanInv, after = "done",
           CleanStop \/ CleanTask \/ CleanConfig \/ CleanTarget \/ CleanCredentials
    PROVE  ScanInv'
<1>1. mine # NoSlave /\ pc \in DeletePC \cup {"exit"}
  BY DEF Types, MineInv
<1>2. ~ CleanStop
  BY <1>1 DEF CleanStop, DeletePC
<1>3. mine \in SlaveId
  BY <1>1, MineIsTask
<1>4. UNCHANGED << after, mine, ids, results, scan_run_status, slave_results, link >>
  BY <1>2 DEF CleanTask, CleanConfig, CleanTarget, CleanCredentials, db, setup, net,
              Giveup
<1>5. pc' \in {"fconfig", "ftarget", "fcred", "exit"}
  BY <1>2 DEF CleanTask, CleanConfig, CleanTarget, CleanCredentials, Goto, Giveup
<1>6. ResultsComplete'
  BY <1>4 DEF ScanInv, ResultsComplete, HasReport
<1>7. slave_status[mine] \in {"Done", "none"}
  BY DEF ScanInv, Fetched
<1>8. slave_objs[mine] \cap {"config", "target"} \subseteq ids
  BY DEF ScanInv, Known
<1>9. slave_status'[mine] \in {"Done", "none"}
      /\ (slave_status[mine] = "none" => slave_status'[mine] = "none")
  <2>1. \/ slave_status' = slave_status
        \/ slave_status' = [slave_status EXCEPT
                               ![mine] = IF @ \in SlaveActive
                                         THEN "Delete Requested" ELSE "none"]
    BY <1>2 DEF CleanTask, CleanConfig, CleanTarget, CleanCredentials
  <2> QED
    BY <1>3, <1>7, <2>1 DEF Types, SlaveType, SlaveActive
<1>10. slave_objs'[mine] \subseteq slave_objs[mine]
  <2>1. \/ slave_objs' = slave_objs
        \/ \E o : slave_objs' = [slave_objs EXCEPT ![mine] = @ \ {o}]
    BY <1>2 DEF CleanTask, CleanConfig, CleanTarget, CleanCredentials, DeleteObj
  <2> QED
    BY <1>3, <2>1 DEF Types, SlaveType
<1>11. Fetched'
  BY <1>4, <1>5, <1>9 DEF Fetched, PollPC
<1>12. Known'
  BY <1>4, <1>8, <1>10 DEF Known
<1>13. ASSUME link
       PROVE  Cleaned'
  <2>1. Cleaned /\ SlaveType
    BY DEF ScanInv, Types
  <2>2. CASE CleanTask
    <3>1. slave_status'[mine] = "none"
      BY <1>3, <1>7, <1>13, <2>1, <2>2 DEF CleanTask, SlaveType, SlaveActive
    <3> QED
      BY <1>4, <2>2, <3>1 DEF CleanTask, Cleaned, Goto
  <2>3. CASE CleanConfig
    <3>1. slave_status[mine] = "none" /\ slave_status' = slave_status
      BY <1>13, <2>1, <2>3 DEF CleanConfig, Cleaned
    <3>2. "config" \notin slave_objs'[mine]
      BY <1>3, <1>8, <1>13, <2>1, <2>3, <3>1 DEF CleanConfig, DeleteObj, SlaveType
    <3> QED
      BY <1>4, <2>3, <3>1, <3>2 DEF CleanConfig, Cleaned, Goto
  <2>4. CASE CleanTarget
    <3>1. /\ slave_status[mine] = "none" /\ slave_status' = slave_status
          /\ "config" \notin slave_objs[mine]
      BY <1>13, <2>1, <2>4 DEF CleanTarget, Cleaned
    <3>2. "target" \notin slave_objs'[mine]
      BY <1>3, <1>8, <1>13, <2>1, <2>4, <3>1 DEF CleanTarget, DeleteObj, SlaveType
    <3> QED
      BY <1>4, <1>10, <2>4, <3>1, <3>2 DEF CleanTarget, Cleaned, Goto
  <2>5. CASE CleanCredentials
    <3>1. /\ slave_status[mine] = "none" /\ slave_status' = slave_status
          /\ "config" \notin slave_objs[mine] /\ "target" \notin slave_objs[mine]
      BY <1>13, <2>1, <2>5 DEF CleanCredentials, Cleaned
    <3>2. "credential" \notin slave_objs'[mine] \cap ids
      BY <1>3, <1>13, <2>1, <2>5, <3>1 DEF CleanCredentials, DeleteObj, SlaveType
    <3>3. pc' = "exit"
      BY <2>5 DEF CleanCredentials, Giveup
    <3> QED
      BY <1>4, <1>10, <3>1, <3>2, <3>3 DEF Cleaned
  <2> QED
    BY <1>2, <2>2, <2>3, <2>4, <2>5
<1>14. Cleaned'
  BY <1>4, <1>13 DEF Cleaned
<1> QED
  BY <1>6, <1>11, <1>12, <1>14 DEF ScanInv

-----------------------------------------------------------------------------
(***************************************************************************)
(* The theorems.                                                           *)
(***************************************************************************)

\* IInv is an invariant.
LEMMA Inductive ==
    /\ Init => IInv
    /\ IInv /\ [Next]_vars => IInv'
<1>0. IInv <=> Types /\ RowType /\ ScanInv
  BY TypeParts DEF IInv, ScanInv
<1>1. Init => IInv
  <2>1. Init => ScanInv
    BY DEF Init, ScanInv, Fetched, ResultsComplete, Known, Cleaned, MakePC, PollPC
  <2> QED
    BY <1>0, <2>1, InitType
<1>2. ASSUME IInv, [Next]_vars
      PROVE  IInv'
  <2>0. Types /\ RowType /\ ScanInv
    BY <1>0, <1>2
  <2>1. Types' /\ RowType'
    BY <1>2, <2>0, NextType
  <2>2. ScanInv'
    <3>1. CASE Request
      BY <2>0, <3>1, RequestScan
    <3>2. CASE Exit
      BY <2>0, <3>2, FarStep DEF Exit, Gone, NearPC, MakePC, PollPC
    <3>3. CASE HandlerStep
      BY <2>0, <3>2, <3>3, BeginScan, SetupIdsScan, CreateScan, PollScan,
         GetReportScan, SleepScan, FailedClean, DoneClean DEF HandlerStep
    <3>4. CASE ResultRefused \/ (\E n \in SlaveId : SlaveStep(n)) \/ Failure
      BY <2>0, <3>4, OtherScan
    <3>5. CASE UNCHANGED vars
      BY <2>0, <3>5, QuietStep DEF vars, db, setup, polled, net, slave, HasReport
    <3> QED
      BY <1>2, <3>1, <3>3, <3>4, <3>5 DEF Next
  <2> QED
    BY <2>1, <2>2, TypePartsNext DEF IInv, ScanInv
<1> QED
  BY <1>1, <1>2

\* Every reachable state satisfies IInv.
THEOREM Invariance == Spec => []IInv
BY Inductive, PTL DEF Spec

\* SlaveTask is type correct: the report, and a handler that polls or resumes,
\* name a task that was created on the slave.
THEOREM SlaveTypeCorrect == Spec => []TypeOK
<1>1. IInv => TypeOK
  BY DEF IInv, TypeInv
<1> QED
  BY <1>1, Invariance, PTL

\* The assertion of the polling loop holds as long as no report is deleted: whatever
\* other commands clients give, and whatever slave and connection do, the handler
\* never finds its task Stopped.
THEOREM AssertionHolds ==
    ASSUME "delete_report" \notin Ops
    PROVE  Spec => []PollNeverStopped
<1>1. Init => StoppedExits
  BY DEF Init, StoppedExits
<1>2. ASSUME IInv, StoppedExits, [Next]_vars
      PROVE  StoppedExits'
  <2>1. Types
    BY <1>2, TypeParts DEF IInv
  <2>2. CASE Request
    BY <1>2, <2>1, <2>2, RequestStopped
  <2>3. CASE HandlerStep
    BY <1>2, <2>1, <2>3, HandlerStopped
  <2>4. CASE ResultRefused \/ (\E n \in SlaveId : SlaveStep(n)) \/ Failure
    BY <1>2, <2>1, <2>4, OtherStopped
  <2>5. CASE UNCHANGED vars
    BY <1>2, <2>5 DEF vars, db, StoppedExits
  <2> QED
    BY <1>2, <2>2, <2>3, <2>4, <2>5 DEF Next
<1>3. StoppedExits => PollNeverStopped
  BY DEF StoppedExits, PollNeverStopped
<1> QED
  BY <1>1, <1>2, <1>3, Invariance, PTL DEF Spec

\* A scan that is Done has all results of the slave in its report, however many
\* results there were and however often the connection broke, unless the report
\* itself was deleted meanwhile.
THEOREM DoneIsComplete == Spec => []ResultsComplete
<1>1. IInv => ResultsComplete
  BY DEF IInv
<1> QED
  BY <1>1, Invariance, PTL

\* The clean up after a scan that is Done leaves nothing behind on the slave, if
\* the connection lasted.
THEOREM NothingLeft == Spec => []CleanedUp
<1>1. IInv => CleanedUp
  <2> SUFFICES ASSUME IInv, pc = "exit", after = "done", link
               PROVE  slave_status[mine] = "none" /\ slave_objs[mine] \cap ids = {}
    BY DEF CleanedUp
  <2>1. Types
    BY TypeParts DEF IInv
  <2>2. slave_objs[mine] \subseteq Obj
    BY <2>1, MineIsTask DEF Types, MineInv
  <2>3. /\ slave_status[mine] = "none"
        /\ "config" \notin slave_objs[mine] /\ "target" \notin slave_objs[mine]
        /\ "credential" \notin slave_objs[mine] \cap ids
    BY DEF IInv, Cleaned
  <2> QED
    BY <2>2, <2>3 DEF Obj
<1> QED
  BY <1>1, Invariance, PTL
=============================================================================
