--------------------------- MODULE MoveTaskProofs ---------------------------
(***************************************************************************)
(* Theorems about MoveTask, for every set of scanners, sessions and        *)
(* handlers, every number of commands and every set of faults.             *)
(***************************************************************************)
EXTENDS MoveTask, FiniteSetTheorems, TLAPS

USE MoveScannerAssumption, MoveBoundAssumption DEF Scanner

USE DEF TASK_STATUS_DELETE_REQUESTED, TASK_STATUS_DONE, TASK_STATUS_NEW,
        TASK_STATUS_REQUESTED, TASK_STATUS_RUNNING, TASK_STATUS_STOP_REQUESTED,
        TASK_STATUS_STOP_WAITING, TASK_STATUS_STOPPED, TASK_STATUS_INTERRUPTED,
        TASK_STATUS_DELETE_ULTIMATE_REQUESTED, TASK_STATUS_STOP_REQUESTED_GIVEUP,
        TASK_STATUS_DELETE_WAITING, TASK_STATUS_DELETE_ULTIMATE_WAITING

\* A session with a scanner in "slave" also while it modifies the task.
ModInv == \A s \in Session : pc[s] = "modset" => slave[s] # NoScanner

\* A session that goes on to request the task has read its scanner.
FoundInv == \A s \in Session : pc[s] = "request" => found[s] # NoScanner

\* The sessions that have set the task to Requested and not forked yet.
Forking == {s \in Session : pc[s] = "fork"}

\* The task has one holder at most: a session before its fork, or a handler.
OneHolder ==
    /\ \A s, o \in Forking : s = o
    /\ \A h, k \in Scans : h = k
    /\ Forking = {} \/ Scans = {}

\* While it has one, its status is one that set_task_requested refuses.
HeldActive == Forking # {} \/ Scans # {} => run_status \in ActiveStatus

TypeInv == TypeOK /\ ModInv /\ FoundInv
IInv == TypeInv /\ OneHolder /\ HeldActive

-----------------------------------------------------------------------------
(***************************************************************************)
(* Types.                                                                  *)
(***************************************************************************)

\* A session that returns keeps the types.
LEMMA ReturnType ==
    ASSUME TypeInv, NEW s \in Session, Return(s), run_status' \in task_status_t,
           scanner' \in Scanner, scan' \in [Handler -> Scanner \cup {NoScanner}],
           ops' = ops
    PROVE  TypeInv'
<1>1. TypeOK'
  BY DEF TypeInv, TypeOK, Return, Goto, PC, MovePC, task_status_t, InactiveStatus
<1>2. ModInv' /\ FoundInv'
  BY DEF TypeInv, TypeOK, ModInv, FoundInv, Return, Goto
<1> QED
  BY <1>1, <1>2 DEF TypeInv

\* A session that goes on, and has what it needs there, keeps the types.
LEMMA GotoType ==
    ASSUME TypeInv, NEW s \in Session, NEW l \in PC, Goto(s, l),
           run_status' \in task_status_t, scanner' \in Scanner, scan' = scan,
           slave' \in [Session -> Scanner \cup {NoScanner}],
           found' \in [Session -> Scanner \cup {NoScanner}],
           read' \in [Session -> task_status_t],
           resume' \in [Session -> BOOLEAN],
           ops' \in 0 .. MaxOps,
           \A o \in Session \ {s} : slave'[o] = slave[o] /\ found'[o] = found[o],
           l \in MovePC \cup {"modset"} => slave'[s] # NoScanner,
           l \in {"fork", "request"} => found'[s] # NoScanner
    PROVE  TypeInv'
<1>1. TypeOK'
  BY DEF TypeInv, TypeOK, Goto
<1>2. ModInv' /\ FoundInv'
  BY DEF TypeInv, TypeOK, ModInv, FoundInv, Goto
<1> QED
  BY <1>1, <1>2 DEF TypeInv

\* What stop_task_internal writes is a status; and it is an active one, if it
\* is not the one that is there.
LEMMA StopWritesType ==
    ASSUME TypeInv, NEW s \in Session
    PROVE  /\ StopWrites(s) \in task_status_t
           /\ StopWrites(s) = run_status \/ StopWrites(s) \in ActiveStatus
BY DEF TypeInv, TypeOK, StopWrites, task_status_t, ActiveStatus

LEMMA CommandType ==
    ASSUME TypeInv, NEW s \in Session, NEW op, Command(s, op)
    PROVE  ops' \in 0 .. MaxOps
BY DEF TypeInv, TypeOK, Command

-----------------------------------------------------------------------------
(***************************************************************************)
(* The holder.                                                             *)
(***************************************************************************)

\* Nobody becomes a holder, and the status remains or becomes active.
LEMMA TameStep ==
    ASSUME OneHolder, HeldActive, Forking' \subseteq Forking, scan' = scan,
           run_status' = run_status \/ run_status' \in ActiveStatus
    PROVE  OneHolder' /\ HeldActive'
<1>1. Scans' = Scans
  BY DEF Scans
<1> QED
  BY <1>1 DEF OneHolder, HeldActive

\* A session that goes anywhere but before the fork does not become a holder.
LEMMA GotoForking ==
    ASSUME TypeInv, NEW s \in Session, NEW l, l # "fork", Goto(s, l)
    PROVE  Forking' \subseteq Forking \ {s}
BY DEF TypeInv, TypeOK, Forking, Goto

\* A new command.
LEMMA CommandStep ==
    ASSUME IInv, NEW s \in Session,
           \/ StartTask(s) \/ BeginResume(s) \/ StopTask(s)
           \/ \E new \in Scanner : BeginMove(s, new) \/ ModifyTask(s, new)
    PROVE  IInv'
<1> USE DEF IInv
<1>1. CASE StartTask(s)
  <2>1. TypeInv'
    BY <1>1, CommandType, GotoType DEF StartTask, TypeInv, TypeOK, PC, MovePC
  <2> QED
    BY <1>1, <2>1, GotoForking, TameStep DEF StartTask
<1>2. CASE BeginResume(s)
  <2>1. TypeInv'
    BY <1>2, CommandType, GotoType DEF BeginResume, TypeInv, TypeOK, PC, MovePC
  <2> QED
    BY <1>2, <2>1, GotoForking, TameStep DEF BeginResume
<1>3. CASE StopTask(s)
  <2>1. TypeInv'
    BY <1>3, CommandType, GotoType DEF StopTask, TypeInv, TypeOK, PC, MovePC
  <2> QED
    BY <1>3, <2>1, GotoForking, TameStep DEF StopTask
<1>4. ASSUME NEW new \in Scanner, BeginMove(s, new)
      PROVE  IInv'
  <2>1. TypeInv'
    BY <1>4, CommandType, GotoType DEF BeginMove, TypeInv, TypeOK, PC, MovePC
  <2> QED
    BY <1>4, <2>1, GotoForking, TameStep DEF BeginMove
<1>5. ASSUME NEW new \in Scanner, ModifyTask(s, new)
      PROVE  IInv'
  <2>1. TypeInv'
    BY <1>5, CommandType, GotoType DEF ModifyTask, TypeInv, TypeOK, PC, MovePC
  <2> QED
    BY <1>5, <2>1, GotoForking, TameStep DEF ModifyTask
<1> QED
  BY <1>1, <1>2, <1>3, <1>4, <1>5

\* START_TASK and RESUME_TASK go on.
LEMMA RunStep ==
    ASSUME IInv, NEW s \in Session,
           \/ ResumeTask(s) \/ RunTask(s) \/ ScannerDown(s)
           \/ set_task_requested(s) \/ ForkFails(s)
           \/ \E h \in Handler : Fork(s, h)
    PROVE  IInv'
<1> USE DEF IInv
<1>1. CASE ResumeTask(s)
  <2>1. CASE run_status \in ResumableStatus
    <3>1. TypeInv'
      BY <1>1, <2>1, GotoType DEF ResumeTask, TypeInv, TypeOK, PC, MovePC
    <3> QED
      BY <1>1, <2>1, <3>1, GotoForking, TameStep DEF ResumeTask
  <2>2. CASE Return(s)
    <3>1. TypeInv'
      BY <1>1, <2>2, ReturnType DEF ResumeTask, TypeInv, TypeOK
    <3> QED
      BY <1>1, <2>2, <3>1, GotoForking, TameStep DEF ResumeTask, Return
  <2> QED
    BY <1>1, <2>1, <2>2 DEF ResumeTask
<1>2. CASE RunTask(s)
  <2>1. TypeInv'
    BY <1>2, GotoType DEF RunTask, TypeInv, TypeOK, PC, MovePC
  <2> QED
    BY <1>2, <2>1, GotoForking, TameStep DEF RunTask
<1>3. CASE ScannerDown(s)
  <2>1. TypeInv'
    BY <1>3, ReturnType DEF ScannerDown, TypeInv, TypeOK
  <2> QED
    BY <1>3, <2>1, GotoForking, TameStep DEF ScannerDown, Return
<1>4. CASE set_task_requested(s)
  <2>1. CASE run_status \in ActiveStatus
    <3>1. TypeInv'
      BY <1>4, <2>1, ReturnType DEF set_task_requested, TypeInv, TypeOK
    <3> QED
      BY <1>4, <2>1, <3>1, GotoForking, TameStep DEF set_task_requested, Return
  <2>2. CASE run_status \notin ActiveStatus
    \* Nobody held the task: s is the only holder now.
    <3>1. Forking = {} /\ Scans = {}
      BY <2>2 DEF HeldActive
    <3>2. found[s] # NoScanner
      BY <1>4 DEF set_task_requested, TypeInv, FoundInv
    <3>3. run_status' \in task_status_t /\ run_status' \in ActiveStatus
      BY <1>4, <2>2 DEF set_task_requested, task_status_t, ActiveStatus
    <3>4. TypeInv'
      BY <1>4, <2>2, <3>2, <3>3, GotoType
         DEF set_task_requested, TypeInv, TypeOK, PC, MovePC
    <3>5. Forking' = {s} /\ Scans' = {}
      BY <1>4, <2>2, <3>1 DEF set_task_requested, Forking, Scans, Goto, TypeInv, TypeOK
    <3> QED
      BY <3>3, <3>4, <3>5 DEF OneHolder, HeldActive
  <2> QED
    BY <2>1, <2>2
<1>5. CASE ForkFails(s)
  \* The holder gives up: nobody holds the task now.
  <2>1. Forking = {s} /\ Scans = {}
    BY <1>5 DEF ForkFails, Forking, OneHolder
  <2>2. TypeInv'
    BY <1>5, ReturnType
       DEF ForkFails, TypeInv, TypeOK, task_status_t, InactiveStatus, ResumableStatus
  <2>3. Forking' = {} /\ Scans' = {}
    BY <1>5, <2>1, GotoForking DEF ForkFails, Return, Scans
  <2> QED
    BY <2>2, <2>3 DEF OneHolder, HeldActive
<1>6. ASSUME NEW h \in Handler, Fork(s, h)
      PROVE  IInv'
  \* The handler is the holder in its place.
  <2>1. Forking = {s} /\ Scans = {}
    BY <1>6 DEF Fork, Forking, OneHolder
  <2>2. found[s] \in Scanner
    BY <1>6 DEF Fork, TypeInv, TypeOK
  <2>3. TypeInv'
    BY <1>6, <2>2, ReturnType DEF Fork, TypeInv, TypeOK
  <2>4. Forking' = {}
    BY <1>6, <2>1, GotoForking DEF Fork, Return
  <2>5. Scans' = {h}
    BY <1>6, <2>1, <2>2 DEF Fork, Scans, TypeInv, TypeOK
  <2>6. run_status' \in ActiveStatus
    BY <1>6, <2>1 DEF Fork, HeldActive
  <2> QED
    BY <2>3, <2>4, <2>5, <2>6 DEF OneHolder, HeldActive
<1> QED
  BY <1>1, <1>2, <1>3, <1>4, <1>5, <1>6

\* STOP_TASK, MOVE_TASK and MODIFY_TASK go on.
LEMMA MoveStep ==
    ASSUME IInv, NEW s \in Session,
           \/ StopTaskWrite(s) \/ MoveStatus(s) \/ MoveStop(s)
           \/ MoveStopWrite(s) \/ MoveWait(s) \/ MoveSetScanner(s)
           \/ ModifySetScanner(s)
    PROVE  IInv'
<1> USE DEF IInv
<1>1. CASE StopTaskWrite(s)
  <2>1. TypeInv'
    BY <1>1, ReturnType, StopWritesType DEF StopTaskWrite, TypeInv, TypeOK
  <2> QED
    BY <1>1, <2>1, GotoForking, TameStep, StopWritesType DEF StopTaskWrite, Return
<1>2. CASE MoveStatus(s)
  <2>1. CASE Return(s)
    <3>1. TypeInv'
      BY <1>2, <2>1, ReturnType DEF MoveStatus, TypeInv, TypeOK
    <3> QED
      BY <1>2, <2>1, <3>1, GotoForking, TameStep DEF MoveStatus, Return
  <2>2. ASSUME NEW l \in {"mstop", "mwait", "mset"}, Goto(s, l),
               UNCHANGED << slave, found, read, resume >>
        PROVE  IInv'
    <3>1. slave[s] # NoScanner
      BY <1>2 DEF MoveStatus, TypeInv, TypeOK, MovePC
    <3>2. TypeInv'
      BY <1>2, <2>2, <3>1, GotoType DEF MoveStatus, TypeInv, TypeOK, PC, MovePC
    <3> QED
      BY <1>2, <2>2, <3>2, GotoForking, TameStep DEF MoveStatus
  <2> QED
    BY <1>2, <2>1, <2>2 DEF MoveStatus
<1>3. CASE MoveStop(s)
  <2>1. slave[s] # NoScanner
    BY <1>3 DEF MoveStop, TypeInv, TypeOK, MovePC
  <2>2. TypeInv'
    BY <1>3, <2>1, GotoType DEF MoveStop, TypeInv, TypeOK, PC, MovePC
  <2> QED
    BY <1>3, <2>2, GotoForking, TameStep DEF MoveStop
<1>4. CASE MoveStopWrite(s)
  <2>1. slave[s] # NoScanner
    BY <1>4 DEF MoveStopWrite, TypeInv, TypeOK, MovePC
  <2>2. TypeInv'
    BY <1>4, <2>1, GotoType, StopWritesType
       DEF MoveStopWrite, TypeInv, TypeOK, PC, MovePC
  <2> QED
    BY <1>4, <2>2, GotoForking, TameStep, StopWritesType DEF MoveStopWrite
<1>5. CASE MoveWait(s)
  <2>1. slave[s] # NoScanner
    BY <1>5 DEF MoveWait, TypeInv, TypeOK, MovePC
  <2>2. TypeInv'
    BY <1>5, <2>1, GotoType DEF MoveWait, TypeInv, TypeOK, PC, MovePC
  <2> QED
    BY <1>5, <2>2, GotoForking, TameStep DEF MoveWait
<1>6. CASE MoveSetScanner(s)
  <2>1. slave[s] \in Scanner
    BY <1>6 DEF MoveSetScanner, TypeInv, TypeOK, MovePC
  <2>2. CASE resume[s]
    <3>1. TypeInv'
      BY <1>6, <2>1, <2>2, GotoType DEF MoveSetScanner, TypeInv, TypeOK, PC, MovePC
    <3> QED
      BY <1>6, <2>2, <3>1, GotoForking, TameStep DEF MoveSetScanner
  <2>3. CASE ~ resume[s]
    <3>1. TypeInv'
      BY <1>6, <2>1, <2>3, ReturnType DEF MoveSetScanner, TypeInv, TypeOK
    <3> QED
      BY <1>6, <2>3, <3>1, GotoForking, TameStep DEF MoveSetScanner, Return
  <2> QED
    BY <2>2, <2>3
<1>7. CASE ModifySetScanner(s)
  <2>1. slave[s] \in Scanner
    BY <1>7 DEF ModifySetScanner, TypeInv, TypeOK, ModInv
  <2>2. TypeInv'
    BY <1>7, <2>1, ReturnType DEF ModifySetScanner, TypeInv, TypeOK
  <2> QED
    BY <1>7, <2>2, GotoForking, TameStep DEF ModifySetScanner, Return
<1> QED
  BY <1>1, <1>2, <1>3, <1>4, <1>5, <1>6, <1>7

\* A handler writes an inactive status only when it leaves the task, and then
\* it was the only holder.
LEMMA HandlerInv ==
    ASSUME IInv, NEW h \in Handler, HandlerStep(h)
    PROVE  IInv'
<1> USE DEF IInv
<1>1. ASSUME scan[h] # NoScanner, UNCHANGED << session, scan >>,
             run_status' \in ActiveStatus
      PROVE  IInv'
  <2>1. TypeInv'
    BY <1>1 DEF TypeInv, TypeOK, ModInv, FoundInv, session, task_status_t
  <2>2. Forking' = Forking
    BY <1>1 DEF Forking, session
  <2> QED
    BY <1>1, <2>1, <2>2, TameStep
<1>2. ASSUME scan[h] # NoScanner, NEW status \in task_status_t, Leave(h, status)
      PROVE  IInv'
  <2>1. Scans = {h} /\ Forking = {}
    BY <1>2 DEF Scans, OneHolder
  <2>2. TypeInv'
    BY <1>2 DEF Leave, TypeInv, TypeOK, ModInv, FoundInv, session
  <2>3. Scans' = {} /\ Forking' = {}
    BY <1>2, <2>1 DEF Leave, Scans, Forking, session, TypeInv, TypeOK
  <2> QED
    BY <2>2, <2>3 DEF OneHolder, HeldActive
<1>3. CASE ScanStarts(h)
  BY <1>1, <1>3 DEF ScanStarts, ActiveStatus
<1>4. CASE StopSent(h)
  BY <1>1, <1>4 DEF StopSent, ActiveStatus
<1>5. CASE OtpAborts(h)
  BY <1>2, <1>5 DEF OtpAborts, task_status_t, InactiveStatus, ResumableStatus
<1>6. CASE SlaveStops(h)
  BY <1>2, <1>6 DEF SlaveStops, task_status_t, InactiveStatus, ResumableStatus
<1>7. CASE OtpEnds(h)
  BY <1>2, <1>7 DEF OtpEnds, task_status_t, InactiveStatus, ResumableStatus
<1>8. CASE SlaveEnds(h)
  BY <1>2, <1>8 DEF SlaveEnds, task_status_t, InactiveStatus, ResumableStatus
<1> QED
  BY <1>3, <1>4, <1>5, <1>6, <1>7, <1>8 DEF HandlerStep

-----------------------------------------------------------------------------
LEMMA InitInv == Init => IInv
<1> SUFFICES ASSUME Init PROVE IInv
  OBVIOUS
<1>1. TypeOK
  BY DEF Init, TypeOK, PC, MovePC, task_status_t, InactiveStatus
<1>2. ModInv /\ FoundInv
  BY DEF Init, ModInv, FoundInv
<1>3. Forking = {} /\ Scans = {}
  BY DEF Init, Forking, Scans
<1> QED
  BY <1>1, <1>2, <1>3 DEF IInv, TypeInv, OneHolder, HeldActive

LEMMA NextInv == IInv /\ [Next]_vars => IInv'
<1> SUFFICES ASSUME IInv, [Next]_vars PROVE IInv'
  OBVIOUS
<1>1. CASE UNCHANGED vars
  <2>1. TypeInv'
    BY <1>1 DEF IInv, TypeInv, TypeOK, ModInv, FoundInv, vars
  <2>2. Forking' = Forking
    BY <1>1 DEF Forking, vars
  <2> QED
    BY <1>1, <2>1, <2>2, TameStep DEF IInv, vars
<1> QED
  BY <1>1, CommandStep, RunStep, MoveStep, HandlerInv DEF Next, SessionStep

LEMMA Invariance == Spec => []IInv
BY InitInv, NextInv, PTL DEF Spec

\* The types of the variables; a session about to fork has read a scanner, and
\* one that moves the task has been given one.
THEOREM MoveTypeCorrect == Spec => []TypeOK
<1>1. IInv => TypeOK
  BY DEF IInv, TypeInv
<1> QED
  BY <1>1, Invariance, PTL

\* However MOVE_TASK, MODIFY_TASK, START_TASK, RESUME_TASK and STOP_TASK
\* interleave, and although each acts on a status and a scanner that it has
\* read before, the task is never scanned by two handlers.
THEOREM OneScanner == Spec => []SingleScanner
<1>1. IInv => SingleScanner
  <2> SUFFICES ASSUME IInv PROVE Cardinality(Scans) <= 1
    BY DEF SingleScanner
  <2>1. CASE Scans = {}
    BY <2>1, FS_EmptySet
  <2>2. CASE Scans # {}
    <3>1. PICK h \in Scans : Scans = {h}
      BY <2>2 DEF IInv, OneHolder
    <3> QED
      BY <3>1, FS_Singleton
  <2> QED
    BY <2>1, <2>2
<1> QED
  BY <1>1, Invariance, PTL

=============================================================================
