------------------------------ MODULE MoveTask ------------------------------
(***************************************************************************)
(* One task, its scanner and the commands that change it: MOVE_TASK, which *)
(* stops a running task, waits, changes its scanner and resumes it, and    *)
(* MODIFY_TASK.  Meanwhile other sessions start, resume and stop the task. *)
(*                                                                         *)
(* The scanner is either an OTP scanner ("openvas") or another gvmd        *)
(* ("gmp").  A scan is handled by a process of its own, which keeps to the *)
(* scanner it was started on; OtpTask and SlaveTask have the detail.       *)
(***************************************************************************)
EXTENDS TaskStatus, Naturals, FiniteSets

CONSTANTS
    Otp, Gmp,    \* scanners of the two types
    Session,     \* sessions that serve clients
    Handler,     \* slots for processes that handle a scan
    NoScanner,
    Alterable,   \* tasks.alterable: may be modified when it is not new
    Ops,         \* commands the clients use
    MaxOps,      \* how many of them
    Faults       \* what may fail

ASSUME MoveScannerAssumption ==
    Otp \cap Gmp = {} /\ NoScanner \notin Otp \cup Gmp /\ Otp # {}
ASSUME MoveBoundAssumption == MaxOps \in Nat /\ Alterable \in BOOLEAN
ASSUME MoveOpsAssumption ==
    Ops \subseteq {"start_task", "resume_task", "stop_task", "move_task",
                   "modify_task"}
ASSUME MoveFaultsAssumption == Faults \subseteq {"scanner", "fork"}

Scanner == Otp \cup Gmp

VARIABLES
    run_status,   \* tasks.run_status
    scanner,      \* tasks.scanner
    pc,           \* where each session is
    slave,        \* the scanner its client asked for
    found,        \* the scanner that its run_task has read
    read,         \* the status that its stop_task_internal has read
    resume,       \* should_resume_task in its move_task
    scan,         \* the scanner that each handler scans with
    ops           \* commands left

vars == << run_status, scanner, pc, slave, found, read, resume,
           scan, ops >>

(***************************************************************************)
(* Program counters of a session:                                          *)
(*   idle                                                                  *)
(*   mstatus   move_task, before it reads the status                       *)
(*   mstop     move_task, in stop_task_internal before it reads the status *)
(*   mwrite    move_task, in stop_task_internal before it writes it        *)
(*   mwait     move_task, waiting for the task to stop                     *)
(*   mset      move_task, before set_task_scanner                          *)
(*   resume    resume_task                                                 *)
(*   run       run_task, before it reads the scanner                       *)
(*   request   before set_task_requested                                   *)
(*   fork      before fork                                                 *)
(*   write     stop_task, in stop_task_internal before it writes           *)
(*   modset    modify_task, before set_task_scanner                        *)
(***************************************************************************)
MovePC == { "mstatus", "mstop", "mwrite", "mwait", "mset" }
PC == { "idle", "resume", "run", "request", "fork", "write", "modset" }
      \cup MovePC

Scans == {h \in Handler : scan[h] # NoScanner}

\* The type invariant.
TypeOK ==
    /\ run_status \in task_status_t
    /\ scanner \in Scanner
    /\ pc \in [Session -> PC]
    /\ slave \in [Session -> Scanner \cup {NoScanner}]
    /\ found \in [Session -> Scanner \cup {NoScanner}]
    /\ read \in [Session -> task_status_t]
    /\ resume \in [Session -> BOOLEAN]
    /\ scan \in [Handler -> Scanner \cup {NoScanner}]
    /\ ops \in 0 .. MaxOps
    /\ \A s \in Session : /\ pc[s] = "fork" => found[s] # NoScanner
                          /\ pc[s] \in MovePC => slave[s] # NoScanner

Init ==
    /\ run_status = TASK_STATUS_NEW
    /\ scanner \in Scanner
    /\ pc = [s \in Session |-> "idle"]
    /\ slave = [s \in Session |-> NoScanner]
    /\ found = [s \in Session |-> NoScanner]
    /\ read = [s \in Session |-> TASK_STATUS_NEW]
    /\ resume = [s \in Session |-> FALSE]
    /\ scan = [h \in Handler |-> NoScanner]
    /\ ops = MaxOps

-----------------------------------------------------------------------------
Goto(s, l) == pc' = [pc EXCEPT ![s] = l]

\* The command is answered: the session forgets what it was about.
Return(s) ==
    /\ Goto(s, "idle")
    /\ slave' = [slave EXCEPT ![s] = NoScanner]
    /\ found' = [found EXCEPT ![s] = NoScanner]
    /\ read' = [read EXCEPT ![s] = TASK_STATUS_NEW]
    /\ resume' = [resume EXCEPT ![s] = FALSE]

Command(s, op) ==
    /\ op \in Ops /\ pc[s] = "idle" /\ ops > 0
    /\ ops' = ops - 1

StopStatus == { TASK_STATUS_STOP_REQUESTED, TASK_STATUS_STOP_REQUESTED_GIVEUP,
                TASK_STATUS_STOP_WAITING }

-----------------------------------------------------------------------------
(***************************************************************************)
(* START_TASK and RESUME_TASK.                                             *)
(***************************************************************************)
StartTask(s) ==
    /\ Command(s, "start_task")
    /\ Goto(s, "run")
    /\ UNCHANGED << run_status, scanner, slave, found, read, resume,
                    scan >>

BeginResume(s) ==
    /\ Command(s, "resume_task")
    /\ Goto(s, "resume")
    /\ UNCHANGED << run_status, scanner, slave, found, read, resume,
                    scan >>

ResumeTask(s) ==
    /\ pc[s] = "resume"
    /\ IF run_status \in ResumableStatus
       THEN /\ Goto(s, "run")
            /\ UNCHANGED << slave, found, read, resume >>
       ELSE Return(s)
    /\ UNCHANGED << run_status, scanner, scan, ops >>

\* Mutant: run_task goes on before it has the scanner.
RunTask_NoScanner(s) ==
    /\ pc[s] = "run"
    /\ Goto(s, "request")
    /\ UNCHANGED << run_status, scanner, slave, found, read, resume, scan, ops >>

\* run_task reads the scanner and branches on its type.
RunTask(s) ==
    /\ pc[s] = "run"
    /\ found' = [found EXCEPT ![s] = scanner]
    /\ Goto(s, "request")
    /\ UNCHANGED << run_status, scanner, slave, read, resume, scan,
                    ops >>

\* run_otp_task: the scanner is down or loading.
ScannerDown(s) ==
    /\ "scanner" \in Faults
    /\ pc[s] = "request" /\ found[s] \in Otp
    /\ Return(s)
    /\ UNCHANGED << run_status, scanner, scan, ops >>

\* Mutant: a task that is stopping may be requested.
set_task_requested_Stopping(s) ==
    /\ pc[s] = "request"
    /\ IF run_status \in ActiveStatus \ {TASK_STATUS_STOP_WAITING}
       THEN Return(s) /\ UNCHANGED run_status
       ELSE /\ run_status' = TASK_STATUS_REQUESTED
            /\ Goto(s, "fork")
            /\ UNCHANGED << slave, found, read, resume >>
    /\ UNCHANGED << scanner, scan, ops >>

set_task_requested(s) ==
    /\ pc[s] = "request"
    /\ IF run_status \in ActiveStatus
       THEN Return(s) /\ UNCHANGED run_status
       ELSE /\ run_status' = TASK_STATUS_REQUESTED
            /\ Goto(s, "fork")
            /\ UNCHANGED << slave, found, read, resume >>
    /\ UNCHANGED << scanner, scan, ops >>

Fork(s, h) ==
    /\ pc[s] = "fork" /\ scan[h] = NoScanner
    /\ scan' = [scan EXCEPT ![h] = found[s]]
    /\ Return(s)
    /\ UNCHANGED << run_status, scanner, ops >>

ForkFails(s) ==
    /\ "fork" \in Faults
    /\ pc[s] = "fork"
    /\ run_status' = TASK_STATUS_INTERRUPTED
    /\ Return(s)
    /\ UNCHANGED << scanner, scan, ops >>

-----------------------------------------------------------------------------
(***************************************************************************)
(* stop_task_internal reads the status, and the type of the scanner that   *)
(* the task has by then, before it writes.                                 *)
(***************************************************************************)
StopWrites(s) ==
    CASE read[s] \in {TASK_STATUS_REQUESTED, TASK_STATUS_RUNNING} ->
             TASK_STATUS_STOP_REQUESTED
      [] /\ read[s] \in ActiveStatus
         /\ read[s] # TASK_STATUS_STOP_REQUESTED_GIVEUP
         /\ scanner \in Gmp ->
             TASK_STATUS_STOP_REQUESTED_GIVEUP
      [] OTHER -> run_status

StopTask(s) ==
    /\ Command(s, "stop_task")
    /\ read' = [read EXCEPT ![s] = run_status]
    /\ Goto(s, "write")
    /\ UNCHANGED << run_status, scanner, slave, found, resume, scan >>

StopTaskWrite(s) ==
    /\ pc[s] = "write"
    /\ run_status' = StopWrites(s)
    /\ Return(s)
    /\ UNCHANGED << scanner, scan, ops >>

-----------------------------------------------------------------------------
(***************************************************************************)
(* MOVE_TASK.                                                              *)
(***************************************************************************)
BeginMove(s, new) ==
    /\ Command(s, "move_task")
    /\ slave' = [slave EXCEPT ![s] = new]
    /\ Goto(s, "mstatus")
    /\ UNCHANGED << run_status, scanner, found, read, resume, scan >>

MoveStatus(s) ==
    /\ pc[s] = "mstatus"
    /\ CASE run_status \in ActiveStatus \ (StopStatus \cup {TASK_STATUS_RUNNING}) ->
                Return(s)
         [] run_status = TASK_STATUS_RUNNING ->
                /\ Goto(s, "mstop")
                /\ UNCHANGED << slave, found, read, resume >>
         [] run_status \in StopStatus ->
                /\ Goto(s, "mwait")
                            /\ UNCHANGED << slave, found, read, resume >>
         [] OTHER ->
                /\ Goto(s, "mset")
                /\ UNCHANGED << slave, found, read, resume >>
    /\ UNCHANGED << run_status, scanner, scan, ops >>

MoveStop(s) ==
    /\ pc[s] = "mstop"
    /\ read' = [read EXCEPT ![s] = run_status]
    /\ Goto(s, "mwrite")
    /\ UNCHANGED << run_status, scanner, slave, found, resume, scan,
                    ops >>

MoveStopWrite(s) ==
    /\ pc[s] = "mwrite"
    /\ run_status' = StopWrites(s)
    /\ resume' = [resume EXCEPT ![s] = TRUE]
    /\ Goto(s, "mwait")
    /\ UNCHANGED << scanner, slave, found, read, scan, ops >>

\* Mutant: the loop does not know of STOP_WAITING.
MoveWait_NotWaiting(s) ==
    /\ pc[s] = "mwait"
    /\ run_status \notin StopStatus \ {TASK_STATUS_STOP_WAITING}
    /\ Goto(s, "mset")
    /\ UNCHANGED << run_status, scanner, slave, found, read, resume, scan, ops >>

\* The loop that sleeps ends when the status is another one.
MoveWait(s) ==
    /\ pc[s] = "mwait"
    /\ run_status \notin StopStatus
    /\ Goto(s, "mset")
    /\ UNCHANGED << run_status, scanner, slave, found, read, resume,
                    scan, ops >>

MoveSetScanner(s) ==
    /\ pc[s] = "mset"
    /\ scanner' = slave[s]
    /\ IF resume[s]
       THEN Goto(s, "resume") /\ UNCHANGED << slave, found, read, resume >>
       ELSE Return(s)
    /\ UNCHANGED << run_status, scan, ops >>

\* MODIFY_TASK with a scanner.
ModifyTask(s, new) ==
    /\ Command(s, "modify_task")
    /\ run_status = TASK_STATUS_NEW \/ Alterable
    /\ slave' = [slave EXCEPT ![s] = new]
    /\ Goto(s, "modset")
    /\ UNCHANGED << run_status, scanner, found, read, resume, scan >>

ModifySetScanner(s) ==
    /\ pc[s] = "modset"
    /\ scanner' = slave[s]
    /\ Return(s)
    /\ UNCHANGED << run_status, scan, ops >>

-----------------------------------------------------------------------------
(***************************************************************************)
(* The handlers.                                                           *)
(***************************************************************************)
session == << scanner, pc, slave, found, read, resume, ops >>

Leave(h, status) ==
    /\ run_status' = status
    /\ scan' = [scan EXCEPT ![h] = NoScanner]
    /\ UNCHANGED session

\* The scanner has begun.
ScanStarts(h) ==
    /\ scan[h] # NoScanner
    /\ run_status = TASK_STATUS_REQUESTED
    /\ run_status' = TASK_STATUS_RUNNING
    /\ UNCHANGED << session, scan >>

\* The handler has passed the stop on: manage_check_current_task for an OTP
\* scanner; for a slave, when the slave says "Stop Requested".
StopSent(h) ==
    /\ scan[h] # NoScanner
    /\ run_status = TASK_STATUS_STOP_REQUESTED
    /\ run_status' = TASK_STATUS_STOP_WAITING
    /\ UNCHANGED << session, scan >>

\* manage_check_current_task at its assert (0): SIGABRT, manage_cleanup_process_error.
OtpAborts(h) ==
    /\ scan[h] \in Otp
    /\ run_status = TASK_STATUS_STOP_REQUESTED_GIVEUP
    /\ Leave(h, TASK_STATUS_INTERRUPTED)

\* The handler of a slave has stopped the task on the slave, or given it up.
SlaveStops(h) ==
    /\ scan[h] \in Gmp
    /\ run_status \in StopStatus
    /\ Leave(h, TASK_STATUS_STOPPED)

\* The OTP scanner has sent SCAN_END.
OtpEnds(h) ==
    /\ scan[h] \in Otp
    /\ run_status # TASK_STATUS_REQUESTED
    /\ Leave(h, CASE run_status = TASK_STATUS_INTERRUPTED -> run_status
                  [] run_status \in {TASK_STATUS_STOP_REQUESTED,
                                     TASK_STATUS_STOP_WAITING} ->
                         TASK_STATUS_STOPPED
                  [] OTHER -> TASK_STATUS_DONE)

\* The slave has finished the task, whatever was asked of it meanwhile.
SlaveEnds(h) ==
    /\ scan[h] \in Gmp
    /\ run_status # TASK_STATUS_REQUESTED
    /\ Leave(h, TASK_STATUS_DONE)

-----------------------------------------------------------------------------
SessionStep(s) ==
    \/ ResumeTask(s)
    \/ RunTask(s)
    \/ set_task_requested(s)
    \/ \E h \in Handler : Fork(s, h)
    \/ StopTaskWrite(s)
    \/ MoveStatus(s)
    \/ MoveStop(s)
    \/ MoveStopWrite(s)
    \/ MoveWait(s)
    \/ MoveSetScanner(s)
    \/ ModifySetScanner(s)

HandlerStep(h) ==
    \/ ScanStarts(h)
    \/ StopSent(h)
    \/ OtpAborts(h)
    \/ SlaveStops(h)
    \/ OtpEnds(h)
    \/ SlaveEnds(h)

Next ==
    \/ \E s \in Session : SessionStep(s)
    \/ \E s \in Session : StartTask(s)
    \/ \E s \in Session : BeginResume(s)
    \/ \E s \in Session : StopTask(s)
    \/ \E s \in Session, new \in Scanner : BeginMove(s, new)
    \/ \E s \in Session, new \in Scanner : ModifyTask(s, new)
    \/ \E s \in Session : ScannerDown(s)
    \/ \E s \in Session : ForkFails(s)
    \/ \E h \in Handler : HandlerStep(h)

Spec == Init /\ [][Next]_vars

\* A session goes on with its command, and a scan begins, answers and ends.
FairSpec ==
    /\ Spec
    /\ \A s \in Session : WF_vars(SessionStep(s))
    /\ \A h \in Handler : WF_vars(HandlerStep(h))
                            /\ WF_vars(OtpEnds(h))

-----------------------------------------------------------------------------
(***************************************************************************)
(* A task is never scanned by two scanners, however moves, modifications   *)
(* and starts interleave: the scanner a session has read may be stale when *)
(* it forks, but set_task_requested lets one session through at a time.    *)
(***************************************************************************)
SingleScanner == Cardinality(Scans) <= 1

(***************************************************************************)
(* What a move has stopped goes on: when move_task waits for a scan it has *)
(* stopped, it comes to run the task again, unless somebody else did, the  *)
(* scan was through, or it was interrupted.  (It waits forever for a task  *)
(* whose status a stop overwrote after the scan had ended: other stops     *)
(* that have read a status and not yet written are left out.)              *)
(***************************************************************************)
MoveResumes ==
    \A s \in Session :
        (/\ pc[s] = "mwait" /\ resume[s] /\ Scans # {} /\ ops = 0
         /\ \A o \in Session \ {s} : pc[o] \notin {"write", "mwrite", "mstop",
                                                   "mstatus"})
            ~> \/ pc[s] = "run"
               \/ run_status \in {TASK_STATUS_REQUESTED, TASK_STATUS_DONE,
                                  TASK_STATUS_INTERRUPTED}

(***************************************************************************)
(* manage_check_current_task asserts that only the handler of a slave      *)
(* finds the task in STOP_REQUESTED_GIVEUP: "This should only happen for   *)
(* slave tasks."                                                           *)
(***************************************************************************)
GiveupOnlyForSlaves ==
    run_status = TASK_STATUS_STOP_REQUESTED_GIVEUP =>
        \A h \in Scans : scan[h] \in Gmp
=============================================================================
