----------------------------- MODULE TaskStatus -----------------------------
(***************************************************************************)
(* The run status of a task, shared by the "run_status" column of the      *)
(* tasks table and the "scan_run_status" column of the reports table.      *)
(***************************************************************************)

TASK_STATUS_DELETE_REQUESTED == "DELETE_REQUESTED"
TASK_STATUS_DONE == "DONE"
TASK_STATUS_NEW == "NEW"
TASK_STATUS_REQUESTED == "REQUESTED"
TASK_STATUS_RUNNING == "RUNNING"
TASK_STATUS_STOP_REQUESTED == "STOP_REQUESTED"
TASK_STATUS_STOP_WAITING == "STOP_WAITING"
TASK_STATUS_STOPPED == "STOPPED"
TASK_STATUS_INTERRUPTED == "INTERRUPTED"
TASK_STATUS_DELETE_ULTIMATE_REQUESTED == "DELETE_ULTIMATE_REQUESTED"
TASK_STATUS_STOP_REQUESTED_GIVEUP == "STOP_REQUESTED_GIVEUP"
TASK_STATUS_DELETE_WAITING == "DELETE_WAITING"
TASK_STATUS_DELETE_ULTIMATE_WAITING == "DELETE_ULTIMATE_WAITING"

(***************************************************************************)
(* A scan of the task is under way, or a process has asked for it to stop. *)
(***************************************************************************)
ActiveStatus ==
    { TASK_STATUS_REQUESTED,
      TASK_STATUS_RUNNING,
      TASK_STATUS_STOP_REQUESTED,
      TASK_STATUS_STOP_REQUESTED_GIVEUP,
      TASK_STATUS_STOP_WAITING,
      TASK_STATUS_DELETE_REQUESTED,
      TASK_STATUS_DELETE_ULTIMATE_REQUESTED,
      TASK_STATUS_DELETE_WAITING,
      TASK_STATUS_DELETE_ULTIMATE_WAITING }

(***************************************************************************)
(* No scan is under way.  RESUME_TASK accepts the last two.                *)
(***************************************************************************)
ResumableStatus == { TASK_STATUS_STOPPED, TASK_STATUS_INTERRUPTED }

InactiveStatus == { TASK_STATUS_NEW, TASK_STATUS_DONE } \cup ResumableStatus

task_status_t == ActiveStatus \cup InactiveStatus

(***************************************************************************)
(* delete_report_internal refuses to delete a report whose scan is in one  *)
(* of these states.  The query has five placeholders and is passed seven   *)
(* statuses, so the last two arguments are never looked at.                *)
(***************************************************************************)
ReportInUseStatus ==
    { TASK_STATUS_RUNNING,
      TASK_STATUS_REQUESTED,
      TASK_STATUS_DELETE_REQUESTED,
      TASK_STATUS_DELETE_ULTIMATE_REQUESTED,
      TASK_STATUS_STOP_REQUESTED }
=============================================================================
