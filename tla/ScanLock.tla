------------------------------ MODULE ScanLock ------------------------------
(***************************************************************************)
(* What the run status of tasks promises to the processes of gvmd, with no *)
(* word about statuses, statements or the database: a lock per task, that  *)
(* is held by the process that scans it.  START_TASK and RESUME_TASK take  *)
(* the lock of a free task, the fork of a handler passes it on, the end of *)
(* the scan, a fail exit or the death of the holder gives it back.         *)
(***************************************************************************)
CONSTANTS
    Task,   \* the tasks
    Proc    \* the processes

VARIABLE owner  \* the processes that have a scan of each task

Init == owner = [t \in Task |-> {}]

Acquire(t, p) ==
    /\ owner[t] = {}
    /\ owner' = [owner EXCEPT ![t] = {p}]

HandOver(t, p, q) ==
    /\ owner[t] = {p}
    /\ owner' = [owner EXCEPT ![t] = {q}]

Release(t, p) ==
    /\ owner[t] = {p}
    /\ owner' = [owner EXCEPT ![t] = {}]

\* The daemon dies.
ReleaseAll == owner' = [t \in Task |-> {}]

Next ==
    \/ \E t \in Task, p \in Proc :
          \/ Acquire(t, p)
          \/ Release(t, p)
          \/ \E q \in Proc : HandOver(t, p, q)
    \/ ReleaseAll

Spec == Init /\ [][Next]_owner
=============================================================================
