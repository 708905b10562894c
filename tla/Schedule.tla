----------------------------- MODULE Schedule -------------------------------
(***************************************************************************)
(* The scheduler: manage_schedule, which the main loop of the daemon calls *)
(* every SCHEDULE_PERIOD, and the processes it forks to start and to stop  *)
(* the tasks that are due.                                                 *)
(*                                                                         *)
(* A round collects the due tasks in one transaction and moves their next  *)
(* time on, then forks a "starter" for each start and a "stopper" for each *)
(* stop.  A starter waits for a child that logs in to the daemon as the    *)
(* owner of the task and sends RESUME_TASK and START_TASK.  When that      *)
(* child is done the starter settles the schedule of the task (a once-off  *)
(* schedule is removed, a limited number of periods counted down) or, on   *)
(* failure, makes the task due again.  Everything but the round itself is  *)
(* a single statement that others can come between.                        *)
(*                                                                         *)
(* The clock runs in steps of SCHEDULE_PERIOD and stands still at MaxTime, *)
(* "later than anything of interest", where rounds go on.                  *)
(***************************************************************************)
EXTENDS TaskStatus, ScheduleTimes, FiniteSets

CONSTANTS
    Task,
    ScheduleId,       \* rows of the schedules table
    NoSchedule,       \* tasks.schedule = 0
    NoTask,
    Def,              \* what a client may define a schedule as
    Starter,          \* slots for forked starters
    SCHEDULE_PERIOD,
    Timeout,          \* schedule_timeout in seconds, negative for none
    MaxTime,
    Horizon,          \* recurrences of a rule that are looked at
    Latency,          \* a starter is done within this time
    MaxStopper,       \* stoppers of one task at a time
    Ops,              \* what clients do
    MaxOps,           \* how often
    Faults,           \* what may fail
    MaxFaults         \* how often

ASSUME SchedulePeriodAssumption == SCHEDULE_PERIOD \in 1 .. MaxTime
ASSUME ScheduleBoundAssumption ==
    /\ {MaxTime, Horizon, Latency, MaxStopper, MaxOps, MaxFaults} \subseteq Nat
    /\ Timeout \in Int
ASSUME ScheduleDefAssumption ==
    \A d \in Def : /\ DOMAIN d = {"first", "period", "duration",
                                  "exdates", "rdates"}
                   /\ d.first \in Nat \ {0}
                   /\ {d.period, d.duration} \subseteq Nat
                   /\ d.rdates \subseteq Nat
ASSUME ScheduleStarterAssumption == IsFiniteSet(Starter)
ASSUME ScheduleNoneAssumption == NoSchedule \notin ScheduleId /\ NoTask \notin Task
ASSUME ScheduleOpsAssumption ==
    Ops \subseteq {"start_task", "stop_task", "modify_task", "modify_schedule"}
ASSUME ScheduleFaultsAssumption ==
    Faults \subseteq {"fork", "fork_connection", "login", "stop_login",
                      "stop_fork", "crash"}

VARIABLES
    now,                 \* time (NULL)
    round_due,           \* SCHEDULE_PERIOD has passed since last_schedule_time
    main,                \* where the main process is in manage_schedule
    starts, stops,       \* its two lists
    def,                 \* the rows of the schedules table
    schedule,            \* tasks.schedule
    schedule_periods,    \* tasks.schedule_periods
    schedule_next_time,  \* tasks.schedule_next_time
    run_status,          \* tasks.run_status
    flags,               \* reports.flags of the current report: was scheduled
    starter,             \* the starters
    stopper,             \* the number of stoppers of each task
    ops, faults,         \* budgets left
    once, limit, clean,  \* history: what the client last asked for
    runs,                \* history: scheduled starts since then
    lost,                \* history: starts not settled when they should be
    crashed              \* history: the daemon has been restarted

db == << schedule, schedule_periods, schedule_next_time >>
asked == << once, limit, clean >>
history == << once, limit, clean, runs, lost, crashed >>
daemon == << main, starts, stops, round_due >>
vars == << now, daemon, def, db, run_status, flags, starter, stopper, ops,
           faults, history >>

(***************************************************************************)
(* What a starter does next:                                               *)
(*   forked   fork_connection                                              *)
(*   resume   its child has a connection: log in, RESUME_TASK              *)
(*   start    RESUME_TASK was refused: START_TASK                          *)
(*   ok       the child has exited with success: read the task             *)
(*   write    carry out what "write" says                                  *)
(*   failed   the child has exited with failure                            *)
(***************************************************************************)
StarterPC == { "free", "forked", "resume", "start", "ok", "write", "failed" }

NoWrite == [kind |-> "none", n |-> 0]
Write == [kind : {"none", "remove", "periods", "flag"}, n : Nat]
FreeStarter == [pc |-> "free", task |-> NoTask, born |-> 0, write |-> NoWrite]

\* A start of the task has been decided on and not been settled.
InFlight(t) == t \in starts \/ \E p \in Starter : starter[p].task = t

Rule(d) ==
    IF d.period = 0 THEN {d.first}
    ELSE {d.first + k * d.period : k \in 0 .. Horizon}

\* Mutant: the next time is the first time, whatever the time is now.
icalendar_next_time_from_string_First(d, periods_offset) == d.first

icalendar_next_time_from_string(d, periods_offset) ==
    icalendar_next_time_from_recurrence(Rule(d), d.exdates, d.rdates, now,
                                        periods_offset)

TaskDef(t) == def[schedule[t]]
HasSchedule(t) == schedule[t] # NoSchedule
schedule_period(t) == IF HasSchedule(t) THEN TaskDef(t).period ELSE 0
schedule_duration(t) == IF HasSchedule(t) THEN TaskDef(t).duration ELSE 0

\* The type invariant.
TypeOK ==
    /\ now \in 0 .. MaxTime
    /\ round_due \in BOOLEAN
    /\ main \in {"idle", "starts", "stops", "exited"}
    /\ starts \in SUBSET Task /\ stops \in SUBSET Task
    /\ def \in [ScheduleId -> Def]
    /\ schedule \in [Task -> ScheduleId \cup {NoSchedule}]
    /\ schedule_periods \in [Task -> Nat]
    /\ schedule_next_time \in [Task -> Nat]
    /\ run_status \in [Task -> task_status_t]
    /\ flags \in [Task -> BOOLEAN]
    /\ starter \in [Starter -> [pc : StarterPC, task : Task \cup {NoTask},
                                born : Nat, write : Write]]
    /\ \A p \in Starter : starter[p].pc = "free" <=> starter[p].task = NoTask
    /\ stopper \in [Task -> 0 .. MaxStopper]
    /\ ops \in 0 .. MaxOps /\ faults \in 0 .. MaxFaults
    /\ once \in [Task -> BOOLEAN] /\ clean \in [Task -> BOOLEAN]
    /\ limit \in [Task -> Nat]
    /\ runs \in [Task -> Nat] /\ lost \in [Task -> Nat]
    /\ crashed \in BOOLEAN

Init ==
    /\ now = SCHEDULE_PERIOD
    /\ round_due = TRUE
    /\ main = "idle"
    /\ starts = {} /\ stops = {}
    /\ def \in [ScheduleId -> Def]
    /\ schedule = [t \in Task |-> NoSchedule]
    /\ schedule_periods = [t \in Task |-> 0]
    /\ schedule_next_time = [t \in Task |-> NoTime]
    /\ run_status = [t \in Task |-> TASK_STATUS_NEW]
    /\ flags = [t \in Task |-> FALSE]
    /\ starter = [p \in Starter |-> FreeStarter]
    /\ stopper = [t \in Task |-> 0]
    /\ ops = MaxOps /\ faults = MaxFaults
    /\ once = [t \in Task |-> FALSE] /\ clean = [t \in Task |-> FALSE]
    /\ limit = [t \in Task |-> 0]
    /\ runs = [t \in Task |-> 0] /\ lost = [t \in Task |-> 0]
    /\ crashed = FALSE

Fault(f) == f \in Faults /\ faults > 0 /\ faults' = faults - 1

-----------------------------------------------------------------------------
(***************************************************************************)
(* Statements on the tasks table.                                          *)
(***************************************************************************)
SetNextTime(t, time) ==
    schedule_next_time' = [schedule_next_time EXCEPT ![t] = time]

set_task_schedule(t, s, periods) ==
    /\ schedule' = [schedule EXCEPT ![t] = s]
    /\ schedule_periods' = [schedule_periods EXCEPT ![t] = periods]
    /\ SetNextTime(t, IF s = NoSchedule THEN NoTime
                      ELSE next_time(def[s].first, def[s].period, now, 0))

\* Mutant: a failed start is not made due again.
reschedule_task_Nothing(t) == UNCHANGED db

\* The task becomes due again, whatever its schedule is by now.
reschedule_task(t) ==
    /\ SetNextTime(t, now - 1)
    /\ UNCHANGED << schedule, schedule_periods >>

\* The tasks that clear_duration_schedules and update_duration_schedule_periods
\* detach from their schedule, were every duration over.
Detachable(t) ==
    /\ HasSchedule(t)
    /\ schedule_duration(t) > 0
    /\ \/ schedule_period(t) = 0
       \/ /\ schedule_period(t) > 0
          /\ schedule_periods[t] = 1
          /\ schedule_next_time[t] = NoTime

\* For all tasks: only when the duration has passed.
DurationExpired(t) ==
    IF schedule_period(t) = 0
    THEN TaskDef(t).first + schedule_duration(t) < now
    ELSE next_time(TaskDef(t).first, TaskDef(t).period, now, -1)
         + schedule_duration(t) < now

Detach(T) ==
    /\ schedule' = [t \in Task |-> IF t \in T THEN NoSchedule ELSE schedule[t]]
    /\ schedule_next_time' =
           [t \in Task |-> IF t \in T THEN NoTime ELSE schedule_next_time[t]]
    /\ UNCHANGED schedule_periods

-----------------------------------------------------------------------------
(***************************************************************************)
(* The main process.                                                       *)
(***************************************************************************)
start_due(t) ==
    /\ schedule_next_time[t] # NoTime
    /\ run_status[t] \in InactiveStatus
    /\ schedule_next_time[t] <= now

timed_out(t) ==
    LET duration == schedule_duration(t)
        window == IF duration # 0 /\ duration < Timeout THEN duration ELSE Timeout
    IN  /\ Timeout >= 0
        /\ schedule_next_time[t] + window <= now

\* Mutant: stops the scans of clients and not the scheduled ones.
stop_due_FlagInverted(t) ==
    /\ schedule_duration(t) # 0
    /\ run_status[t] = TASK_STATUS_RUNNING => ~flags[t]
    /\ run_status[t] \in {TASK_STATUS_RUNNING, TASK_STATUS_REQUESTED}
    /\ icalendar_next_time_from_string(TaskDef(t), -1) + schedule_duration(t) < now

stop_due(t) ==
    /\ schedule_duration(t) # 0
    /\ run_status[t] = TASK_STATUS_RUNNING => flags[t]
    /\ run_status[t] \in {TASK_STATUS_RUNNING, TASK_STATUS_REQUESTED}
    /\ icalendar_next_time_from_string(TaskDef(t), -1) + schedule_duration(t) < now

\* The transaction of manage_schedule: collect, and set the next times.
CollectDue ==
    LET scheduled == {t \in Task : HasSchedule(t)}
        due == {t \in scheduled : start_due(t)}
    IN  /\ main = "idle" /\ round_due
        /\ starts' = {t \in due : ~timed_out(t)}
        /\ stops' = {t \in scheduled \ due : stop_due(t)}
        /\ schedule_next_time' =
               [t \in Task |-> IF t \in due
                               THEN icalendar_next_time_from_string(TaskDef(t), 0)
                               ELSE schedule_next_time[t]]
        /\ main' = "starts"
        /\ lost' = [t \in Task |->
                       IF t \in starts' /\ InFlight(t) THEN lost[t] + 1 ELSE lost[t]]
        /\ UNCHANGED << now, round_due, def, schedule, schedule_periods,
                        run_status, flags, starter, stopper, ops, faults,
                        asked, runs, crashed >>

\* manage_schedule forks a starter.
ForkStarter(t, p) ==
    /\ main = "starts" /\ t \in starts /\ starter[p].pc = "free"
    /\ starter' = [starter EXCEPT ![p] =
                       [FreeStarter EXCEPT !.pc = "forked", !.task = t,
                                           !.born = now]]
    /\ starts' = starts \ {t}
    /\ UNCHANGED << now, main, stops, round_due, def, db, run_status, flags,
                    stopper, ops, faults, history >>

ForkStarterFails(t) ==
    /\ main = "starts" /\ t \in starts
    /\ Fault("fork")
    /\ reschedule_task(t)
    /\ starts' = starts \ {t}
    /\ UNCHANGED << now, main, stops, round_due, def, run_status, flags, starter,
                    stopper, ops, history >>

StartsForked ==
    /\ main = "starts" /\ starts = {}
    /\ main' = "stops"
    /\ UNCHANGED << now, starts, stops, round_due, def, db, run_status, flags,
                    starter, stopper, ops, faults, history >>

ForkStopper(t) ==
    /\ main = "stops" /\ t \in stops /\ stopper[t] < MaxStopper
    /\ stopper' = [stopper EXCEPT ![t] = @ + 1]
    /\ stops' = stops \ {t}
    /\ UNCHANGED << now, main, starts, round_due, def, db, run_status, flags,
                    starter, ops, faults, history >>

\* manage_schedule returns -1, on which serve_and_schedule exits.
ForkStopperFails(t) ==
    /\ main = "stops" /\ t \in stops
    /\ Fault("stop_fork")
    /\ main' = "exited"
    /\ stops' = {}
    /\ UNCHANGED << now, starts, round_due, def, db, run_status, flags, starter,
                    stopper, ops, history >>

\* The end of manage_schedule: clear_duration_schedules (0) and
\* update_duration_schedule_periods (0).
EndRound ==
    /\ main = "stops" /\ stops = {}
    /\ Detach({t \in Task : /\ Detachable(t) /\ DurationExpired(t)
                            /\ run_status[t] \notin {TASK_STATUS_RUNNING,
                                                     TASK_STATUS_REQUESTED}})
    /\ main' = "idle" /\ round_due' = FALSE
    /\ UNCHANGED << now, starts, stops, def, run_status, flags, starter, stopper,
                    ops, faults, history >>

\* SCHEDULE_PERIOD passes.  A round is made, and over, within it, and no starter
\* takes longer than Latency.
Tick ==
    /\ main = "exited" \/ (main = "idle" /\ ~round_due)
    /\ \A p \in Starter : starter[p].pc # "free" => now < starter[p].born + Latency
    /\ now' = IF now + SCHEDULE_PERIOD <= MaxTime THEN now + SCHEDULE_PERIOD
                                                  ELSE now
    /\ round_due' = TRUE
    /\ main = "exited" => now < MaxTime
    /\ UNCHANGED << main, starts, stops, def, db, run_status, flags, starter,
                    stopper, ops, faults, history >>

-----------------------------------------------------------------------------
(***************************************************************************)
(* Starters and stoppers.                                                  *)
(***************************************************************************)
GotoStarter(p, l) == starter' = [starter EXCEPT ![p].pc = l]
\* Mutant: the slot keeps the task.
EndStarter_KeepsTask(p) == GotoStarter(p, "free")

EndStarter(p) == starter' = [starter EXCEPT ![p] = FreeStarter]

ForkConnection(p) ==
    /\ starter[p].pc = "forked"
    /\ GotoStarter(p, "resume")
    /\ UNCHANGED << now, daemon, def, db, run_status, flags, stopper, ops,
                    faults, history >>

ForkConnectionFails(p) ==
    /\ starter[p].pc = "forked"
    /\ Fault("fork_connection")
    /\ reschedule_task(starter[p].task)
    /\ EndStarter(p)
    /\ UNCHANGED << now, daemon, def, run_status, flags, stopper, ops, history >>

LoginFails(p) ==
    /\ starter[p].pc = "resume"
    /\ Fault("login")
    /\ GotoStarter(p, "failed")
    /\ UNCHANGED << now, daemon, def, db, run_status, flags, stopper, ops,
                    history >>

\* The daemon starts the task: the report is flagged as scheduled.
Started(p) ==
    LET t == starter[p].task
    IN  /\ run_status' = [run_status EXCEPT ![t] = TASK_STATUS_REQUESTED]
        /\ flags' = [flags EXCEPT ![t] = TRUE]
        /\ runs' = [runs EXCEPT ![t] = @ + 1]
        /\ GotoStarter(p, "ok")

ResumeTask(p) ==
    /\ starter[p].pc = "resume"
    /\ IF run_status[starter[p].task] \in ResumableStatus
       THEN Started(p)
       ELSE GotoStarter(p, "start") /\ UNCHANGED << run_status, flags, runs >>
    /\ UNCHANGED << now, daemon, def, db, stopper, ops, faults, asked, lost, crashed >>

StartTask(p) ==
    /\ starter[p].pc = "start"
    /\ IF run_status[starter[p].task] \in InactiveStatus
       THEN Started(p)
       ELSE GotoStarter(p, "failed") /\ UNCHANGED << run_status, flags, runs >>
    /\ UNCHANGED << now, daemon, def, db, stopper, ops, faults, asked, lost, crashed >>

StarterFailed(p) ==
    /\ starter[p].pc = "failed"
    /\ reschedule_task(starter[p].task)
    /\ EndStarter(p)
    /\ UNCHANGED << now, daemon, def, run_status, flags, stopper, ops, faults,
                    history >>

\* Mutant: the last period is not taken away.
Settlement_NoLast(t) ==
    IF schedule_periods[t] > 1
    THEN [kind |-> "periods", n |-> schedule_periods[t] - 1]
    ELSE NoWrite

\* What the starter finds when its child succeeded.
Settlement(t) ==
    IF /\ HasSchedule(t)
       /\ schedule_period(t) = 0 /\ schedule_duration(t) = 0
       /\ schedule_next_time[t] = NoTime
    THEN [kind |-> "remove", n |-> 0]
    ELSE CASE schedule_periods[t] > 1 ->
                  [kind |-> "periods", n |-> schedule_periods[t] - 1]
           [] schedule_periods[t] = 1 /\ schedule_duration(t) = 0 ->
                  [kind |-> "remove", n |-> 1]
           [] schedule_periods[t] = 1 -> [kind |-> "flag", n |-> 0]
           [] OTHER -> NoWrite

ReadSchedule(p) ==
    /\ starter[p].pc = "ok"
    /\ starter' = [starter EXCEPT ![p].pc = "write",
                                  ![p].write = Settlement(starter[p].task)]
    /\ UNCHANGED << now, daemon, def, db, run_status, flags, stopper, ops,
                    faults, history >>

WriteSchedule(p) ==
    LET t == starter[p].task
        w == starter[p].write
    IN  /\ starter[p].pc = "write"
        /\ CASE w.kind = "remove" -> set_task_schedule(t, NoSchedule, w.n)
             [] w.kind = "periods" ->
                    /\ schedule_periods' = [schedule_periods EXCEPT ![t] = w.n]
                    /\ UNCHANGED << schedule, schedule_next_time >>
             [] w.kind = "flag" ->
                    /\ SetNextTime(t, NoTime)
                    /\ UNCHANGED << schedule, schedule_periods >>
             [] OTHER -> UNCHANGED db
        /\ EndStarter(p)
        /\ UNCHANGED << now, daemon, def, run_status, flags, stopper, ops,
                        faults, history >>

\* A stopper sends STOP_TASK, whatever the task does by now.
StopperStops(t) ==
    /\ stopper[t] > 0
    /\ stopper' = [stopper EXCEPT ![t] = @ - 1]
    /\ run_status' =
           [run_status EXCEPT ![t] =
                IF @ \in {TASK_STATUS_REQUESTED, TASK_STATUS_RUNNING}
                THEN TASK_STATUS_STOP_REQUESTED ELSE @]
    /\ UNCHANGED << now, daemon, def, db, flags, starter, ops, faults, history >>

StopperFails(t) ==
    /\ stopper[t] > 0
    /\ Fault("stop_login")
    /\ stopper' = [stopper EXCEPT ![t] = @ - 1]
    /\ UNCHANGED << now, daemon, def, db, run_status, flags, starter, ops,
                    history >>

-----------------------------------------------------------------------------
(***************************************************************************)
(* The scans (OtpTask has their detail), the clients and the daemon.       *)
(***************************************************************************)
ScanBegins(t) ==
    /\ run_status[t] = TASK_STATUS_REQUESTED
    /\ run_status' = [run_status EXCEPT ![t] = TASK_STATUS_RUNNING]
    /\ UNCHANGED << now, daemon, def, db, flags, starter, stopper, ops, faults,
                    history >>

\* The scanner is finished: the handler sets the status, then calls
\* clear_duration_schedules and update_duration_schedule_periods on the task.
ScanEnds(t) ==
    /\ run_status[t] \in {TASK_STATUS_RUNNING, TASK_STATUS_STOP_REQUESTED}
    /\ run_status' =
           [run_status EXCEPT ![t] = IF @ = TASK_STATUS_RUNNING
                                     THEN TASK_STATUS_DONE
                                     ELSE TASK_STATUS_STOPPED]
    /\ Detach({t} \cap {u \in Task : Detachable(u)})
    /\ UNCHANGED << now, daemon, def, flags, starter, stopper, ops, faults,
                    history >>

Client(op) == op \in Ops /\ ops > 0 /\ ops' = ops - 1

\* START_TASK or RESUME_TASK of a client: set_report_scheduled clears the flag.
ClientStarts(t) ==
    /\ Client("start_task")
    /\ run_status[t] \in InactiveStatus
    /\ run_status' = [run_status EXCEPT ![t] = TASK_STATUS_REQUESTED]
    /\ flags' = [flags EXCEPT ![t] = FALSE]
    /\ UNCHANGED << now, daemon, def, db, starter, stopper, faults, history >>

ClientStops(t) ==
    /\ Client("stop_task")
    /\ run_status[t] \in {TASK_STATUS_REQUESTED, TASK_STATUS_RUNNING}
    /\ run_status' = [run_status EXCEPT ![t] = TASK_STATUS_STOP_REQUESTED]
    /\ UNCHANGED << now, daemon, def, db, flags, starter, stopper, faults,
                    history >>

\* History: the client has asked for a schedule of the tasks T.
Asked(T, isOnce, periods) ==
    /\ once' = [t \in Task |-> IF t \in T THEN isOnce ELSE once[t]]
    /\ limit' = [t \in Task |-> IF t \in T THEN periods[t] ELSE limit[t]]
    /\ clean' = [t \in Task |-> IF t \in T THEN ~InFlight(t) ELSE clean[t]]
    /\ runs' = [t \in Task |-> IF t \in T THEN 0 ELSE runs[t]]
    /\ lost' = [t \in Task |-> IF t \in T THEN 0 ELSE lost[t]]

\* MODIFY_TASK with a schedule.
ModifyTask(t, s, periods) ==
    /\ Client("modify_task")
    /\ set_task_schedule(t, s, periods)
    /\ Asked({t}, s # NoSchedule /\ def[s].period = 0,
             [u \in Task |-> periods])
    /\ UNCHANGED << now, daemon, def, run_status, flags, starter, stopper,
                    faults, crashed >>

\* MODIFY_SCHEDULE: also sets the next time of every task that uses it.
ModifySchedule(s, d) ==
    LET users == {t \in Task : schedule[t] = s}
    IN  /\ Client("modify_schedule")
        /\ def[s] # d
        /\ def' = [def EXCEPT ![s] = d]
        /\ schedule_next_time' =
               [t \in Task |-> IF t \in users
                               THEN icalendar_next_time_from_string(d, 0)
                               ELSE schedule_next_time[t]]
        /\ Asked(users, d.period = 0, schedule_periods)
        /\ UNCHANGED << now, daemon, schedule, schedule_periods, run_status,
                        flags, starter, stopper, faults, crashed >>

\* Every process dies.  The daemon is started again: stop_active_tasks.
Crash ==
    /\ Fault("crash")
    /\ main' = "idle" /\ starts' = {} /\ stops' = {} /\ round_due' = TRUE
    /\ starter' = [p \in Starter |-> FreeStarter]
    /\ stopper' = [t \in Task |-> 0]
    /\ run_status' = [t \in Task |-> IF run_status[t] \in ActiveStatus
                                     THEN TASK_STATUS_INTERRUPTED
                                     ELSE run_status[t]]
    /\ lost' = [t \in Task |->
                   lost[t] + Cardinality({p \in Starter :
                                             /\ starter[p].task = t
                                             /\ starter[p].pc \in {"ok", "write"}})]
    /\ crashed' = TRUE
    /\ UNCHANGED << now, def, db, flags, ops, asked, runs >>

-----------------------------------------------------------------------------
StarterStep(p) ==
    \/ ForkConnection(p)
    \/ ResumeTask(p)
    \/ StartTask(p)
    \/ StarterFailed(p)
    \/ ReadSchedule(p)
    \/ WriteSchedule(p)

MainStep ==
    \/ CollectDue
    \/ \E t \in Task, p \in Starter : ForkStarter(t, p)
    \/ StartsForked
    \/ \E t \in Task : ForkStopper(t)
    \/ EndRound

Next ==
    \/ MainStep
    \/ \E t \in Task : ForkStarterFails(t)
    \/ \E t \in Task : ForkStopperFails(t)
    \/ Tick
    \/ \E p \in Starter : StarterStep(p)
    \/ \E p \in Starter : ForkConnectionFails(p)
    \/ \E p \in Starter : LoginFails(p)
    \/ \E t \in Task : StopperStops(t)
    \/ \E t \in Task : StopperFails(t)
    \/ \E t \in Task : ScanBegins(t)
    \/ \E t \in Task : ScanEnds(t)
    \/ \E t \in Task : ClientStarts(t)
    \/ \E t \in Task : ClientStops(t)
    \/ \E t \in Task, s \in ScheduleId \cup {NoSchedule}, n \in 0 .. 2 :
           ModifyTask(t, s, n)
    \/ \E s \in ScheduleId, d \in Def : ModifySchedule(s, d)
    \/ Crash

Spec == Init /\ [][Next]_vars

\* A scan the scheduler is to stop.
Windowed(t) ==
    /\ run_status[t] = TASK_STATUS_RUNNING
    /\ flags[t]
    /\ schedule_duration(t) > 0
    /\ schedule_period(t) > 0 => schedule_duration(t) < schedule_period(t)

(***************************************************************************)
(* The processes of gvmd make progress, and time passes.  A scan begins,   *)
(* and ends when it has been asked to stop; it ends by itself, except that *)
(* nothing is assumed of one that the scheduler is to stop.                *)
(***************************************************************************)
Fairness ==
    /\ WF_vars(MainStep)
    /\ WF_vars(Tick)
    /\ \A p \in Starter : WF_vars(StarterStep(p))
    /\ \A t \in Task : /\ WF_vars(StopperStops(t))
                       /\ WF_vars(ScanBegins(t))
                       /\ WF_vars(~Windowed(t) /\ ScanEnds(t))

FairSpec == Spec /\ Fairness

-----------------------------------------------------------------------------
(***************************************************************************)
(* A once-off schedule starts its task once, although a start that fails   *)
(* is retried, the daemon may crash in between and clients start and stop  *)
(* the task themselves.  (For a schedule that was set or modified while no *)
(* start of the task was in flight: a failing start makes the task due     *)
(* again even when its schedule has changed meanwhile.)                    *)
(***************************************************************************)
OnceOffOnce ==
    \A t \in Task : clean[t] /\ once[t] => runs[t] <= 1

(***************************************************************************)
(* A limited schedule starts its task no more often than it has periods,   *)
(* but for the starts that were never settled because of a crash, and the  *)
(* rounds that found the task due while a start of it was still in flight: *)
(* the count lives in the database, and the round that decides on a start  *)
(* and the starter that counts it are different processes.                 *)
(***************************************************************************)
PeriodsRespected ==
    \A t \in Task : clean[t] /\ limit[t] > 0 => runs[t] <= limit[t] + lost[t]

(***************************************************************************)
(* A start that is due is made in the end, although the fork, the internal *)
(* connection or the login fails, or a scan is in the way, once clients    *)
(* leave the task alone; unless the task loses its schedule or the         *)
(* schedule timeout passes first.  (A restart of the daemon loses it: the  *)
(* next time has moved on already.  The main process exits when it cannot  *)
(* fork a stopper.  And a starter settles whatever schedule it finds: one  *)
(* that was set while it was in flight may lose its start.)                *)
(***************************************************************************)
Owed(t) == HasSchedule(t) /\ schedule_next_time[t] \in 1 .. now

DueStarted ==
    \A t \in Task :
        Owed(t) /\ clean[t] /\ ops = 0 ~>
                   \/ run_status[t] = TASK_STATUS_REQUESTED /\ flags[t]
                   \/ ~HasSchedule(t)
                   \/ Owed(t) /\ timed_out(t)
                   \/ crashed \/ main = "exited"

(***************************************************************************)
(* A scheduled scan does not outlive the duration of its schedule, even if *)
(* it would never end: stops are not retried as such (the comment in       *)
(* scheduled_task_stop regrets it), but each round finds the stop due.     *)
(***************************************************************************)
WindowCloses ==
    \A t \in Task : Windowed(t) ~> ~Windowed(t) \/ main = "exited"
=============================================================================
