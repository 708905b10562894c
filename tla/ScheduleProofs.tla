--------------------------- MODULE ScheduleProofs ---------------------------
(***************************************************************************)
(* Theorems about Schedule, for every set of tasks, schedules and starters *)
(* and every bound.                                                        *)
(***************************************************************************)
EXTENDS Schedule, FiniteSetTheorems, WellFoundedInduction, TLAPS

USE SchedulePeriodAssumption, ScheduleBoundAssumption, ScheduleNoneAssumption
    DEF NoTime

USE DEF TASK_STATUS_DELETE_REQUESTED, TASK_STATUS_DONE, TASK_STATUS_NEW,
        TASK_STATUS_REQUESTED, TASK_STATUS_RUNNING, TASK_STATUS_STOP_REQUESTED,
        TASK_STATUS_STOP_WAITING, TASK_STATUS_STOPPED, TASK_STATUS_INTERRUPTED,
        TASK_STATUS_DELETE_ULTIMATE_REQUESTED, TASK_STATUS_STOP_REQUESTED_GIVEUP,
        TASK_STATUS_DELETE_WAITING, TASK_STATUS_DELETE_ULTIMATE_WAITING

\* The list of starts is worked off before the main process goes on.
MainInv == main # "starts" => starts = {}

\* The starters that have not started their task, and how many starts of the
\* task that have been decided on have not been made.
WaitPC == {"forked", "resume", "start", "failed"}
Waiting(t) == {p \in Starter : starter[p].task = t /\ starter[p].pc \in WaitPC}
Unmade(t) == Cardinality(Waiting(t)) + (IF t \in starts THEN 1 ELSE 0)

\* A round may find the task due.
Alive(t) == HasSchedule(t) /\ schedule_next_time[t] # NoTime

Limited(t) == clean[t] /\ limit[t] > 0
Writer(p, t) == starter[p].task = t /\ starter[p].pc = "write"

\* The periods left are ones that the task may still be started in.  While starts
\* are in flight, one of them has not been counted; and what a starter is about
\* to write is no more than there may be left.
Account(t) ==
    /\ HasSchedule(t) => schedule_periods[t] >= 1
    /\ InFlight(t) =>
           runs[t] + Unmade(t)
              + (IF HasSchedule(t) THEN schedule_periods[t] - 1 ELSE 0)
           <= limit[t] + lost[t]
    /\ ~InFlight(t) =>
           runs[t] + (IF Alive(t) THEN schedule_periods[t] ELSE 0)
           <= limit[t] + lost[t]
    /\ \A p \in Starter : Writer(p, t) =>
           LET w == starter[p].write IN
           /\ w.kind = "none" => ~HasSchedule(t)
           /\ w.kind = "periods" =>
                 /\ w.n >= 1
                 /\ HasSchedule(t) => runs[t] + Unmade(t) + w.n <= limit[t] + lost[t]
           /\ runs[t] + Unmade(t) <= limit[t] + lost[t]

Accounts == \A t \in Task : Limited(t) => Account(t)

\* No start of a once-off schedule falls on a round, and it has no further dates.
OffRounds ==
    \A d \in Def : d.period = 0 =>
        d.rdates = {} /\ \A k \in Nat : d.first # k * SCHEDULE_PERIOD
OnRound == \E k \in Nat : now = k * SCHEDULE_PERIOD

\* The start of a once-off schedule is decided on when its time is over, which
\* leaves no next time.  From then on there is one process that may start the
\* task, until it has started it or makes it due again.
Made(p, t) == starter[p].task = t /\ starter[p].pc \in {"ok", "write"}
Once(t) ==
    /\ HasSchedule(t) =>
          /\ TaskDef(t).period = 0
          /\ \/ TaskDef(t).first < now
             \/ ~InFlight(t) /\ schedule_next_time[t] \in {NoTime, TaskDef(t).first}
    /\ Alive(t) => ~InFlight(t) /\ runs[t] = 0
    /\ t \in starts => Waiting(t) = {}
    /\ t \in starts \/ Waiting(t) # {} => runs[t] = 0
    /\ \A p, q \in Waiting(t) : p = q
    /\ \A p \in Starter : Made(p, t) => runs[t] > 0
    /\ runs[t] <= 1

OnceInv == OnRound /\ \A t \in Task : clean[t] /\ once[t] => Once(t)

-----------------------------------------------------------------------------
(***************************************************************************)
(* Times.                                                                  *)
(***************************************************************************)

\* A set of times has an earliest one.
LEMMA EarliestType ==
    ASSUME NEW S, S \subseteq Nat
    PROVE  Earliest(S) \in Nat /\ (S # {} => Earliest(S) \in S)
<1>1. CASE S = {}
  BY <1>1 DEF Earliest
<1>2. CASE S # {}
  <2>1. PICK x \in S : \A y \in S : ~(<< y, x >> \in OpToRel(<, Nat))
    BY <1>2, WFMin, NatLessThanWellFounded
  <2>2. \A y \in S : x <= y
    <3> SUFFICES ASSUME NEW y \in S, y < x PROVE FALSE
      OBVIOUS
    <3>1. << y, x >> \in OpToRel(<, Nat)
      BY DEF OpToRel
    <3> QED
      BY <2>1, <3>1
  <2>3. Min(S) \in S
    BY <2>2 DEF Min
  <2> QED
    BY <1>2, <2>3 DEF Earliest
<1> QED
  BY <1>1, <1>2

\* What a client defines a schedule as.
LEMMA DefType ==
    ASSUME NEW d \in Def
    PROVE  /\ d.first \in Nat \ {0} /\ d.period \in Nat /\ d.duration \in Nat
           /\ d.rdates \subseteq Nat
BY ScheduleDefAssumption

\* The times of the rule of a schedule.
LEMMA RuleType ==
    ASSUME NEW d \in Def
    PROVE  Rule(d) \subseteq Nat
<1>1. \A k \in 0 .. Horizon : d.first + k * d.period \in Nat
  BY DefType
<1> QED
  BY <1>1, DefType DEF Rule

\* The two functions give a next time.
LEMMA NextTimeType ==
    ASSUME NEW d \in Def, now \in Nat
    PROVE  /\ next_time(d.first, d.period, now, 0) \in Nat
           /\ icalendar_next_time_from_string(d, 0) \in Nat
<1>1. next_time(d.first, d.period, now, 0) \in Nat
  <2>1. CASE d.first >= now \/ ~(d.period > 0)
    BY <2>1, DefType DEF next_time
  <2>2. CASE ~(d.first >= now) /\ d.period > 0
    <3>1. (now - d.first) \div d.period \in Nat
      BY <2>2, DefType
    <3>2. ((now - d.first) \div d.period) + 1 + 0 \in Nat
      BY <3>1
    <3>3. (((now - d.first) \div d.period) + 1 + 0) * d.period \in Nat
      BY <3>2, DefType
    <3> QED
      BY <2>2, <3>3, DefType DEF next_time
  <2> QED
    BY <2>1, <2>2
<1>2. icalendar_next_time_from_string(d, 0) \in Nat
  <2>1. Earliest({t \in Rule(d) \ d.exdates : t >= now}) \in Nat
    BY RuleType, EarliestType
  <2>2. Earliest({t \in d.rdates : t > now}) \in Nat
    BY DefType, EarliestType
  <2> QED
    BY <2>1, <2>2
       DEF icalendar_next_time_from_string, icalendar_next_time_from_recurrence,
           icalendar_next_time_from_rdates
<1> QED
  BY <1>1, <1>2

-----------------------------------------------------------------------------
(***************************************************************************)
(* Types.                                                                  *)
(***************************************************************************)

\* The parts of the type invariant.
MainType ==
    /\ now \in 1 .. MaxTime
    /\ round_due \in BOOLEAN
    /\ main \in {"idle", "starts", "stops", "exited"}
    /\ starts \in SUBSET Task /\ stops \in SUBSET Task

RowType ==
    /\ def \in [ScheduleId -> Def]
    /\ schedule \in [Task -> ScheduleId \cup {NoSchedule}]
    /\ schedule_periods \in [Task -> Nat]
    /\ schedule_next_time \in [Task -> Nat]

ScanType ==
    /\ run_status \in [Task -> task_status_t]
    /\ flags \in [Task -> BOOLEAN]

StarterType ==
    /\ starter \in [Starter -> [pc : StarterPC, task : Task \cup {NoTask},
                                born : Nat, write : Write]]
    /\ \A p \in Starter : starter[p].pc = "free" <=> starter[p].task = NoTask
    /\ stopper \in [Task -> 0 .. MaxStopper]

BudgetType == ops \in 0 .. MaxOps /\ faults \in 0 .. MaxFaults

HistoryType ==
    /\ once \in [Task -> BOOLEAN] /\ clean \in [Task -> BOOLEAN]
    /\ limit \in [Task -> Nat]
    /\ runs \in [Task -> Nat] /\ lost \in [Task -> Nat]
    /\ crashed \in BOOLEAN

Types ==
    /\ MainType /\ RowType /\ ScanType /\ StarterType /\ BudgetType /\ HistoryType
    /\ MainInv

LEMMA TypesOK == Types => TypeOK
BY DEF Types, MainType, RowType, ScanType, StarterType, BudgetType, HistoryType,
       TypeOK

LEMMA NowType ==
    ASSUME MainType
    PROVE  now \in Nat \ {0} /\ now <= MaxTime
BY DEF MainType

\* The statuses that the scheduler writes.
LEMMA Statuses ==
    /\ TASK_STATUS_NEW \in task_status_t
    /\ TASK_STATUS_REQUESTED \in task_status_t
    /\ TASK_STATUS_RUNNING \in task_status_t
    /\ TASK_STATUS_STOP_REQUESTED \in task_status_t
    /\ TASK_STATUS_STOPPED \in task_status_t
    /\ TASK_STATUS_INTERRUPTED \in task_status_t
    /\ TASK_STATUS_DONE \in task_status_t
BY DEF task_status_t, ActiveStatus, InactiveStatus, ResumableStatus

LEMMA InitType == Init => Types
<1> SUFFICES ASSUME Init PROVE Types
  OBVIOUS
<1>1. MainType /\ MainInv
  BY DEF Init, MainType, MainInv
<1>2. RowType
  BY DEF Init, RowType
<1>3. ScanType
  BY Statuses DEF Init, ScanType
<1>4. StarterType
  BY DEF Init, StarterType, FreeStarter, NoWrite, Write, StarterPC
<1>5. BudgetType
  BY DEF Init, BudgetType
<1>6. HistoryType
  BY DEF Init, HistoryType
<1> QED
  BY <1>1, <1>2, <1>3, <1>4, <1>5, <1>6 DEF Types

\* A starter that goes on, or ends.
LEMMA GotoType ==
    ASSUME StarterType, NEW p \in Starter, starter[p].pc # "free", stopper' = stopper,
           \/ EndStarter(p)
           \/ \E l \in StarterPC \ {"free"} : GotoStarter(p, l)
    PROVE  StarterType'
<1>1. CASE EndStarter(p)
  BY <1>1 DEF StarterType, EndStarter, FreeStarter, NoWrite, Write, StarterPC
<1>2. ASSUME NEW l \in StarterPC \ {"free"}, GotoStarter(p, l)
      PROVE  StarterType'
  BY <1>2 DEF StarterType, GotoStarter
<1> QED
  BY <1>1, <1>2

\* The statements on tasks.
LEMMA RescheduleType ==
    ASSUME MainType, RowType, NEW t \in Task, reschedule_task(t), def' = def
    PROVE  RowType'
BY DEF MainType, RowType, reschedule_task, SetNextTime

LEMMA SetScheduleType ==
    ASSUME MainType, RowType, NEW t \in Task, NEW s \in ScheduleId \cup {NoSchedule},
           NEW n \in Nat, set_task_schedule(t, s, n), def' = def
    PROVE  RowType'
<1>1. (IF s = NoSchedule THEN NoTime ELSE next_time(def[s].first, def[s].period, now, 0))
         \in Nat
  BY NextTimeType DEF MainType, RowType
<1> QED
  BY <1>1 DEF RowType, set_task_schedule, SetNextTime

LEMMA DetachType ==
    ASSUME RowType, NEW T, Detach(T), def' = def
    PROVE  RowType'
BY DEF RowType, Detach

\* A starter that was just forked.
Forked(t) == [FreeStarter EXCEPT !.pc = "forked", !.task = t, !.born = now]

LEMMA ForkedType ==
    ASSUME NEW t \in Task, now \in Nat
    PROVE  /\ Forked(t) \in [pc : StarterPC, task : Task \cup {NoTask},
                             born : Nat, write : Write]
           /\ Forked(t).pc = "forked" /\ Forked(t).task = t
BY DEF Forked, FreeStarter, NoWrite, Write, StarterPC

\* The main process.
LEMMA CollectType ==
    ASSUME Types, CollectDue
    PROVE  Types'
<1> USE DEF Types, CollectDue, asked
<1>1. MainType' /\ MainInv'
  BY DEF MainType, MainInv
<1>2. RowType'
  <2>1. \A t \in Task : HasSchedule(t) =>
            icalendar_next_time_from_string(TaskDef(t), 0) \in Nat
    BY NextTimeType DEF MainType, RowType, HasSchedule, TaskDef
  <2> QED
    BY <2>1 DEF RowType
<1>3. ScanType' /\ StarterType' /\ BudgetType'
  BY DEF ScanType, StarterType, BudgetType
<1>4. HistoryType'
  BY DEF HistoryType
<1> QED
  BY <1>1, <1>2, <1>3, <1>4

LEMMA MainStepType ==
    ASSUME Types,
           \/ \E t \in Task, p \in Starter : ForkStarter(t, p)
           \/ \E t \in Task : ForkStarterFails(t)
           \/ StartsForked
           \/ \E t \in Task : ForkStopper(t) \/ ForkStopperFails(t)
           \/ EndRound
           \/ Tick
    PROVE  Types'
<1> USE DEF Types, Fault, db, history, asked
<1>1. ASSUME NEW t \in Task, NEW p \in Starter, ForkStarter(t, p)
      PROVE  Types'
  <2> USE DEF ForkStarter
  <2>1. MainType' /\ MainInv'
    BY <1>1 DEF MainType, MainInv
  <2>2. RowType' /\ ScanType' /\ BudgetType' /\ HistoryType'
    BY <1>1 DEF RowType, ScanType, BudgetType, HistoryType
  <2>3. StarterType'
    <3>1. starter' = [starter EXCEPT ![p] = Forked(t)] /\ stopper' = stopper
      BY <1>1 DEF Forked
    <3>2. now \in Nat
      BY NowType
    <3>3. StarterType
      OBVIOUS
    <3> QED
      BY <3>1, <3>2, <3>3, ForkedType DEF StarterType
  <2> QED
    BY <2>1, <2>2, <2>3
<1>2. ASSUME NEW t \in Task, ForkStarterFails(t)
      PROVE  Types'
  <2> USE DEF ForkStarterFails
  <2>1. MainType' /\ MainInv'
    BY <1>2 DEF MainType, MainInv
  <2>2. ScanType' /\ StarterType' /\ BudgetType' /\ HistoryType'
    BY <1>2 DEF ScanType, StarterType, BudgetType, HistoryType
  <2>3. RowType'
    BY <1>2, RescheduleType
  <2> QED
    BY <2>1, <2>2, <2>3
<1>3. CASE StartsForked
  <2> USE DEF StartsForked
  <2>1. MainType' /\ MainInv'
    BY <1>3 DEF MainType, MainInv
  <2>2. RowType' /\ ScanType' /\ StarterType' /\ BudgetType' /\ HistoryType'
    BY <1>3 DEF RowType, ScanType, StarterType, BudgetType, HistoryType
  <2> QED
    BY <2>1, <2>2
<1>4. ASSUME NEW t \in Task, ForkStopper(t) \/ ForkStopperFails(t)
      PROVE  Types'
  <2> USE DEF ForkStopper, ForkStopperFails
  <2>1. MainType' /\ MainInv'
    BY <1>4 DEF MainType, MainInv
  <2>2. RowType' /\ ScanType' /\ HistoryType'
    BY <1>4 DEF RowType, ScanType, HistoryType
  <2>3. BudgetType'
    BY <1>4 DEF BudgetType
  <2>4. StarterType'
    BY <1>4 DEF StarterType
  <2> QED
    BY <2>1, <2>2, <2>3, <2>4
<1>5. CASE EndRound
  <2> USE DEF EndRound
  <2>1. MainType' /\ MainInv'
    BY <1>5 DEF MainType, MainInv
  <2>2. ScanType' /\ StarterType' /\ BudgetType' /\ HistoryType'
    BY <1>5 DEF ScanType, StarterType, BudgetType, HistoryType
  <2>3. RowType'
    BY <1>5, DetachType
  <2> QED
    BY <2>1, <2>2, <2>3
<1>6. CASE Tick
  <2> USE DEF Tick
  <2>1. MainType' /\ MainInv'
    BY <1>6 DEF MainType, MainInv
  <2>2. RowType' /\ ScanType' /\ StarterType' /\ BudgetType' /\ HistoryType'
    BY <1>6 DEF RowType, ScanType, StarterType, BudgetType, HistoryType
  <2> QED
    BY <2>1, <2>2
<1> QED
  BY <1>1, <1>2, <1>3, <1>4, <1>5, <1>6

\* A starter at work has a task.
LEMMA StarterTask ==
    ASSUME StarterType, NEW p \in Starter, starter[p].pc # "free"
    PROVE  starter[p].task \in Task
BY DEF StarterType

LEMMA SettlementType ==
    ASSUME RowType, NEW t \in Task
    PROVE  Settlement(t) \in Write
<1>1. schedule_periods[t] \in Nat
  BY DEF RowType
<1> QED
  BY <1>1 DEF Settlement, Write, NoWrite

\* A starter begins the scan of its task.
LEMMA StartedType ==
    ASSUME ScanType, StarterType, HistoryType, NEW p \in Starter,
           starter[p].pc # "free", Started(p), stopper' = stopper,
           UNCHANGED << asked, lost, crashed >>
    PROVE  ScanType' /\ StarterType' /\ HistoryType'
<1>1. starter[p].task \in Task
  BY StarterTask
<1>2. ScanType'
  BY <1>1, Statuses DEF Started, ScanType
<1>3. StarterType'
  BY GotoType DEF Started, StarterPC
<1>4. HistoryType'
  BY <1>1 DEF Started, HistoryType, asked
<1> QED
  BY <1>2, <1>3, <1>4

\* The starters.
LEMMA StarterStepType ==
    ASSUME Types, NEW p \in Starter,
           StarterStep(p) \/ ForkConnectionFails(p) \/ LoginFails(p)
    PROVE  Types'
<1> USE DEF Types, Fault, db, history, asked, daemon
<1>0. starter[p].pc # "free"
  BY DEF StarterStep, ForkConnection, ResumeTask, StartTask, StarterFailed,
         ReadSchedule, WriteSchedule, ForkConnectionFails, LoginFails
<1>1. starter[p].task \in Task
  BY <1>0, StarterTask
<1>2. MainType' /\ MainInv'
  BY DEF StarterStep, ForkConnection, ResumeTask, StartTask, StarterFailed,
         ReadSchedule, WriteSchedule, ForkConnectionFails, LoginFails, MainType,
         MainInv
<1>3. BudgetType'
  BY DEF StarterStep, ForkConnection, ResumeTask, StartTask, StarterFailed,
         ReadSchedule, WriteSchedule, ForkConnectionFails, LoginFails, BudgetType
<1>4. CASE ForkConnection(p) \/ LoginFails(p)
  <2>1. RowType' /\ ScanType' /\ HistoryType'
    BY <1>4 DEF ForkConnection, LoginFails, RowType, ScanType, HistoryType
  <2>2. StarterType'
    BY <1>0, <1>4, GotoType DEF ForkConnection, LoginFails, StarterPC
  <2> QED
    BY <1>2, <1>3, <2>1, <2>2
<1>5. CASE StarterFailed(p) \/ ForkConnectionFails(p)
  <2>1. ScanType' /\ HistoryType'
    BY <1>5 DEF StarterFailed, ForkConnectionFails, ScanType, HistoryType
  <2>2. StarterType'
    BY <1>0, <1>5, GotoType DEF StarterFailed, ForkConnectionFails
  <2>3. RowType'
    BY <1>1, <1>5, RescheduleType DEF StarterFailed, ForkConnectionFails
  <2> QED
    BY <1>2, <1>3, <2>1, <2>2, <2>3
<1>6. CASE ResumeTask(p) \/ StartTask(p)
  <2>1. RowType'
    BY <1>6 DEF ResumeTask, StartTask, RowType
  <2>2. CASE Started(p)
    BY <1>0, <1>2, <1>3, <1>6, <2>1, <2>2, StartedType DEF ResumeTask, StartTask
  <2>3. CASE ~Started(p)
    <3>1. StarterType'
      BY <1>0, <1>6, <2>3, GotoType DEF ResumeTask, StartTask, StarterPC
    <3>2. ScanType' /\ HistoryType'
      BY <1>6, <2>3 DEF ResumeTask, StartTask, ScanType, HistoryType
    <3> QED
      BY <1>2, <1>3, <2>1, <3>1, <3>2
  <2> QED
    BY <2>2, <2>3
<1>7. CASE ReadSchedule(p)
  <2>1. RowType' /\ ScanType' /\ HistoryType'
    BY <1>7 DEF ReadSchedule, RowType, ScanType, HistoryType
  <2>2. Settlement(starter[p].task) \in Write
    BY <1>1, SettlementType
  <2>3. StarterType'
    BY <1>0, <1>7, <2>2 DEF ReadSchedule, StarterType, StarterPC
  <2> QED
    BY <1>2, <1>3, <2>1, <2>3
<1>8. CASE WriteSchedule(p)
  <2>1. ScanType' /\ HistoryType'
    BY <1>8 DEF WriteSchedule, ScanType, HistoryType
  <2>2. StarterType'
    BY <1>0, <1>8, GotoType DEF WriteSchedule
  <2>3. starter[p].write.n \in Nat
    BY DEF StarterType, Write
  <2>4. RowType'
    <3>1. CASE starter[p].write.kind = "remove"
      BY <1>1, <1>8, <2>3, <3>1, SetScheduleType DEF WriteSchedule
    <3>2. CASE starter[p].write.kind = "periods"
      BY <1>1, <1>8, <2>3, <3>2 DEF WriteSchedule, RowType
    <3>3. CASE starter[p].write.kind = "flag"
      BY <1>1, <1>8, <3>3 DEF WriteSchedule, RowType, SetNextTime
    <3>4. CASE starter[p].write.kind \notin {"remove", "periods", "flag"}
      BY <1>8, <3>4 DEF WriteSchedule, RowType
    <3> QED
      BY <3>1, <3>2, <3>3, <3>4
  <2> QED
    BY <1>2, <1>3, <2>1, <2>2, <2>4
<1> QED
  BY <1>4, <1>5, <1>6, <1>7, <1>8 DEF StarterStep

\* Stoppers, scans and the commands that start and stop.
LEMMA ScanStepType ==
    ASSUME Types, NEW t \in Task,
           \/ StopperStops(t) \/ StopperFails(t) \/ ScanBegins(t) \/ ScanEnds(t)
           \/ ClientStarts(t) \/ ClientStops(t)
    PROVE  Types'
<1> USE DEF Types, Fault, Client, db, history, asked, daemon
<1>1. MainType' /\ MainInv' /\ HistoryType'
  BY DEF StopperStops, StopperFails, ScanBegins, ScanEnds, ClientStarts, ClientStops,
         MainType, MainInv, HistoryType
<1>2. ScanType'
  BY Statuses DEF StopperStops, StopperFails, ScanBegins, ScanEnds, ClientStarts,
                  ClientStops, ScanType
<1>3. StarterType'
  BY DEF StopperStops, StopperFails, ScanBegins, ScanEnds, ClientStarts, ClientStops,
         StarterType
<1>4. BudgetType'
  BY DEF StopperStops, StopperFails, ScanBegins, ScanEnds, ClientStarts, ClientStops,
         BudgetType
<1>5. RowType'
  <2>1. CASE ScanEnds(t)
    BY <2>1, DetachType DEF ScanEnds
  <2>2. CASE ~ScanEnds(t)
    BY <2>2 DEF StopperStops, StopperFails, ScanBegins, ClientStarts, ClientStops,
                RowType
  <2> QED
    BY <2>1, <2>2
<1> QED
  BY <1>1, <1>2, <1>3, <1>4, <1>5

\* A client asks for a schedule.
LEMMA AskedType ==
    ASSUME HistoryType, NEW T, NEW b \in BOOLEAN, NEW f \in [Task -> Nat],
           Asked(T, b, f), crashed' = crashed
    PROVE  HistoryType'
BY DEF HistoryType, Asked

LEMMA ModifyType ==
    ASSUME Types,
           \/ \E t \in Task, s \in ScheduleId \cup {NoSchedule}, n \in 0 .. 2 :
                 ModifyTask(t, s, n)
           \/ \E s \in ScheduleId, d \in Def : ModifySchedule(s, d)
    PROVE  Types'
<1> USE DEF Types, Client, daemon
<1>1. ASSUME NEW t \in Task, NEW s \in ScheduleId \cup {NoSchedule}, NEW n \in 0 .. 2,
             ModifyTask(t, s, n)
      PROVE  Types'
  <2> USE DEF ModifyTask
  <2>1. MainType' /\ MainInv' /\ ScanType' /\ StarterType'
    BY <1>1 DEF MainType, MainInv, ScanType, StarterType
  <2>2. BudgetType'
    BY <1>1 DEF BudgetType
  <2>3. RowType'
    BY <1>1, SetScheduleType
  <2>4. HistoryType'
    <3>1. [u \in Task |-> n] \in [Task -> Nat]
      OBVIOUS
    <3>2. (s # NoSchedule /\ def[s].period = 0) \in BOOLEAN
      OBVIOUS
    <3> QED
      BY <1>1, <3>1, <3>2, AskedType
  <2> QED
    BY <2>1, <2>2, <2>3, <2>4
<1>2. ASSUME NEW s \in ScheduleId, NEW d \in Def, ModifySchedule(s, d)
      PROVE  Types'
  <2> USE DEF ModifySchedule
  <2>1. MainType' /\ MainInv' /\ ScanType' /\ StarterType'
    BY <1>2 DEF MainType, MainInv, ScanType, StarterType
  <2>2. BudgetType'
    BY <1>2 DEF BudgetType
  <2>3. RowType'
    <3>1. icalendar_next_time_from_string(d, 0) \in Nat
      BY NextTimeType DEF MainType
    <3> QED
      BY <1>2, <3>1 DEF RowType
  <2>4. HistoryType'
    BY <1>2, AskedType DEF RowType
  <2> QED
    BY <2>1, <2>2, <2>3, <2>4
<1> QED
  BY <1>1, <1>2

\* How many starters of a set there are.
LEMMA CountType ==
    ASSUME NEW S \in SUBSET Starter
    PROVE  IsFiniteSet(S) /\ Cardinality(S) \in Nat
BY ScheduleStarterAssumption, FS_Subset, FS_CardinalityType

LEMMA CrashType ==
    ASSUME Types, Crash
    PROVE  Types'
<1> USE DEF Types, Crash, Fault, db, asked
<1>1. MainType' /\ MainInv'
  BY DEF MainType, MainInv
<1>2. RowType' /\ BudgetType'
  BY DEF RowType, BudgetType
<1>3. ScanType'
  BY Statuses DEF ScanType
<1>4. StarterType'
  BY DEF StarterType, FreeStarter, NoWrite, Write, StarterPC
<1>5. HistoryType'
  <2>1. \A t \in Task :
            Cardinality({p \in Starter : /\ starter[p].task = t
                                         /\ starter[p].pc \in {"ok", "write"}}) \in Nat
    BY CountType
  <2> QED
    BY <2>1 DEF HistoryType
<1> QED
  BY <1>1, <1>2, <1>3, <1>4, <1>5

\* Every step keeps the types.
LEMMA NextType == Types /\ [Next]_vars => Types'
<1> SUFFICES ASSUME Types, [Next]_vars PROVE Types'
  OBVIOUS
<1>1. CASE UNCHANGED vars
  BY <1>1 DEF vars, daemon, db, history, Types, MainType, MainInv, RowType, ScanType,
              StarterType, BudgetType, HistoryType
<1>2. CASE Next
  BY <1>2, CollectType, MainStepType, StarterStepType, ScanStepType, ModifyType,
     CrashType DEF Next, MainStep
<1> QED
  BY <1>1, <1>2

-----------------------------------------------------------------------------
(***************************************************************************)
(* The periods.                                                            *)
(***************************************************************************)
LEMMA Numbers ==
    ASSUME Types, NEW t \in Task
    PROVE  /\ Cardinality(Waiting(t)) \in Nat /\ Unmade(t) \in Nat
           /\ runs[t] \in Nat /\ lost[t] \in Nat /\ limit[t] \in Nat
           /\ schedule_periods[t] \in Nat
<1>1. Cardinality(Waiting(t)) \in Nat
  BY CountType DEF Waiting
<1> QED
  BY <1>1 DEF Types, HistoryType, RowType, Unmade

LEMMA NumbersNext ==
    ASSUME Types', NEW t \in Task
    PROVE  /\ Cardinality(Waiting(t)') \in Nat /\ Unmade(t)' \in Nat
           /\ runs'[t] \in Nat /\ lost'[t] \in Nat /\ limit'[t] \in Nat
           /\ schedule_periods'[t] \in Nat
<1>1. Cardinality(Waiting(t)') \in Nat
  BY CountType DEF Waiting
<1> QED
  BY <1>1 DEF Types, HistoryType, RowType, Unmade

\* The account of a task is kept by a step that decides on no start and settles
\* none.  A start may be made, and the schedule removed.
LEMMA AccountKept ==
    ASSUME Types, Types', NEW t \in Task, Limited(t) => Account(t),
           clean'[t] = clean[t], limit'[t] = limit[t], lost'[t] = lost[t],
           runs'[t] + Unmade(t)' <= runs[t] + Unmade(t),
           InFlight(t)' <=> InFlight(t),
           ~InFlight(t) => runs'[t] = runs[t],
           schedule'[t] \in {schedule[t], NoSchedule},
           schedule_periods'[t] = schedule_periods[t],
           ~InFlight(t) /\ Alive(t)' => Alive(t),
           \A p \in Starter :
              Writer(p, t)' => Writer(p, t) /\ starter'[p].write = starter[p].write
    PROVE  Limited(t)' => Account(t)'
<1> SUFFICES ASSUME Limited(t)' PROVE Account(t)'
  OBVIOUS
<1>1. Account(t)
  BY DEF Limited
<1>2. /\ Unmade(t) \in Nat /\ Unmade(t)' \in Nat /\ runs[t] \in Nat
      /\ runs'[t] \in Nat /\ limit[t] \in Nat /\ lost[t] \in Nat
      /\ schedule_periods[t] \in Nat
  BY Numbers, NumbersNext
<1>3. HasSchedule(t)' => HasSchedule(t)
  BY DEF HasSchedule
<1>4. HasSchedule(t)' => schedule_periods'[t] >= 1
  BY <1>1, <1>3 DEF Account
<1>5. InFlight(t)' =>
          runs'[t] + Unmade(t)'
             + (IF HasSchedule(t)' THEN schedule_periods'[t] - 1 ELSE 0)
          <= limit'[t] + lost'[t]
  BY <1>1, <1>2, <1>3 DEF Account
<1>6. ~InFlight(t)' =>
          runs'[t] + (IF Alive(t)' THEN schedule_periods'[t] ELSE 0)
          <= limit'[t] + lost'[t]
  BY <1>1, <1>2 DEF Account
<1>7. ASSUME NEW p \in Starter, Writer(p, t)'
      PROVE  LET w == starter'[p].write IN
             /\ w.kind = "none" => ~HasSchedule(t)'
             /\ w.kind = "periods" =>
                   /\ w.n >= 1
                   /\ HasSchedule(t)' =>
                         runs'[t] + Unmade(t)' + w.n <= limit'[t] + lost'[t]
             /\ runs'[t] + Unmade(t)' <= limit'[t] + lost'[t]
  <2>1. starter[p].write.n \in Nat
    BY DEF Types, StarterType, Write
  <2> QED
    BY <1>1, <1>2, <1>3, <1>7, <2>1 DEF Account
<1> QED
  BY <1>4, <1>5, <1>6, <1>7 DEF Account

\* A step that leaves starts and starters alone, and may remove schedules.
LEMMA QuietStep ==
    ASSUME Types, Types', Accounts,
           UNCHANGED << starts, starter, clean, limit, runs, lost, schedule_periods >>,
           \A t \in Task : schedule'[t] \in {schedule[t], NoSchedule},
           \A t \in Task : Alive(t)' => Alive(t)
    PROVE  Accounts'
<1> SUFFICES ASSUME NEW t \in Task PROVE Limited(t)' => Account(t)'
  BY DEF Accounts
<1>1. /\ InFlight(t)' <=> InFlight(t)
      /\ \A p \in Starter : Writer(p, t)' =>
              Writer(p, t) /\ starter'[p].write = starter[p].write
  BY DEF InFlight, Writer
<1>2. Limited(t) => Account(t)
  BY DEF Accounts
<1>3. Unmade(t)' = Unmade(t)
  BY DEF Unmade, Waiting
<1>4. runs'[t] + Unmade(t)' <= runs[t] + Unmade(t)
  BY <1>3, Numbers
<1> QED
  BY <1>1, <1>2, <1>4, AccountKept

\* A step of a starter does not touch the other tasks.
LEMMA OtherTask ==
    ASSUME Types, Types', NEW p \in Starter, NEW r, starter' = [starter EXCEPT ![p] = r],
           NEW t \in Task, t # starter[p].task, t # r.task, Limited(t) => Account(t),
           t \in starts' <=> t \in starts,
           clean'[t] = clean[t], limit'[t] = limit[t], runs'[t] = runs[t],
           lost'[t] = lost[t], schedule'[t] = schedule[t],
           schedule_periods'[t] = schedule_periods[t],
           schedule_next_time'[t] = schedule_next_time[t]
    PROVE  Limited(t)' => Account(t)'
<1>0. \A q \in Starter : starter'[q] = IF q = p THEN r ELSE starter[q]
  BY DEF Types, StarterType
<1>1. Waiting(t)' = Waiting(t)
  BY <1>0 DEF Waiting
<1>2. InFlight(t)' <=> InFlight(t)
  BY <1>0 DEF InFlight
<1>3. \A q \in Starter : Writer(q, t)' =>
           Writer(q, t) /\ starter'[q].write = starter[q].write
  BY <1>0 DEF Writer
<1>4. Alive(t)' => Alive(t)
  BY DEF Alive, HasSchedule
<1>5. Unmade(t)' = Unmade(t)
  BY <1>1 DEF Unmade
<1>6. runs'[t] + Unmade(t)' <= runs[t] + Unmade(t)
  BY <1>5, Numbers
<1> QED
  BY <1>2, <1>3, <1>4, <1>6, AccountKept

\* Detaching tasks from their schedule.
LEMMA DetachStep ==
    ASSUME Types, NEW T, Detach(T), NEW t \in Task
    PROVE  schedule'[t] \in {schedule[t], NoSchedule} /\ (Alive(t)' => Alive(t))
BY DEF Detach, Alive, HasSchedule

\* The steps that have nothing to do with starts.
LEMMA QuietAccounts ==
    ASSUME Types, Types', Accounts,
           \/ StartsForked \/ EndRound \/ Tick
           \/ \E t \in Task :
                 \/ ForkStopper(t) \/ ForkStopperFails(t)
                 \/ StopperStops(t) \/ StopperFails(t)
                 \/ ScanBegins(t) \/ ScanEnds(t)
                 \/ ClientStarts(t) \/ ClientStops(t)
           \/ UNCHANGED vars
    PROVE  Accounts'
<1>1. UNCHANGED << starts, starter, clean, limit, runs, lost, schedule_periods >>
  BY DEF StartsForked, EndRound, Tick, ForkStopper, ForkStopperFails, StopperStops,
         StopperFails, ScanBegins, ScanEnds, ClientStarts, ClientStops, vars, db,
         daemon, history, Detach
<1>2. \/ UNCHANGED << schedule, schedule_next_time >>
      \/ \E T : Detach(T)
  BY DEF StartsForked, EndRound, Tick, ForkStopper, ForkStopperFails, StopperStops,
         StopperFails, ScanBegins, ScanEnds, ClientStarts, ClientStops, vars, db
<1>3. \A t \in Task :
          schedule'[t] \in {schedule[t], NoSchedule} /\ (Alive(t)' => Alive(t))
  <2>1. CASE UNCHANGED << schedule, schedule_next_time >>
    BY <2>1 DEF Alive, HasSchedule
  <2>2. CASE \E T : Detach(T)
    BY <2>2, DetachStep
  <2> QED
    BY <1>2, <2>1, <2>2
<1> QED
  BY <1>1, <1>3, QuietStep

\* The round decides on starts.
LEMMA CollectAccounts ==
    ASSUME Types, Types', Accounts, CollectDue
    PROVE  Accounts'
<1> SUFFICES ASSUME NEW t \in Task, Limited(t)' PROVE Account(t)'
  BY DEF Accounts
<1>1. /\ starter' = starter /\ schedule' = schedule
      /\ schedule_periods' = schedule_periods
      /\ clean' = clean /\ limit' = limit /\ runs' = runs
  BY DEF CollectDue, asked
<1>2. starts = {}
  BY DEF CollectDue, Types, MainInv
<1>3. HasSchedule(t)' <=> HasSchedule(t)
  BY <1>1 DEF HasSchedule
<1>4. Waiting(t)' = Waiting(t)
  BY <1>1 DEF Waiting
<1>5. \A p \in Starter : Writer(p, t)' =>
          Writer(p, t) /\ starter'[p].write = starter[p].write
  BY <1>1 DEF Writer
<1>6. Account(t)
  BY <1>1 DEF Accounts, Limited
<1>7. CASE t \notin starts'
  <2>1. lost'[t] = lost[t]
    BY <1>7 DEF CollectDue
  <2>2. Alive(t)' => Alive(t)
    BY <1>1 DEF CollectDue, Alive, HasSchedule, start_due
  <2>3. InFlight(t)' <=> InFlight(t)
    BY <1>1, <1>2, <1>7 DEF InFlight
  <2>4. Unmade(t)' = Unmade(t)
    BY <1>2, <1>4, <1>7 DEF Unmade
  <2>5. runs'[t] + Unmade(t)' <= runs[t] + Unmade(t)
    BY <1>1, <2>4, Numbers
  <2> QED
    BY <1>1, <1>5, <1>6, <2>1, <2>2, <2>3, <2>5, AccountKept
<1>8. CASE t \in starts'
  <2>1. Alive(t)
    BY <1>8 DEF CollectDue, Alive, start_due
  <2>2. InFlight(t)'
    BY <1>8 DEF InFlight
  <2>3. Unmade(t) = Cardinality(Waiting(t)) /\ Unmade(t)' = Unmade(t) + 1
    BY <1>2, <1>4, <1>8, Numbers DEF Unmade
  <2>4. /\ Unmade(t) \in Nat /\ runs[t] \in Nat /\ limit[t] \in Nat
        /\ lost[t] \in Nat /\ schedule_periods[t] \in Nat
    BY Numbers
  <2>5. lost'[t] = IF InFlight(t) THEN lost[t] + 1 ELSE lost[t]
    BY <1>8 DEF CollectDue
  <2>6. ~InFlight(t) => Unmade(t) = 0
    <3>1. ~InFlight(t) => Waiting(t) = {}
      BY DEF InFlight, Waiting
    <3> QED
      BY <2>3, <3>1, FS_EmptySet
  <2>7. runs'[t] + Unmade(t)'
            + (IF HasSchedule(t)' THEN schedule_periods'[t] - 1 ELSE 0)
        <= limit'[t] + lost'[t]
    BY <1>1, <1>3, <1>6, <2>1, <2>3, <2>4, <2>5, <2>6 DEF Account, Alive
  <2>8. ASSUME NEW p \in Starter, Writer(p, t)'
        PROVE  LET w == starter'[p].write IN
               /\ w.kind = "none" => ~HasSchedule(t)'
               /\ w.kind = "periods" =>
                     /\ w.n >= 1
                     /\ HasSchedule(t)' =>
                           runs'[t] + Unmade(t)' + w.n <= limit'[t] + lost'[t]
               /\ runs'[t] + Unmade(t)' <= limit'[t] + lost'[t]
    <3>1. InFlight(t)
      BY <1>5, <2>8 DEF InFlight, Writer
    <3>2. starter[p].write.n \in Nat
      BY DEF Types, StarterType, Write
    <3> QED
      BY <1>1, <1>3, <1>5, <1>6, <2>3, <2>4, <2>5, <2>8, <3>1, <3>2 DEF Account
  <2>9. HasSchedule(t)' => schedule_periods'[t] >= 1
    BY <1>1, <1>3, <1>6 DEF Account
  <2> QED
    BY <2>2, <2>7, <2>8, <2>9 DEF Account
<1> QED
  BY <1>7, <1>8

\* A start is given up, and the task made due again.
LEMMA GivenUp ==
    ASSUME Types, Types', NEW t \in Task, Limited(t) => Account(t),
           clean'[t] = clean[t], limit'[t] = limit[t], runs'[t] = runs[t],
           lost'[t] = lost[t], schedule'[t] = schedule[t],
           schedule_periods'[t] = schedule_periods[t],
           InFlight(t), Unmade(t) = Unmade(t)' + 1,
           \A p \in Starter :
              Writer(p, t)' => Writer(p, t) /\ starter'[p].write = starter[p].write
    PROVE  Limited(t)' => Account(t)'
<1> SUFFICES ASSUME Limited(t)' PROVE Account(t)'
  OBVIOUS
<1>1. Account(t)
  BY DEF Limited
<1>2. /\ Unmade(t)' \in Nat /\ runs[t] \in Nat /\ limit[t] \in Nat
      /\ lost[t] \in Nat /\ schedule_periods[t] \in Nat
  BY Numbers, NumbersNext
<1>3. HasSchedule(t)' <=> HasSchedule(t)
  BY DEF HasSchedule
<1>4. HasSchedule(t)' => schedule_periods'[t] >= 1
  BY <1>1, <1>3 DEF Account
<1>5. runs'[t] + Unmade(t)'
         + (IF HasSchedule(t)' THEN schedule_periods'[t] - 1 ELSE 0)
      <= limit'[t] + lost'[t]
  BY <1>1, <1>2, <1>3 DEF Account
<1>6. runs'[t] + (IF Alive(t)' THEN schedule_periods'[t] ELSE 0)
      <= limit'[t] + lost'[t]
  <2>1. Alive(t)' => HasSchedule(t)
    BY <1>3 DEF Alive
  <2> QED
    BY <1>1, <1>2, <2>1 DEF Account
<1>7. ASSUME NEW p \in Starter, Writer(p, t)'
      PROVE  LET w == starter'[p].write IN
             /\ w.kind = "none" => ~HasSchedule(t)'
             /\ w.kind = "periods" =>
                   /\ w.n >= 1
                   /\ HasSchedule(t)' =>
                         runs'[t] + Unmade(t)' + w.n <= limit'[t] + lost'[t]
             /\ runs'[t] + Unmade(t)' <= limit'[t] + lost'[t]
  <2>1. starter[p].write.n \in Nat
    BY DEF Types, StarterType, Write
  <2> QED
    BY <1>1, <1>2, <1>3, <1>7, <2>1 DEF Account
<1> QED
  BY <1>4, <1>5, <1>6, <1>7 DEF Account

\* How a step of one starter changes the set of the waiting ones.
LEMMA WaitingChange ==
    ASSUME Types, NEW p \in Starter, NEW r, starter' = [starter EXCEPT ![p] = r],
           NEW t \in Task
    PROVE  /\ p \in Waiting(t)' <=> r.task = t /\ r.pc \in WaitPC
           /\ (p \in Waiting(t) <=> p \in Waiting(t)') => Waiting(t)' = Waiting(t)
           /\ p \notin Waiting(t) /\ p \in Waiting(t)'
                 => Cardinality(Waiting(t)') = Cardinality(Waiting(t)) + 1
           /\ p \in Waiting(t) /\ p \notin Waiting(t)'
                 => Cardinality(Waiting(t)) = Cardinality(Waiting(t)') + 1
<1>1. \A q \in Starter : starter'[q] = IF q = p THEN r ELSE starter[q]
  BY DEF Types, StarterType
<1>2. \A q \in Starter : q # p => (q \in Waiting(t)' <=> q \in Waiting(t))
  BY <1>1 DEF Waiting
<1>3. Waiting(t) \subseteq Starter /\ Waiting(t)' \subseteq Starter
  BY DEF Waiting
<1>4. p \in Waiting(t)' <=> r.task = t /\ r.pc \in WaitPC
  BY <1>1 DEF Waiting
<1>5. (p \in Waiting(t) <=> p \in Waiting(t)') => Waiting(t)' = Waiting(t)
  BY <1>2, <1>3
<1>6. ASSUME p \notin Waiting(t), p \in Waiting(t)'
      PROVE  Cardinality(Waiting(t)') = Cardinality(Waiting(t)) + 1
  <2>1. Waiting(t)' = Waiting(t) \cup {p}
    BY <1>2, <1>3, <1>6
  <2>2. IsFiniteSet(Waiting(t))
    BY <1>3, CountType
  <2> QED
    BY <1>6, <2>1, <2>2, FS_AddElement
<1>7. ASSUME p \in Waiting(t), p \notin Waiting(t)'
      PROVE  Cardinality(Waiting(t)) = Cardinality(Waiting(t)') + 1
  <2>1. Waiting(t) = Waiting(t)' \cup {p}
    BY <1>2, <1>3, <1>7
  <2>2. IsFiniteSet(Waiting(t)')
    BY <1>3, CountType
  <2> QED
    BY <1>7, <2>1, <2>2, FS_AddElement
<1> QED
  BY <1>4, <1>5, <1>6, <1>7

\* The main process works off its list.
LEMMA ForkAccounts ==
    ASSUME Types, Types', Accounts,
           \/ \E t \in Task, p \in Starter : ForkStarter(t, p)
           \/ \E t \in Task : ForkStarterFails(t)
    PROVE  Accounts'
<1>1. ASSUME NEW u \in Task, NEW p \in Starter, ForkStarter(u, p),
             NEW t \in Task, Limited(t)'
      PROVE  Account(t)'
  <2>1. /\ starter' = [starter EXCEPT ![p] = Forked(u)] /\ starts' = starts \ {u}
        /\ UNCHANGED << clean, limit, runs, lost, schedule, schedule_periods,
                        schedule_next_time >>
    BY <1>1 DEF ForkStarter, Forked, history, db
  <2>2. starter[p].task = NoTask /\ starter[p].pc = "free" /\ u \in starts
    BY <1>1 DEF ForkStarter, Types, StarterType
  <2>3. Forked(u).task = u /\ Forked(u).pc = "forked"
    BY ForkedType, NowType DEF Types
  <2>4. Limited(t) => Account(t)
    BY DEF Accounts
  <2>5. CASE t # u
    BY <1>1, <2>1, <2>2, <2>3, <2>4, <2>5, OtherTask
  <2>6. CASE t = u
    <3>1. \A q \in Starter : starter'[q] = IF q = p THEN Forked(u) ELSE starter[q]
      BY <2>1 DEF Types, StarterType
    <3>2. InFlight(t)' /\ InFlight(t)
      BY <2>2, <2>3, <2>6, <3>1 DEF InFlight
    <3>3. Cardinality(Waiting(t)') = Cardinality(Waiting(t)) + 1
      <4>1. p \notin Waiting(t)
        BY <2>2 DEF Waiting, WaitPC
      <4>2. Forked(u).task = t /\ Forked(u).pc \in WaitPC
        BY <2>3, <2>6 DEF WaitPC
      <4> QED
        BY <2>1, <4>1, <4>2, WaitingChange
    <3>4. Unmade(t)' = Unmade(t)
      BY <2>1, <2>2, <2>6, <3>3, Numbers DEF Unmade
    <3>5. runs'[t] + Unmade(t)' <= runs[t] + Unmade(t)
      BY <2>1, <3>4, Numbers
    <3>6. \A q \in Starter : Writer(q, t)' =>
              Writer(q, t) /\ starter'[q].write = starter[q].write
      BY <2>3, <3>1 DEF Writer
    <3> QED
      BY <1>1, <2>1, <2>4, <3>2, <3>5, <3>6, AccountKept
  <2> QED
    BY <2>5, <2>6
<1>2. ASSUME NEW u \in Task, ForkStarterFails(u), NEW t \in Task, Limited(t)'
      PROVE  Account(t)'
  <2>1. /\ starts' = starts \ {u} /\ u \in starts
        /\ UNCHANGED << starter, clean, limit, runs, lost, schedule,
                        schedule_periods >>
    BY <1>2 DEF ForkStarterFails, reschedule_task, history
  <2>2. Limited(t) => Account(t)
    BY DEF Accounts
  <2>3. Waiting(t)' = Waiting(t)
    BY <2>1 DEF Waiting
  <2>4. \A q \in Starter : Writer(q, t)' =>
            Writer(q, t) /\ starter'[q].write = starter[q].write
    BY <2>1 DEF Writer
  <2>5. CASE t # u
    <3>1. Alive(t)' => Alive(t)
      BY <1>2, <2>1, <2>5
         DEF ForkStarterFails, reschedule_task, SetNextTime, Alive, HasSchedule,
             Types, RowType
    <3>2. InFlight(t)' <=> InFlight(t)
      BY <2>1, <2>5 DEF InFlight
    <3>3. Unmade(t)' = Unmade(t)
      BY <2>1, <2>3, <2>5 DEF Unmade
    <3>4. runs'[t] + Unmade(t)' <= runs[t] + Unmade(t)
      BY <2>1, <3>3, Numbers
    <3> QED
      BY <1>2, <2>1, <2>2, <2>4, <3>1, <3>2, <3>4, AccountKept
  <2>6. CASE t = u
    <3>1. InFlight(t)
      BY <2>1, <2>6 DEF InFlight
    <3>2. Unmade(t) = Unmade(t)' + 1
      BY <2>1, <2>3, <2>6, Numbers DEF Unmade
    <3> QED
      BY <1>2, <2>1, <2>2, <2>4, <3>1, <3>2, GivenUp
  <2> QED
    BY <2>5, <2>6
<1> QED
  BY <1>1, <1>2 DEF Accounts

\* A starter goes on as far as the start.
LEMMA GotoAccounts ==
    ASSUME Types, Types', Accounts, NEW p \in Starter, starter[p].pc \in WaitPC,
           NEW l, l \in WaitPC \/ l = "ok", GotoStarter(p, l),
           UNCHANGED << starts, clean, limit, lost, schedule, schedule_periods,
                        schedule_next_time >>,
           IF l = "ok" THEN runs' = [runs EXCEPT ![starter[p].task] = @ + 1]
                       ELSE runs' = runs
    PROVE  Accounts'
<1> SUFFICES ASSUME NEW t \in Task, Limited(t)' PROVE Account(t)'
  BY DEF Accounts
<1> DEFINE u == starter[p].task
           r == [starter[p] EXCEPT !.pc = l]
<1>1. starter' = [starter EXCEPT ![p] = r]
  BY DEF GotoStarter, Types, StarterType
<1>2. r.task = u /\ r.pc = l
  BY DEF Types, StarterType
<1>3. u \in Task
  <2>1. starter[p].pc # "free"
    BY DEF WaitPC
  <2> QED
    BY <2>1, StarterTask DEF Types
<1>4. Limited(t) => Account(t)
  BY DEF Accounts
<1> HIDE DEF u, r
<1>5. CASE t # u
  <2>1. runs'[t] = runs[t]
    BY <1>5 DEF Types, HistoryType, u
  <2>2. t # starter[p].task /\ t # r.task
    BY <1>2, <1>5 DEF u
  <2> QED
    BY <1>1, <1>4, <2>1, <2>2, OtherTask
<1>6. CASE t = u
  <2>1. \A q \in Starter : starter'[q] = IF q = p THEN r ELSE starter[q]
    BY <1>1 DEF Types, StarterType
  <2>2. InFlight(t) /\ InFlight(t)'
    BY <1>2, <1>6, <2>1 DEF InFlight, u
  <2>3. \A q \in Starter : Writer(q, t)' =>
            Writer(q, t) /\ starter'[q].write = starter[q].write
    BY <1>2, <2>1 DEF Writer, WaitPC
  <2>4. p \in Waiting(t)
    BY <1>6 DEF Waiting, u
  <2>5. runs'[t] + Unmade(t)' <= runs[t] + Unmade(t)
    <3>1. CASE l = "ok"
      <4>1. ~(r.pc \in WaitPC)
        BY <1>2, <3>1 DEF WaitPC
      <4>2. Cardinality(Waiting(t)) = Cardinality(Waiting(t)') + 1
        BY <1>1, <2>4, <4>1, WaitingChange
      <4>3. runs'[t] = runs[t] + 1
        BY <1>3, <1>6, <3>1 DEF u, Types, HistoryType
      <4>4. Unmade(t) = Unmade(t)' + 1
        BY <4>2, NumbersNext DEF Unmade
      <4> QED
        BY <4>3, <4>4, Numbers, NumbersNext
    <3>2. CASE l # "ok"
      <4>1. r.task = t /\ r.pc \in WaitPC
        BY <1>2, <1>6, <3>2
      <4>2. Waiting(t)' = Waiting(t)
        BY <1>1, <2>4, <4>1, WaitingChange
      <4>3. runs' = runs /\ Unmade(t)' = Unmade(t)
        BY <3>2, <4>2 DEF Unmade
      <4> QED
        BY <4>3, Numbers
    <3> QED
      BY <3>1, <3>2
  <2> QED
    BY <1>4, <2>2, <2>3, <2>5, AccountKept
<1> QED
  BY <1>5, <1>6

\* A starter fails.
LEMMA FailAccounts ==
    ASSUME Types, Types', Accounts, NEW p \in Starter, starter[p].pc \in WaitPC,
           EndStarter(p), reschedule_task(starter[p].task),
           UNCHANGED << starts, clean, limit, runs, lost >>
    PROVE  Accounts'
<1> SUFFICES ASSUME NEW t \in Task, Limited(t)' PROVE Account(t)'
  BY DEF Accounts
<1> DEFINE u == starter[p].task
<1>1. starter' = [starter EXCEPT ![p] = FreeStarter]
  BY DEF EndStarter
<1>2. FreeStarter.task = NoTask /\ FreeStarter.pc = "free"
  BY DEF FreeStarter
<1>3. Limited(t) => Account(t)
  BY DEF Accounts
<1>4. schedule' = schedule /\ schedule_periods' = schedule_periods
  BY DEF reschedule_task
<1> HIDE DEF u
<1>5. CASE t # u
  <2>1. schedule_next_time'[t] = schedule_next_time[t]
    BY <1>5 DEF reschedule_task, SetNextTime, Types, RowType, u
  <2>2. t # starter[p].task /\ t # FreeStarter.task
    BY <1>2, <1>5 DEF u
  <2> QED
    BY <1>1, <1>3, <1>4, <2>1, <2>2, OtherTask
<1>6. CASE t = u
  <2>1. \A q \in Starter : starter'[q] = IF q = p THEN FreeStarter ELSE starter[q]
    BY <1>1 DEF Types, StarterType
  <2>2. InFlight(t)
    BY <1>6 DEF InFlight, u
  <2>3. \A q \in Starter : Writer(q, t)' =>
            Writer(q, t) /\ starter'[q].write = starter[q].write
    BY <1>2, <2>1 DEF Writer
  <2>4. p \in Waiting(t)
    BY <1>6 DEF Waiting, u
  <2>5. Cardinality(Waiting(t)) = Cardinality(Waiting(t)') + 1
    <3>1. ~(FreeStarter.pc \in WaitPC)
      BY <1>2 DEF WaitPC
    <3> QED
      BY <1>1, <2>4, <3>1, WaitingChange
  <2>6. Unmade(t) = Unmade(t)' + 1
    BY <2>5, NumbersNext DEF Unmade
  <2> QED
    BY <1>3, <1>4, <2>2, <2>3, <2>6, GivenUp
<1> QED
  BY <1>5, <1>6

\* A starter that has started its task waits no more.
LEMMA SettleUnmade ==
    ASSUME Types, NEW p \in Starter, ~(starter[p].pc \in WaitPC),
           NEW r, ~(r.pc \in WaitPC), starter' = [starter EXCEPT ![p] = r],
           starts' = starts, NEW t \in Task
    PROVE  Unmade(t)' = Unmade(t)
<1>1. p \notin Waiting(t)
  BY DEF Waiting
<1>2. Waiting(t)' = Waiting(t)
  BY <1>1, WaitingChange
<1> QED
  BY <1>2 DEF Unmade

\* A starter reads the schedule of its task.
LEMMA ReadAccounts ==
    ASSUME Types, Types', Accounts, NEW p \in Starter, ReadSchedule(p)
    PROVE  Accounts'
<1> SUFFICES ASSUME NEW t \in Task, Limited(t)' PROVE Account(t)'
  BY DEF Accounts
<1> DEFINE u == starter[p].task
           r == [starter[p] EXCEPT !.pc = "write", !.write = Settlement(u)]
<1>1. starter' = [starter EXCEPT ![p] = r] /\ starter[p].pc = "ok"
  BY DEF ReadSchedule, Types, StarterType
<1>2. r.task = u /\ r.pc = "write" /\ r.write = Settlement(u)
  BY DEF Types, StarterType
<1>3. UNCHANGED << starts, clean, limit, runs, lost, schedule, schedule_periods,
                   schedule_next_time >>
  BY DEF ReadSchedule, daemon, db, history
<1>4. Limited(t) => Account(t)
  BY DEF Accounts
<1> HIDE DEF u, r
<1>5. CASE t # u
  <2>1. t # starter[p].task /\ t # r.task
    BY <1>2, <1>5 DEF u
  <2> QED
    BY <1>1, <1>3, <1>4, <2>1, OtherTask
<1>6. CASE t = u
  <2>1. \A q \in Starter : starter'[q] = IF q = p THEN r ELSE starter[q]
    BY <1>1 DEF Types, StarterType
  <2>2. InFlight(t) /\ InFlight(t)'
    BY <1>2, <1>6, <2>1 DEF InFlight, u
  <2>3. Unmade(t)' = Unmade(t)
    <3>1. ~(starter[p].pc \in WaitPC) /\ ~(r.pc \in WaitPC)
      BY <1>1, <1>2 DEF WaitPC
    <3>2. starts' = starts
      BY <1>3
    <3> QED
      BY <1>1, <3>1, <3>2, SettleUnmade
  <2>4. Account(t)
    BY <1>3, <1>4 DEF Limited
  <2>5. HasSchedule(t)' <=> HasSchedule(t)
    BY <1>3 DEF HasSchedule
  <2>6. /\ Unmade(t) \in Nat /\ runs[t] \in Nat /\ limit[t] \in Nat
        /\ lost[t] \in Nat /\ schedule_periods[t] \in Nat
    BY Numbers
  <2>7. /\ HasSchedule(t)' => schedule_periods'[t] >= 1
        /\ runs'[t] + Unmade(t)'
               + (IF HasSchedule(t)' THEN schedule_periods'[t] - 1 ELSE 0)
           <= limit'[t] + lost'[t]
    BY <1>3, <2>2, <2>3, <2>4, <2>5 DEF Account
  <2>8. ASSUME NEW q \in Starter, Writer(q, t)'
        PROVE  LET w == starter'[q].write IN
               /\ w.kind = "none" => ~HasSchedule(t)'
               /\ w.kind = "periods" =>
                     /\ w.n >= 1
                     /\ HasSchedule(t)' =>
                           runs'[t] + Unmade(t)' + w.n <= limit'[t] + lost'[t]
               /\ runs'[t] + Unmade(t)' <= limit'[t] + lost'[t]
    <3>1. CASE q = p
      <4> DEFINE w == Settlement(t)
      <4>1. starter'[q].write = w
        BY <1>2, <1>6, <2>1, <3>1
      <4>2. runs[t] + Unmade(t) <= limit[t] + lost[t]
        BY <2>2, <2>4, <2>6 DEF Account
      <4>3. w.kind = "none" => schedule_periods[t] = 0
        BY <2>6 DEF Settlement, NoWrite
      <4>4. w.kind = "periods" => schedule_periods[t] > 1 /\ w.n = schedule_periods[t] - 1
        BY <2>6 DEF Settlement, NoWrite
      <4>5. HasSchedule(t) => schedule_periods[t] >= 1
        BY <2>4 DEF Account
      <4>6. w.kind = "none" => ~HasSchedule(t)
        BY <2>6, <4>3, <4>5
      <4>7. w.kind = "periods" =>
                /\ w.n >= 1
                /\ HasSchedule(t) => runs[t] + Unmade(t) + w.n <= limit[t] + lost[t]
        BY <2>2, <2>4, <2>6, <4>4 DEF Account
      <4> HIDE DEF w
      <4> QED
        BY <1>3, <2>3, <2>5, <4>1, <4>2, <4>6, <4>7
    <3>2. CASE q # p
      <4>1. starter'[q] = starter[q] /\ Writer(q, t)
        BY <2>1, <2>8, <3>2 DEF Writer
      <4> QED
        BY <1>3, <2>3, <2>4, <2>5, <4>1 DEF Account
    <3> QED
      BY <3>1, <3>2
  <2> QED
    BY <2>2, <2>7, <2>8 DEF Account
<1> QED
  BY <1>5, <1>6

\* A starter settles the schedule of its task.
LEMMA WriteAccounts ==
    ASSUME Types, Types', Accounts, NEW p \in Starter, WriteSchedule(p)
    PROVE  Accounts'
<1> SUFFICES ASSUME NEW t \in Task, Limited(t)' PROVE Account(t)'
  BY DEF Accounts
<1> DEFINE u == starter[p].task
           w == starter[p].write
<1>1. starter' = [starter EXCEPT ![p] = FreeStarter] /\ starter[p].pc = "write"
  BY DEF WriteSchedule, EndStarter
<1>2. FreeStarter.task = NoTask /\ FreeStarter.pc = "free"
  BY DEF FreeStarter
<1>3. UNCHANGED << starts, clean, limit, runs, lost >>
  BY DEF WriteSchedule, daemon, history
<1>4. Limited(t) => Account(t)
  BY DEF Accounts
<1>5. w.kind \in {"none", "remove", "periods", "flag"} /\ w.n \in Nat
  BY DEF Types, StarterType, Write
<1>6. u \in Task
  BY <1>1, StarterTask DEF Types
<1>7. \/ w.kind = "remove" /\ set_task_schedule(u, NoSchedule, w.n)
      \/ /\ w.kind = "periods"
         /\ schedule_periods' = [schedule_periods EXCEPT ![u] = w.n]
         /\ UNCHANGED << schedule, schedule_next_time >>
      \/ /\ w.kind = "flag"
         /\ schedule_next_time' = [schedule_next_time EXCEPT ![u] = NoTime]
         /\ UNCHANGED << schedule, schedule_periods >>
      \/ w.kind = "none" /\ UNCHANGED << schedule, schedule_periods, schedule_next_time >>
  BY <1>5 DEF WriteSchedule, SetNextTime, db
<1> HIDE DEF u, w
<1>8. CASE t # u
  <2>1. /\ schedule'[t] = schedule[t] /\ schedule_periods'[t] = schedule_periods[t]
        /\ schedule_next_time'[t] = schedule_next_time[t]
    BY <1>7, <1>8 DEF set_task_schedule, SetNextTime, Types, RowType
  <2>2. t # starter[p].task /\ t # FreeStarter.task
    BY <1>2, <1>8 DEF u
  <2> QED
    BY <1>1, <1>3, <1>4, <2>1, <2>2, OtherTask
<1>9. CASE t = u
  <2>1. \A q \in Starter : starter'[q] = IF q = p THEN FreeStarter ELSE starter[q]
    BY <1>1 DEF Types, StarterType
  <2>2. InFlight(t) /\ Writer(p, t)
    BY <1>1, <1>9 DEF InFlight, Writer, u
  <2>3. Unmade(t)' = Unmade(t)
    <3>1. ~(starter[p].pc \in WaitPC) /\ ~(FreeStarter.pc \in WaitPC)
      BY <1>1, <1>2 DEF WaitPC
    <3>2. starts' = starts
      BY <1>3
    <3> QED
      BY <1>1, <3>1, <3>2, SettleUnmade
  <2>4. Account(t)
    BY <1>3, <1>4 DEF Limited
  <2>5. /\ Unmade(t) \in Nat /\ runs[t] \in Nat /\ limit[t] \in Nat
        /\ lost[t] \in Nat /\ schedule_periods[t] \in Nat
    BY Numbers
  <2>6. /\ w.kind = "none" => ~HasSchedule(t)
        /\ w.kind = "periods" =>
              /\ w.n >= 1
              /\ HasSchedule(t) => runs[t] + Unmade(t) + w.n <= limit[t] + lost[t]
        /\ runs[t] + Unmade(t) <= limit[t] + lost[t]
    BY <2>2, <2>4 DEF Account, w
  <2>7. /\ HasSchedule(t)' => HasSchedule(t)
        /\ w.kind = "remove" => ~HasSchedule(t)'
        /\ w.kind # "remove" => (HasSchedule(t)' <=> HasSchedule(t))
    BY <1>6, <1>7, <1>9 DEF HasSchedule, set_task_schedule, Types, RowType
  <2>8. HasSchedule(t)' =>
            schedule_periods'[t] = IF w.kind = "periods" THEN w.n ELSE schedule_periods[t]
    BY <1>6, <1>7, <1>9, <2>7 DEF Types, RowType
  <2>9. Alive(t)' => HasSchedule(t)' /\ w.kind = "periods"
    BY <1>6, <1>7, <1>9, <2>6, <2>7 DEF Alive, Types, RowType
  <2>10. HasSchedule(t)' => schedule_periods'[t] >= 1
    BY <2>4, <2>6, <2>7, <2>8 DEF Account
  <2>11. runs'[t] + Unmade(t)'
            + (IF HasSchedule(t)' THEN schedule_periods'[t] - 1 ELSE 0)
         <= limit'[t] + lost'[t]
    <3>1. runs[t] + Unmade(t) + (IF HasSchedule(t) THEN schedule_periods[t] - 1 ELSE 0)
          <= limit[t] + lost[t]
      BY <2>2, <2>4 DEF Account
    <3> QED
      BY <1>3, <1>5, <2>3, <2>5, <2>6, <2>7, <2>8, <3>1
  <2>12. runs'[t] + (IF Alive(t)' THEN schedule_periods'[t] ELSE 0)
         <= limit'[t] + lost'[t]
    BY <1>3, <1>5, <2>5, <2>6, <2>7, <2>8, <2>9
  <2>13. ASSUME NEW q \in Starter, Writer(q, t)'
         PROVE  LET v == starter'[q].write IN
                /\ v.kind = "none" => ~HasSchedule(t)'
                /\ v.kind = "periods" =>
                      /\ v.n >= 1
                      /\ HasSchedule(t)' =>
                            runs'[t] + Unmade(t)' + v.n <= limit'[t] + lost'[t]
                /\ runs'[t] + Unmade(t)' <= limit'[t] + lost'[t]
    <3>1. starter'[q] = starter[q] /\ Writer(q, t)
      BY <1>2, <2>1, <2>13 DEF Writer
    <3> QED
      BY <1>3, <2>3, <2>4, <2>7, <3>1 DEF Account
  <2> QED
    BY <2>10, <2>11, <2>12, <2>13 DEF Account
<1> QED
  BY <1>8, <1>9

\* The starters.
LEMMA StarterAccounts ==
    ASSUME Types, Types', Accounts, NEW p \in Starter,
           StarterStep(p) \/ ForkConnectionFails(p) \/ LoginFails(p)
    PROVE  Accounts'
<1> USE DEF daemon, db, history, asked
<1>1. CASE ForkConnection(p) \/ LoginFails(p)
  <2>1. \/ starter[p].pc = "forked" /\ GotoStarter(p, "resume")
        \/ starter[p].pc = "resume" /\ GotoStarter(p, "failed")
    BY <1>1 DEF ForkConnection, LoginFails
  <2>2. UNCHANGED << starts, clean, limit, runs, lost, schedule, schedule_periods,
                     schedule_next_time >>
    BY <1>1 DEF ForkConnection, LoginFails
  <2>3. starter[p].pc \in WaitPC /\ "resume" \in WaitPC /\ "failed" \in WaitPC
    BY <2>1 DEF WaitPC
  <2> QED
    BY <2>1, <2>2, <2>3, GotoAccounts
<1>2. CASE ResumeTask(p) \/ StartTask(p)
  <2>1. \/ /\ GotoStarter(p, "ok")
           /\ runs' = [runs EXCEPT ![starter[p].task] = @ + 1]
        \/ (GotoStarter(p, "start") \/ GotoStarter(p, "failed")) /\ runs' = runs
    BY <1>2 DEF ResumeTask, StartTask, Started
  <2>2. UNCHANGED << starts, clean, limit, lost, schedule, schedule_periods,
                     schedule_next_time >>
    BY <1>2 DEF ResumeTask, StartTask
  <2>3. starter[p].pc \in WaitPC /\ "start" \in WaitPC /\ "failed" \in WaitPC
    BY <1>2 DEF WaitPC, ResumeTask, StartTask
  <2> QED
    BY <2>1, <2>2, <2>3, GotoAccounts
<1>3. CASE StarterFailed(p) \/ ForkConnectionFails(p)
  <2>1. /\ starter[p].pc \in WaitPC /\ EndStarter(p)
        /\ reschedule_task(starter[p].task)
        /\ UNCHANGED << starts, clean, limit, runs, lost >>
    BY <1>3 DEF StarterFailed, ForkConnectionFails, WaitPC
  <2> QED
    BY <2>1, FailAccounts
<1> QED
  BY <1>1, <1>2, <1>3, ReadAccounts, WriteAccounts DEF StarterStep

\* A task that a client asks to schedule while no start of it is in flight.
LEMMA AskedAccount ==
    ASSUME Types, Types', UNCHANGED << starts, starter >>, NEW t \in Task,
           clean'[t] = ~InFlight(t), runs'[t] = 0, lost'[t] = 0,
           limit'[t] = schedule_periods'[t], Limited(t)'
    PROVE  Account(t)'
<1>1. ~InFlight(t) /\ limit'[t] > 0
  BY DEF Limited
<1>2. ~InFlight(t)'
  BY <1>1 DEF InFlight
<1>3. \A p \in Starter : ~Writer(p, t)'
  BY <1>2 DEF InFlight, Writer
<1> QED
  BY <1>1, <1>2, <1>3, NumbersNext DEF Account

\* A client asks for a schedule.
LEMMA ModifyAccounts ==
    ASSUME Types, Types', Accounts,
           \/ \E t \in Task, s \in ScheduleId \cup {NoSchedule}, n \in 0 .. 2 :
                 ModifyTask(t, s, n)
           \/ \E s \in ScheduleId, d \in Def : ModifySchedule(s, d)
    PROVE  Accounts'
<1>1. PICK T, b, f :
        /\ Asked(T, b, f) /\ UNCHANGED << starts, starter >>
        /\ \A t \in Task \cap T : f[t] = schedule_periods'[t]
        /\ \A t \in Task \ T : /\ schedule'[t] = schedule[t]
                              /\ schedule_periods'[t] = schedule_periods[t]
                              /\ schedule_next_time'[t] = schedule_next_time[t]
  <2>1. ASSUME NEW u \in Task, NEW s \in ScheduleId \cup {NoSchedule},
               NEW n \in 0 .. 2, ModifyTask(u, s, n)
        PROVE  /\ Asked({u}, s # NoSchedule /\ def[s].period = 0, [v \in Task |-> n])
               /\ UNCHANGED << starts, starter >>
               /\ \A t \in Task \cap {u} : [v \in Task |-> n][t] = schedule_periods'[t]
               /\ \A t \in Task \ {u} :
                     /\ schedule'[t] = schedule[t]
                     /\ schedule_periods'[t] = schedule_periods[t]
                     /\ schedule_next_time'[t] = schedule_next_time[t]
    <3>1. /\ schedule' = [schedule EXCEPT ![u] = s]
          /\ schedule_periods' = [schedule_periods EXCEPT ![u] = n]
          /\ \E x : schedule_next_time' = [schedule_next_time EXCEPT ![u] = x]
      BY <2>1 DEF ModifyTask, set_task_schedule, SetNextTime
    <3>2. /\ Asked({u}, s # NoSchedule /\ def[s].period = 0, [v \in Task |-> n])
          /\ UNCHANGED << starts, starter >>
      BY <2>1 DEF ModifyTask, daemon
    <3> QED
      BY <3>1, <3>2 DEF Types, RowType
  <2>2. ASSUME NEW s \in ScheduleId, NEW d \in Def, ModifySchedule(s, d)
        PROVE  /\ Asked({t \in Task : schedule[t] = s}, d.period = 0, schedule_periods)
               /\ UNCHANGED << starts, starter >>
               /\ schedule' = schedule /\ schedule_periods' = schedule_periods
               /\ \A t \in Task \ {v \in Task : schedule[v] = s} :
                     schedule_next_time'[t] = schedule_next_time[t]
    BY <2>2 DEF ModifySchedule, daemon
  <2> QED
    BY <2>1, <2>2
<1> SUFFICES ASSUME NEW t \in Task, Limited(t)' PROVE Account(t)'
  BY DEF Accounts
<1>2. CASE t \in T
  <2>1. /\ clean'[t] = ~InFlight(t) /\ runs'[t] = 0 /\ lost'[t] = 0
        /\ limit'[t] = schedule_periods'[t]
    BY <1>1, <1>2 DEF Asked
  <2> QED
    BY <1>1, <2>1, AskedAccount
<1>3. CASE t \notin T
  <2>1. /\ clean'[t] = clean[t] /\ runs'[t] = runs[t] /\ lost'[t] = lost[t]
        /\ limit'[t] = limit[t]
    BY <1>1, <1>3 DEF Asked
  <2>2. /\ InFlight(t)' <=> InFlight(t)
        /\ \A p \in Starter : Writer(p, t)' =>
               Writer(p, t) /\ starter'[p].write = starter[p].write
    BY <1>1 DEF InFlight, Writer
  <2>3. Unmade(t)' = Unmade(t)
    BY <1>1 DEF Unmade, Waiting
  <2>4. runs'[t] + Unmade(t)' <= runs[t] + Unmade(t)
    BY <2>1, <2>3, Numbers
  <2>5. schedule'[t] = schedule[t] /\ schedule_periods'[t] = schedule_periods[t]
    BY <1>1, <1>3
  <2>6. Alive(t)' => Alive(t)
    BY <1>1, <1>3 DEF Alive, HasSchedule
  <2>7. Limited(t) => Account(t)
    BY DEF Accounts
  <2> QED
    BY <2>1, <2>2, <2>4, <2>5, <2>6, <2>7, AccountKept
<1> QED
  BY <1>2, <1>3

\* A crash: every start in flight is over.
LEMMA CrashAccounts ==
    ASSUME Types, Types', Accounts, Crash
    PROVE  Accounts'
<1> SUFFICES ASSUME NEW t \in Task, Limited(t)' PROVE Account(t)'
  BY DEF Accounts
<1> DEFINE made == {p \in Starter : starter[p].task = t /\ starter[p].pc \in {"ok", "write"}}
<1>1. /\ UNCHANGED << clean, limit, runs, schedule, schedule_periods,
                      schedule_next_time >>
      /\ lost'[t] = lost[t] + Cardinality(made)
      /\ starts' = {} /\ starter' = [p \in Starter |-> FreeStarter]
  BY DEF Crash, asked, db
<1>2. Account(t)
  BY <1>1 DEF Accounts, Limited
<1>3. ~InFlight(t)' /\ \A p \in Starter : ~Writer(p, t)'
  BY <1>1 DEF InFlight, Writer, FreeStarter
<1>4. (Alive(t)' <=> Alive(t)) /\ (HasSchedule(t)' <=> HasSchedule(t))
  BY <1>1 DEF Alive, HasSchedule
<1>5. /\ Unmade(t) \in Nat /\ runs[t] \in Nat /\ limit[t] \in Nat
      /\ lost[t] \in Nat /\ schedule_periods[t] \in Nat
  BY Numbers
<1>6. IsFiniteSet(made) /\ Cardinality(made) \in Nat
  BY CountType
<1>7. InFlight(t) => Unmade(t) + Cardinality(made) >= 1
  <2> SUFFICES ASSUME InFlight(t), t \notin starts
               PROVE  Unmade(t) + Cardinality(made) >= 1
    BY <1>6, Numbers DEF Unmade
  <2>1. PICK p \in Starter : starter[p].task = t
    BY DEF InFlight
  <2>2. starter[p].pc \in WaitPC \/ starter[p].pc \in {"ok", "write"}
    BY <2>1 DEF Types, StarterType, StarterPC, WaitPC
  <2>3. CASE starter[p].pc \in WaitPC
    <3>1. p \in Waiting(t) /\ IsFiniteSet(Waiting(t))
      BY <2>1, <2>3, CountType DEF Waiting
    <3>2. Cardinality(Waiting(t)) # 0
      BY <3>1, FS_EmptySet
    <3>3. Unmade(t) # 0
      BY <3>2, Numbers DEF Unmade
    <3> QED
      BY <1>5, <1>6, <3>3
  <2>4. CASE starter[p].pc \in {"ok", "write"}
    <3>1. p \in made
      BY <2>1, <2>4
    <3>2. Cardinality(made) # 0
      BY <1>6, <3>1, FS_EmptySet
    <3> QED
      BY <1>5, <1>6, <3>2
  <2> QED
    BY <2>2, <2>3, <2>4
<1> HIDE DEF made
<1>8. runs'[t] + (IF Alive(t)' THEN schedule_periods'[t] ELSE 0) <= limit'[t] + lost'[t]
  <2>1. Alive(t) => HasSchedule(t)
    BY DEF Alive
  <2> QED
    BY <1>1, <1>2, <1>4, <1>5, <1>6, <1>7, <2>1 DEF Account
<1>9. HasSchedule(t)' => schedule_periods'[t] >= 1
  BY <1>1, <1>2, <1>4 DEF Account
<1> QED
  BY <1>3, <1>8, <1>9 DEF Account

-----------------------------------------------------------------------------
(***************************************************************************)
(* The theorems.                                                           *)
(***************************************************************************)
\* The inductive invariant.
IInv == Types /\ Accounts

LEMMA InitIInv == Init => IInv
<1> SUFFICES ASSUME Init PROVE Accounts
  BY InitType DEF IInv
<1> QED
  BY DEF Init, Accounts, Limited

LEMMA NextIInv == IInv /\ [Next]_vars => IInv'
<1> SUFFICES ASSUME Types, Accounts, [Next]_vars PROVE Types' /\ Accounts'
  BY DEF IInv
<1>1. Types'
  BY NextType
<1>2. CASE UNCHANGED vars
  BY <1>1, <1>2, QuietAccounts
<1>3. CASE Next
  BY <1>1, <1>3, CollectAccounts, ForkAccounts, QuietAccounts, StarterAccounts,
     ModifyAccounts, CrashAccounts DEF Next, MainStep
<1> QED
  BY <1>1, <1>2, <1>3

\* The types and the accounts hold of every reachable state of the scheduler.
THEOREM Invariance == Spec => []IInv
BY InitIInv, NextIInv, PTL DEF Spec

\* What manage_schedule, its starters and the clients write keeps its type.
THEOREM ScheduleTypeCorrect == Spec => []TypeOK
<1>1. IInv => TypeOK
  BY TypesOK DEF IInv
<1> QED
  BY <1>1, Invariance, PTL

\* A schedule with a limited number of periods starts its task no more often than
\* that, whichever way starters, rounds, clients and crashes interleave: but for
\* starts that a crash kept from being counted, and rounds that found the task due
\* again before the starter of an earlier round had counted its own start.
THEOREM LimitRespected == Spec => []PeriodsRespected
<1>1. IInv => PeriodsRespected
  <2> SUFFICES ASSUME Types, Accounts, NEW t \in Task, clean[t], limit[t] > 0
               PROVE  runs[t] <= limit[t] + lost[t]
    BY DEF IInv, PeriodsRespected
  <2>1. Account(t)
    BY DEF Accounts, Limited
  <2>2. /\ Unmade(t) \in Nat /\ runs[t] \in Nat /\ limit[t] \in Nat
        /\ lost[t] \in Nat /\ schedule_periods[t] \in Nat
    BY Numbers
  <2> QED
    BY <2>1, <2>2 DEF Account
<1> QED
  BY <1>1, Invariance, PTL

-----------------------------------------------------------------------------
(***************************************************************************)
(* Once-off schedules.                                                     *)
(***************************************************************************)

\* A step that decides on no start, makes none and gives none up.
LEMMA OnceKept ==
    ASSUME Types, Types', NEW t \in Task, Once(t), now' >= now, runs'[t] = runs[t],
           Waiting(t)' = Waiting(t), t \in starts' <=> t \in starts,
           InFlight(t)' => InFlight(t),
           HasSchedule(t)' =>
              /\ HasSchedule(t) /\ TaskDef(t)' = TaskDef(t)
              /\ schedule_next_time'[t] \in {schedule_next_time[t], NoTime},
           \A p \in Starter : Made(p, t)' => \E q \in Starter : Made(q, t)
    PROVE  Once(t)'
<1>1. now \in Nat /\ now' \in Nat
  BY DEF Types, MainType
<1>2. HasSchedule(t) => TaskDef(t).first \in Nat
  BY DefType DEF Types, RowType, HasSchedule, TaskDef
<1>3. HasSchedule(t)' =>
         /\ TaskDef(t)'.period = 0
         /\ \/ TaskDef(t)'.first < now'
            \/ ~InFlight(t)' /\ schedule_next_time'[t] \in {NoTime, TaskDef(t)'.first}
  BY <1>1, <1>2 DEF Once
<1>4. Alive(t)' => ~InFlight(t)' /\ runs'[t] = 0
  <2>1. Alive(t)' => Alive(t)
    BY DEF Alive
  <2> QED
    BY <2>1 DEF Once
<1>5. \A p \in Starter : Made(p, t)' => runs'[t] > 0
  BY DEF Once
<1>6. /\ t \in starts' => Waiting(t)' = {}
      /\ t \in starts' \/ Waiting(t)' # {} => runs'[t] = 0
      /\ \A p, q \in Waiting(t)' : p = q
      /\ runs'[t] <= 1
  BY DEF Once
<1> QED
  BY <1>3, <1>4, <1>5, <1>6 DEF Once

\* A step of a starter does not touch the other tasks.
LEMMA OnceOther ==
    ASSUME Types, Types', NEW p \in Starter, NEW r, starter' = [starter EXCEPT ![p] = r],
           NEW t \in Task, t # starter[p].task, t # r.task, Once(t),
           now' = now, t \in starts' <=> t \in starts, runs'[t] = runs[t], def' = def,
           schedule'[t] = schedule[t], schedule_next_time'[t] = schedule_next_time[t]
    PROVE  Once(t)'
<1>1. \A q \in Starter : starter'[q] = IF q = p THEN r ELSE starter[q]
  BY DEF Types, StarterType
<1>2. Waiting(t)' = Waiting(t)
  BY <1>1 DEF Waiting
<1>3. InFlight(t)' => InFlight(t)
  BY <1>1 DEF InFlight
<1>4. \A q \in Starter : Made(q, t)' => Made(q, t)
  BY <1>1 DEF Made
<1>5. HasSchedule(t)' =>
        /\ HasSchedule(t) /\ TaskDef(t)' = TaskDef(t)
        /\ schedule_next_time'[t] \in {schedule_next_time[t], NoTime}
  BY DEF HasSchedule, TaskDef
<1>6. now' >= now
  BY DEF Types, MainType
<1> QED
  BY <1>2, <1>3, <1>4, <1>5, <1>6, OnceKept

\* The steps that have nothing to do with starts.
LEMMA QuietOnce ==
    ASSUME Types, Types', NEW t \in Task, Once(t),
           \/ StartsForked \/ EndRound \/ Tick
           \/ \E u \in Task :
                 \/ ForkStopper(u) \/ ForkStopperFails(u)
                 \/ StopperStops(u) \/ StopperFails(u)
                 \/ ScanBegins(u) \/ ScanEnds(u)
                 \/ ClientStarts(u) \/ ClientStops(u)
           \/ UNCHANGED vars
    PROVE  Once(t)'
<1>1. UNCHANGED << starts, starter, runs, def >>
  BY DEF StartsForked, EndRound, Tick, ForkStopper, ForkStopperFails, StopperStops,
         StopperFails, ScanBegins, ScanEnds, ClientStarts, ClientStops, vars,
         daemon, history
<1>2. \/ UNCHANGED << schedule, schedule_next_time >>
      \/ \E T : Detach(T)
  BY DEF StartsForked, EndRound, Tick, ForkStopper, ForkStopperFails, StopperStops,
         StopperFails, ScanBegins, ScanEnds, ClientStarts, ClientStops, vars, db
<1>3. HasSchedule(t)' =>
        /\ HasSchedule(t) /\ TaskDef(t)' = TaskDef(t)
        /\ schedule_next_time'[t] \in {schedule_next_time[t], NoTime}
  <2>1. CASE UNCHANGED << schedule, schedule_next_time >>
    BY <1>1, <2>1 DEF HasSchedule, TaskDef
  <2>2. ASSUME NEW T, Detach(T)
        PROVE  HasSchedule(t)' =>
                 /\ HasSchedule(t) /\ schedule'[t] = schedule[t]
                 /\ schedule_next_time'[t] = schedule_next_time[t]
    BY <2>2 DEF Detach, HasSchedule
  <2> QED
    BY <1>1, <1>2, <2>1, <2>2 DEF TaskDef
<1>4. now' >= now
  <2>1. now' = now \/ now' = now + SCHEDULE_PERIOD
    BY DEF StartsForked, EndRound, Tick, ForkStopper, ForkStopperFails, StopperStops,
           StopperFails, ScanBegins, ScanEnds, ClientStarts, ClientStops, vars
  <2> QED
    BY <2>1 DEF Types, MainType
<1>5. /\ Waiting(t)' = Waiting(t) /\ (InFlight(t)' <=> InFlight(t))
      /\ \A p \in Starter : Made(p, t)' => Made(p, t)
  BY <1>1 DEF Waiting, InFlight, Made
<1> QED
  BY <1>1, <1>3, <1>4, <1>5, OnceKept

\* After its time a once-off schedule has no next time.
LEMMA NoNextTime ==
    ASSUME OffRounds, NEW d \in Def, d.period = 0, now \in Nat
    PROVE  /\ d.first < now => icalendar_next_time_from_string(d, 0) = NoTime
           /\ icalendar_next_time_from_string(d, 0) \in {NoTime, d.first}
           /\ next_time(d.first, d.period, now, 0) \in {NoTime, d.first}
<1>1. Rule(d) = {d.first} /\ d.rdates = {} /\ d.first \in Nat
  BY DefType DEF Rule, OffRounds
<1> DEFINE S == {t \in Rule(d) \ d.exdates : t >= now}
           R == {t \in d.rdates : t > now}
<1>2. S \subseteq {d.first} /\ R = {} /\ S \subseteq Nat
  BY <1>1
<1>3. d.first < now => S = {}
  BY <1>1
<1>4. Earliest(R) = NoTime /\ (S = {} => Earliest(S) = NoTime)
  BY <1>2 DEF Earliest
<1>5. Earliest(S) \in {NoTime, d.first}
  BY <1>2, <1>4, EarliestType
<1>6. icalendar_next_time_from_string(d, 0) = Earliest(S)
  <2>1. icalendar_next_time_from_rdates(d.rdates, now, 0) = Earliest(R)
    BY DEF icalendar_next_time_from_rdates
  <2> HIDE DEF R
  <2> QED
    BY <1>4, <2>1
       DEF icalendar_next_time_from_string, icalendar_next_time_from_recurrence
<1>7. next_time(d.first, d.period, now, 0) \in {NoTime, d.first}
  BY DEF next_time
<1> HIDE DEF S
<1> QED
  BY <1>3, <1>4, <1>5, <1>6, <1>7

\* A round that finds the task due leaves it no next time.
LEMMA CollectOnce ==
    ASSUME OffRounds, OnRound, Types, Types', CollectDue, NEW t \in Task, Once(t)
    PROVE  Once(t)'
<1>1. UNCHANGED << now, def, schedule, starter, runs >> /\ now \in Nat
  BY DEF CollectDue, Types, MainType
<1>2. starts = {}
  BY DEF CollectDue, Types, MainInv
<1>3. /\ HasSchedule(t)' <=> HasSchedule(t)
      /\ TaskDef(t)' = TaskDef(t) /\ Waiting(t)' = Waiting(t)
      /\ \A p \in Starter : Made(p, t)' <=> Made(p, t)
  BY <1>1 DEF HasSchedule, TaskDef, Waiting, Made
<1>4. CASE HasSchedule(t) /\ start_due(t)
  <2>1. Alive(t) /\ schedule_next_time[t] <= now
    BY <1>4 DEF Alive, start_due
  <2>2. TaskDef(t) \in Def /\ TaskDef(t).period = 0 /\ TaskDef(t).first \in Nat
    BY <1>4, DefType DEF HasSchedule, TaskDef, Types, RowType, Once
  <2>3. TaskDef(t).first # now
    BY <2>2 DEF OffRounds, OnRound
  <2>4. TaskDef(t).first < now
    BY <1>1, <1>4, <2>1, <2>2, <2>3 DEF Once, Alive
  <2>5. schedule_next_time'[t] = NoTime
    BY <1>1, <1>4, <2>2, <2>4, NoNextTime DEF CollectDue
  <2>6. ~Alive(t)' /\ TaskDef(t)'.first < now' /\ TaskDef(t)'.period = 0
    BY <1>1, <1>3, <2>2, <2>4, <2>5 DEF Alive
  <2>7. ~InFlight(t) /\ runs[t] = 0
    BY <2>1 DEF Once
  <2>8. Waiting(t)' = {} /\ \A p \in Starter : ~Made(p, t)'
    BY <1>3, <2>7 DEF InFlight, Waiting, Made
  <2> QED
    BY <1>1, <2>6, <2>7, <2>8 DEF Once
<1>5. CASE ~(HasSchedule(t) /\ start_due(t))
  <2>1. t \notin starts' /\ schedule_next_time'[t] = schedule_next_time[t]
    BY <1>5 DEF CollectDue
  <2>2. InFlight(t)' => InFlight(t)
    BY <1>1, <2>1 DEF InFlight
  <2>3. now' >= now
    BY <1>1
  <2>4. t \notin starts
    BY <1>2
  <2> QED
    BY <1>1, <1>3, <2>1, <2>2, <2>3, <2>4, OnceKept
<1> QED
  BY <1>4, <1>5

\* The main process forks a starter, or fails to.
LEMMA ForkOnce ==
    ASSUME Types, Types', NEW u \in Task, NEW t \in Task, Once(t),
           (\E p \in Starter : ForkStarter(u, p)) \/ ForkStarterFails(u)
    PROVE  Once(t)'
<1>1. /\ u \in starts /\ starts' = starts \ {u}
      /\ UNCHANGED << now, def, schedule, runs >> /\ now \in Nat \ {0}
  BY NowType DEF ForkStarter, ForkStarterFails, reschedule_task, history, db, Types
<1>2. HasSchedule(t)' <=> HasSchedule(t)
  BY <1>1 DEF HasSchedule
<1>3. TaskDef(t)' = TaskDef(t)
  BY <1>1 DEF TaskDef
<1>4. ASSUME NEW p \in Starter, ForkStarter(u, p) PROVE Once(t)'
  <2>1. starter' = [starter EXCEPT ![p] = Forked(u)] /\ UNCHANGED schedule_next_time
    BY <1>4 DEF ForkStarter, Forked, db
  <2>2. starter[p].task = NoTask /\ starter[p].pc = "free"
    BY <1>4 DEF ForkStarter, Types, StarterType
  <2>3. Forked(u).task = u /\ Forked(u).pc = "forked"
    BY <1>1, ForkedType
  <2>4. CASE t # u
    <3>1. t # starter[p].task /\ t # Forked(u).task
      BY <2>2, <2>3, <2>4
    <3>2. t \in starts' <=> t \in starts
      BY <1>1, <2>4
    <3> QED
      BY <1>1, <2>1, <3>1, <3>2, OnceOther
  <2>5. CASE t = u
    <3>1. \A q \in Starter : starter'[q] = IF q = p THEN Forked(u) ELSE starter[q]
      BY <2>1 DEF Types, StarterType
    <3>2. InFlight(t) /\ Waiting(t) = {} /\ runs[t] = 0 /\ t \notin starts'
      BY <1>1, <2>5 DEF InFlight, Once
    <3>3. Waiting(t)' \subseteq {p}
      BY <3>1, <3>2 DEF Waiting
    <3>4. \A q \in Starter : ~Made(q, t)'
      <4>1. \A q \in Starter : ~Made(q, t)
        BY <3>2 DEF Once
      <4>2. ~Made(p, t)'
        BY <2>3, <3>1 DEF Made
      <4> QED
        BY <3>1, <4>1, <4>2 DEF Made
    <3>5. ~Alive(t)'
      BY <1>2, <2>1, <3>2 DEF Alive, Once
    <3>6. HasSchedule(t)' => TaskDef(t)'.period = 0 /\ TaskDef(t)'.first < now'
      BY <1>1, <1>2, <1>3, <3>2 DEF Once
    <3> QED
      BY <1>1, <3>2, <3>3, <3>4, <3>5, <3>6 DEF Once
  <2> QED
    BY <2>4, <2>5
<1>5. CASE ForkStarterFails(u)
  <2>1. /\ starter' = starter
        /\ schedule_next_time' = [schedule_next_time EXCEPT ![u] = now - 1]
    BY <1>5 DEF ForkStarterFails, reschedule_task, SetNextTime
  <2>2. Waiting(t)' = Waiting(t) /\ \A p \in Starter : Made(p, t)' <=> Made(p, t)
    BY <2>1 DEF Waiting, Made
  <2>3. CASE t # u
    <3>1. InFlight(t)' => InFlight(t)
      BY <1>1, <2>1 DEF InFlight
    <3>2. schedule_next_time'[t] = schedule_next_time[t]
      BY <2>1, <2>3 DEF Types, RowType
    <3>3. (t \in starts' <=> t \in starts) /\ now' >= now
      BY <1>1, <2>3
    <3> QED
      BY <1>1, <1>2, <1>3, <2>2, <3>1, <3>2, <3>3, OnceKept
  <2>4. CASE t = u
    <3>1. InFlight(t) /\ Waiting(t) = {} /\ runs[t] = 0 /\ t \notin starts'
      BY <1>1, <2>4 DEF InFlight, Once
    <3>2. \A q \in Starter : ~Made(q, t)
      BY <3>1 DEF Once
    <3>3. ~InFlight(t)'
      <4>1. \A q \in Starter : starter[q].task # t
        BY <3>1, <3>2 DEF Types, StarterType, StarterPC, Waiting, WaitPC, Made
      <4> QED
        BY <2>1, <3>1, <4>1 DEF InFlight
    <3>4. HasSchedule(t)' => TaskDef(t)'.period = 0 /\ TaskDef(t)'.first < now'
      BY <1>1, <1>2, <1>3, <3>1 DEF Once
    <3> QED
      BY <1>1, <2>2, <3>1, <3>2, <3>3, <3>4 DEF Once
  <2> QED
    BY <2>3, <2>4
<1> QED
  BY <1>4, <1>5

\* A starter goes on as far as the start: the only one of its task.
LEMMA GotoOnce ==
    ASSUME Types, Types', NEW p \in Starter, starter[p].pc \in WaitPC,
           NEW l, l \in WaitPC \/ l = "ok", GotoStarter(p, l),
           UNCHANGED << now, def, starts, schedule, schedule_next_time >>,
           IF l = "ok" THEN runs' = [runs EXCEPT ![starter[p].task] = @ + 1]
                       ELSE runs' = runs,
           NEW t \in Task, Once(t)
    PROVE  Once(t)'
<1> DEFINE u == starter[p].task
           r == [starter[p] EXCEPT !.pc = l]
<1>1. starter' = [starter EXCEPT ![p] = r]
  BY DEF GotoStarter, Types, StarterType
<1>2. r.task = u /\ r.pc = l
  BY DEF Types, StarterType
<1>3. u \in Task
  <2>1. starter[p].pc # "free"
    BY DEF WaitPC
  <2> QED
    BY <2>1, StarterTask DEF Types
<1> HIDE DEF u, r
<1>4. CASE t # u
  <2>1. runs'[t] = runs[t]
    BY <1>4 DEF Types, HistoryType, u
  <2>2. t # starter[p].task /\ t # r.task
    BY <1>2, <1>4 DEF u
  <2> QED
    BY <1>1, <2>1, <2>2, OnceOther
<1>5. CASE t = u
  <2>1. \A q \in Starter : starter'[q] = IF q = p THEN r ELSE starter[q]
    BY <1>1 DEF Types, StarterType
  <2>2. InFlight(t) /\ p \in Waiting(t)
    BY <1>5 DEF InFlight, Waiting, u
  <2>3. runs[t] = 0 /\ t \notin starts /\ \A q \in Waiting(t) : q = p
    BY <2>2 DEF Once
  <2>4. HasSchedule(t)' => TaskDef(t)'.period = 0 /\ TaskDef(t)'.first < now'
    BY <2>2 DEF Once, HasSchedule, TaskDef
  <2>5. ~Alive(t)'
    BY <2>2 DEF Once, Alive, HasSchedule
  <2>6. \A q \in Waiting(t)' : q = p
    BY <2>1, <2>3 DEF Waiting
  <2>7. \A q \in Starter : ~Made(q, t)
    BY <2>3 DEF Once
  <2>8. \A q \in Starter : Made(q, t)' => q = p /\ l = "ok"
    BY <1>2, <2>1, <2>7 DEF Made, WaitPC
  <2>9. CASE l = "ok"
    <3>1. runs'[t] = 1
      BY <1>3, <1>5, <2>3, <2>9 DEF u, Types, HistoryType
    <3>2. p \notin Waiting(t)'
      BY <1>2, <2>1, <2>9 DEF Waiting, WaitPC
    <3>3. Waiting(t)' = {}
      BY <2>6, <3>2
    <3> QED
      BY <2>3, <2>4, <2>5, <3>1, <3>3 DEF Once
  <2>10. CASE l # "ok"
    <3>1. runs'[t] = 0
      BY <2>3, <2>10
    <3> QED
      BY <2>3, <2>4, <2>5, <2>6, <2>8, <2>10, <3>1 DEF Once
  <2> QED
    BY <2>9, <2>10
<1> QED
  BY <1>4, <1>5

\* A starter fails, and makes the task due again.
LEMMA FailOnce ==
    ASSUME Types, Types', NEW p \in Starter, starter[p].pc \in WaitPC,
           EndStarter(p), reschedule_task(starter[p].task),
           UNCHANGED << now, def, starts, runs >>, NEW t \in Task, Once(t)
    PROVE  Once(t)'
<1> DEFINE u == starter[p].task
<1>1. starter' = [starter EXCEPT ![p] = FreeStarter]
  BY DEF EndStarter
<1>2. FreeStarter.task = NoTask /\ FreeStarter.pc = "free"
  BY DEF FreeStarter
<1>3. schedule' = schedule
  BY DEF reschedule_task
<1> HIDE DEF u
<1>4. CASE t # u
  <2>1. schedule_next_time'[t] = schedule_next_time[t]
    BY <1>4 DEF reschedule_task, SetNextTime, Types, RowType, u
  <2>2. t # starter[p].task /\ t # FreeStarter.task
    BY <1>2, <1>4 DEF u
  <2> QED
    BY <1>1, <1>3, <2>1, <2>2, OnceOther
<1>5. CASE t = u
  <2>1. \A q \in Starter : starter'[q] = IF q = p THEN FreeStarter ELSE starter[q]
    BY <1>1 DEF Types, StarterType
  <2>2. InFlight(t) /\ p \in Waiting(t)
    BY <1>5 DEF InFlight, Waiting, u
  <2>3. runs[t] = 0 /\ t \notin starts /\ \A q \in Waiting(t) : q = p
    BY <2>2 DEF Once
  <2>4. \A q \in Starter : ~Made(q, t)
    BY <2>3 DEF Once
  <2>5. \A q \in Starter : starter[q].task = t => q = p
    BY <2>3, <2>4 DEF Types, StarterType, StarterPC, Waiting, WaitPC, Made
  <2>6. \A q \in Starter : starter'[q].task # t
    BY <1>2, <2>1, <2>5
  <2>7. ~InFlight(t)' /\ Waiting(t)' = {} /\ \A q \in Starter : ~Made(q, t)'
    BY <2>3, <2>6 DEF InFlight, Waiting, Made
  <2>8. HasSchedule(t)' => TaskDef(t)'.period = 0 /\ TaskDef(t)'.first < now'
    BY <1>3, <2>2 DEF Once, HasSchedule, TaskDef
  <2>9. runs'[t] = 0 /\ t \notin starts'
    BY <2>3
  <2> QED
    BY <2>7, <2>8, <2>9 DEF Once
<1> QED
  BY <1>4, <1>5

\* A starter that has started the task settles its schedule.
LEMMA SettleOnce ==
    ASSUME Types, Types', NEW p \in Starter, ReadSchedule(p) \/ WriteSchedule(p),
           NEW t \in Task, Once(t)
    PROVE  Once(t)'
<1>1. PICK r :
        /\ starter' = [starter EXCEPT ![p] = r] /\ ~(r.pc \in WaitPC)
        /\ r.task \in {starter[p].task, NoTask}
  <2>1. CASE ReadSchedule(p)
    <3> DEFINE r == [starter[p] EXCEPT !.pc = "write",
                                       !.write = Settlement(starter[p].task)]
    <3>1. starter' = [starter EXCEPT ![p] = r]
      BY <2>1 DEF ReadSchedule, Types, StarterType
    <3>2. r.pc = "write" /\ r.task = starter[p].task
      BY DEF Types, StarterType
    <3> QED
      BY <3>1, <3>2 DEF WaitPC
  <2>2. CASE WriteSchedule(p)
    <3>1. starter' = [starter EXCEPT ![p] = FreeStarter]
      BY <2>2 DEF WriteSchedule, EndStarter
    <3>2. FreeStarter.task = NoTask /\ ~(FreeStarter.pc \in WaitPC)
      BY DEF FreeStarter, WaitPC
    <3> QED
      BY <3>1, <3>2
  <2> QED
    BY <2>1, <2>2
<1>2. starter[p].pc \in {"ok", "write"} /\ starter[p].task \in Task
  BY StarterTask DEF ReadSchedule, WriteSchedule, Types
<1>3. UNCHANGED << now, def, starts, runs >>
  BY DEF ReadSchedule, WriteSchedule, daemon, history
<1>4. \A q \in Starter : starter'[q] = IF q = p THEN r ELSE starter[q]
  BY <1>1 DEF Types, StarterType
<1>5. Waiting(t)' = Waiting(t)
  BY <1>1, <1>2, <1>4 DEF Waiting, WaitPC
<1>6. InFlight(t)' => InFlight(t)
  BY <1>1, <1>3, <1>4 DEF InFlight
<1>7. \A q \in Starter : Made(q, t)' => Made(q, t)
  BY <1>1, <1>2, <1>4 DEF Made
<1>8. HasSchedule(t)' =>
        /\ HasSchedule(t) /\ TaskDef(t)' = TaskDef(t)
        /\ schedule_next_time'[t] \in {schedule_next_time[t], NoTime}
  <2>1. CASE ReadSchedule(p)
    BY <1>3, <2>1 DEF ReadSchedule, HasSchedule, TaskDef, db
  <2>2. CASE WriteSchedule(p)
    <3>1. HasSchedule(t)' =>
            /\ HasSchedule(t) /\ schedule'[t] = schedule[t]
            /\ schedule_next_time'[t] \in {schedule_next_time[t], NoTime}
      <4>1. CASE starter[p].write.kind = "remove"
        <5>1. /\ schedule' = [schedule EXCEPT ![starter[p].task] = NoSchedule]
              /\ schedule_next_time' = [schedule_next_time EXCEPT ![starter[p].task] = NoTime]
          BY <2>2, <4>1 DEF WriteSchedule, set_task_schedule, SetNextTime
        <5> QED
          BY <1>2, <5>1 DEF HasSchedule, Types, RowType
      <4>2. CASE starter[p].write.kind # "remove"
        <5>1. /\ schedule' = schedule
              /\ \/ schedule_next_time' = schedule_next_time
                 \/ schedule_next_time' =
                       [schedule_next_time EXCEPT ![starter[p].task] = NoTime]
          BY <2>2, <4>2 DEF WriteSchedule, SetNextTime, db
        <5> QED
          BY <1>2, <5>1 DEF HasSchedule, Types, RowType
      <4> QED
        BY <4>1, <4>2
    <3> QED
      BY <1>3, <3>1 DEF TaskDef
  <2> QED
    BY <2>1, <2>2
<1>9. now' >= now
  BY <1>3 DEF Types, MainType
<1> QED
  BY <1>3, <1>5, <1>6, <1>7, <1>8, <1>9, OnceKept

\* The starters.
LEMMA StarterOnce ==
    ASSUME Types, Types', NEW p \in Starter, NEW t \in Task, Once(t),
           StarterStep(p) \/ ForkConnectionFails(p) \/ LoginFails(p)
    PROVE  Once(t)'
<1> USE DEF daemon, db, history, asked
<1>1. CASE ForkConnection(p) \/ LoginFails(p)
  <2>1. \/ starter[p].pc = "forked" /\ GotoStarter(p, "resume")
        \/ starter[p].pc = "resume" /\ GotoStarter(p, "failed")
    BY <1>1 DEF ForkConnection, LoginFails
  <2>2. UNCHANGED << now, def, starts, runs, schedule, schedule_next_time >>
    BY <1>1 DEF ForkConnection, LoginFails
  <2>3. starter[p].pc \in WaitPC /\ "resume" \in WaitPC /\ "failed" \in WaitPC
    BY <2>1 DEF WaitPC
  <2> QED
    BY <2>1, <2>2, <2>3, GotoOnce
<1>2. CASE ResumeTask(p) \/ StartTask(p)
  <2>1. \/ /\ GotoStarter(p, "ok")
           /\ runs' = [runs EXCEPT ![starter[p].task] = @ + 1]
        \/ (GotoStarter(p, "start") \/ GotoStarter(p, "failed")) /\ runs' = runs
    BY <1>2 DEF ResumeTask, StartTask, Started
  <2>2. UNCHANGED << now, def, starts, schedule, schedule_next_time >>
    BY <1>2 DEF ResumeTask, StartTask
  <2>3. starter[p].pc \in WaitPC /\ "start" \in WaitPC /\ "failed" \in WaitPC
    BY <1>2 DEF WaitPC, ResumeTask, StartTask
  <2> QED
    BY <2>1, <2>2, <2>3, GotoOnce
<1>3. CASE StarterFailed(p) \/ ForkConnectionFails(p)
  <2>1. /\ starter[p].pc \in WaitPC /\ EndStarter(p)
        /\ reschedule_task(starter[p].task)
        /\ UNCHANGED << now, def, starts, runs >>
    BY <1>3 DEF StarterFailed, ForkConnectionFails, WaitPC
  <2> QED
    BY <2>1, FailOnce
<1> QED
  BY <1>1, <1>2, <1>3, SettleOnce DEF StarterStep

\* A task that a client gives a once-off schedule while no start is in flight.
LEMMA AskedOnce ==
    ASSUME Types, Types', UNCHANGED << now, starts, starter >>, NEW t \in Task,
           ~InFlight(t), runs'[t] = 0,
           HasSchedule(t)' =>
              /\ TaskDef(t)'.period = 0
              /\ schedule_next_time'[t] \in {NoTime, TaskDef(t)'.first}
    PROVE  Once(t)'
<1>1. ~InFlight(t)' /\ Waiting(t)' = {} /\ \A p \in Starter : ~Made(p, t)'
  BY DEF InFlight, Waiting, Made
<1>2. t \notin starts'
  BY DEF InFlight
<1> QED
  BY <1>1, <1>2 DEF Once

LEMMA ModifyOnce ==
    ASSUME OffRounds, Types, Types',
           \/ \E t \in Task, s \in ScheduleId \cup {NoSchedule}, n \in 0 .. 2 :
                 ModifyTask(t, s, n)
           \/ \E s \in ScheduleId, d \in Def : ModifySchedule(s, d),
           NEW t \in Task, clean[t] /\ once[t] => Once(t), clean'[t] /\ once'[t]
    PROVE  Once(t)'
<1>0. now \in Nat
  BY DEF Types, MainType
<1>1. ASSUME UNCHANGED << now, starts, starter >>, Once(t), runs'[t] = runs[t],
             schedule'[t] = schedule[t], HasSchedule(t) => TaskDef(t)' = TaskDef(t),
             schedule_next_time'[t] = schedule_next_time[t]
      PROVE  Once(t)'
  <2>1. HasSchedule(t)' <=> HasSchedule(t)
    BY <1>1 DEF HasSchedule
  <2>2. /\ Waiting(t)' = Waiting(t) /\ (InFlight(t)' => InFlight(t))
        /\ \A p \in Starter : Made(p, t)' => Made(p, t)
    BY <1>1 DEF Waiting, InFlight, Made
  <2>3. now' >= now
    BY <1>0, <1>1
  <2>4. t \in starts' <=> t \in starts
    BY <1>1
  <2> QED
    BY <1>1, <2>1, <2>2, <2>3, <2>4, OnceKept
<1>2. ASSUME NEW u \in Task, NEW s \in ScheduleId \cup {NoSchedule}, NEW n \in 0 .. 2,
             ModifyTask(u, s, n)
      PROVE  Once(t)'
  <2>1. /\ UNCHANGED << now, starts, starter, def >>
        /\ schedule' = [schedule EXCEPT ![u] = s]
        /\ schedule_next_time' =
              [schedule_next_time EXCEPT ![u] =
                  IF s = NoSchedule THEN NoTime
                  ELSE next_time(def[s].first, def[s].period, now, 0)]
        /\ Asked({u}, s # NoSchedule /\ def[s].period = 0, [v \in Task |-> n])
    BY <1>2 DEF ModifyTask, daemon, set_task_schedule, SetNextTime
  <2>2. CASE t = u
    <3>1. ~InFlight(t) /\ runs'[t] = 0 /\ s # NoSchedule /\ def[s].period = 0
      BY <2>1, <2>2 DEF Asked
    <3>2. schedule'[t] = s /\ TaskDef(t)' = def[s] /\ def[s] \in Def
      BY <2>1, <2>2, <3>1 DEF Types, RowType, TaskDef
    <3>3. schedule_next_time'[t] = next_time(def[s].first, def[s].period, now, 0)
      BY <2>1, <2>2, <3>1 DEF Types, RowType
    <3>4. schedule_next_time'[t] \in {NoTime, TaskDef(t)'.first}
      BY <1>0, <3>1, <3>2, <3>3, NoNextTime
    <3> QED
      BY <2>1, <3>1, <3>2, <3>4, AskedOnce
  <2>3. CASE t # u
    <3>1. clean'[t] = clean[t] /\ once'[t] = once[t] /\ runs'[t] = runs[t]
      BY <2>1, <2>3 DEF Asked
    <3>2. /\ schedule'[t] = schedule[t] /\ TaskDef(t)' = TaskDef(t)
          /\ schedule_next_time'[t] = schedule_next_time[t]
      BY <2>1, <2>3 DEF Types, RowType, TaskDef
    <3> QED
      BY <1>1, <2>1, <3>1, <3>2
  <2> QED
    BY <2>2, <2>3
<1>3. ASSUME NEW s \in ScheduleId, NEW d \in Def, ModifySchedule(s, d)
      PROVE  Once(t)'
  <2>1. /\ UNCHANGED << now, starts, starter, schedule >>
        /\ def' = [def EXCEPT ![s] = d]
        /\ schedule_next_time'[t] = IF schedule[t] = s
                                    THEN icalendar_next_time_from_string(d, 0)
                                    ELSE schedule_next_time[t]
        /\ Asked({v \in Task : schedule[v] = s}, d.period = 0, schedule_periods)
    BY <1>3 DEF ModifySchedule, daemon
  <2>2. CASE schedule[t] = s
    <3>1. ~InFlight(t) /\ runs'[t] = 0 /\ d.period = 0
      BY <2>1, <2>2 DEF Asked
    <3>2. TaskDef(t)' = d
      BY <2>1, <2>2 DEF Types, RowType, TaskDef
    <3>3. schedule_next_time'[t] \in {NoTime, d.first}
      BY <1>0, <2>1, <2>2, <3>1, NoNextTime
    <3> QED
      BY <2>1, <3>1, <3>2, <3>3, AskedOnce
  <2>3. CASE schedule[t] # s
    <3>1. clean'[t] = clean[t] /\ once'[t] = once[t] /\ runs'[t] = runs[t]
      BY <2>1, <2>3 DEF Asked
    <3>2. HasSchedule(t) => TaskDef(t)' = TaskDef(t)
      BY <2>1, <2>3 DEF Types, RowType, TaskDef, HasSchedule
    <3>3. schedule_next_time'[t] = schedule_next_time[t] /\ schedule'[t] = schedule[t]
      BY <2>1, <2>3
    <3> QED
      BY <1>1, <2>1, <3>1, <3>2, <3>3
  <2> QED
    BY <2>2, <2>3
<1> QED
  BY <1>2, <1>3

\* A crash: nothing is in flight after it.
LEMMA CrashOnce ==
    ASSUME Types, Types', Crash, NEW t \in Task, Once(t)
    PROVE  Once(t)'
<1>1. /\ UNCHANGED << now, def, schedule, schedule_next_time, runs >> /\ starts' = {}
      /\ \A p \in Starter : starter'[p] = FreeStarter
  BY DEF Crash, db
<1>2. ~InFlight(t)' /\ Waiting(t)' = {} /\ \A p \in Starter : ~Made(p, t)'
  BY <1>1 DEF InFlight, Waiting, Made, FreeStarter
<1>3. /\ HasSchedule(t)' <=> HasSchedule(t)
      /\ TaskDef(t)' = TaskDef(t)
      /\ Alive(t)' <=> Alive(t)
  BY <1>1 DEF HasSchedule, TaskDef, Alive
<1> QED
  BY <1>1, <1>2, <1>3 DEF Once

\* Rounds are at multiples of SCHEDULE_PERIOD.
LEMMA RoundKept ==
    ASSUME OnRound, Types, [Next]_vars
    PROVE  OnRound'
<1>1. PICK k \in Nat : now = k * SCHEDULE_PERIOD
  BY DEF OnRound
<1>2. CASE Tick
  <2>1. now' = now \/ now' = now + SCHEDULE_PERIOD
    BY <1>2 DEF Tick
  <2>2. now + SCHEDULE_PERIOD = (k + 1) * SCHEDULE_PERIOD /\ k + 1 \in Nat
    BY <1>1
  <2> QED
    BY <1>1, <2>1, <2>2 DEF OnRound
<1>3. CASE ~Tick
  <2>1. now' = now
    BY <1>3 DEF Next, MainStep, CollectDue, ForkStarter, ForkStarterFails, StartsForked,
       ForkStopper, ForkStopperFails, EndRound, StarterStep, ForkConnection, ResumeTask,
       StartTask, StarterFailed, ReadSchedule, WriteSchedule, ForkConnectionFails,
       LoginFails, StopperStops, StopperFails, ScanBegins, ScanEnds, ClientStarts,
       ClientStops, ModifyTask, ModifySchedule, Crash, vars
  <2> QED
    BY <1>1, <2>1 DEF OnRound
<1> QED
  BY <1>2, <1>3

\* Only a client who asks for a schedule changes what was asked for.
LEMMA AskedKept ==
    ASSUME [Next]_vars,
           ~ \E t \in Task, s \in ScheduleId \cup {NoSchedule}, n \in 0 .. 2 :
                ModifyTask(t, s, n),
           ~ \E s \in ScheduleId, d \in Def : ModifySchedule(s, d)
    PROVE  clean' = clean /\ once' = once
BY DEF Next, MainStep, CollectDue, ForkStarter, ForkStarterFails, StartsForked,
       ForkStopper, ForkStopperFails, EndRound, Tick, StarterStep, ForkConnection,
       ResumeTask, StartTask, StarterFailed, ReadSchedule, WriteSchedule,
       ForkConnectionFails, LoginFails, StopperStops, StopperFails, ScanBegins,
       ScanEnds, ClientStarts, ClientStops, Crash, vars, history, asked

LEMMA NextOnce ==
    ASSUME OffRounds, Types, Types', OnceInv, [Next]_vars
    PROVE  OnceInv'
<1>1. OnRound'
  BY RoundKept DEF OnceInv
<1>2. ASSUME NEW t \in Task, clean'[t] /\ once'[t]
      PROVE  Once(t)'
  <2>1. clean[t] /\ once[t] => Once(t)
    BY DEF OnceInv
  <2>2. CASE \/ \E u \in Task, s \in ScheduleId \cup {NoSchedule}, n \in 0 .. 2 :
                   ModifyTask(u, s, n)
             \/ \E s \in ScheduleId, d \in Def : ModifySchedule(s, d)
    BY <1>2, <2>1, <2>2, ModifyOnce
  <2>3. CASE ~ \/ \E u \in Task, s \in ScheduleId \cup {NoSchedule}, n \in 0 .. 2 :
                     ModifyTask(u, s, n)
               \/ \E s \in ScheduleId, d \in Def : ModifySchedule(s, d)
    <3>1. Once(t)
      BY <1>2, <2>1, <2>3, AskedKept
    <3>2. CASE CollectDue
      BY <3>1, <3>2, CollectOnce DEF OnceInv
    <3>3. CASE ~CollectDue
      BY <2>3, <3>1, <3>3, ForkOnce, QuietOnce, StarterOnce, CrashOnce
         DEF Next, MainStep
    <3> QED
      BY <3>2, <3>3
  <2> QED
    BY <2>2, <2>3
<1> QED
  BY <1>1, <1>2 DEF OnceInv

\* A once-off schedule that was given to a task while no start of it was in flight
\* starts it once, in spite of failing starts that are retried, of crashes, and of
\* clients that start and stop the task; as long as its time does not fall on the
\* very second of a round (that round finds the same time as the next one).
THEOREM OnceOnly ==
    ASSUME OffRounds
    PROVE  Spec => []OnceOffOnce
<1>1. Init => OnceInv
  <2> SUFFICES ASSUME Init PROVE OnceInv
    OBVIOUS
  <2>1. now = 1 * SCHEDULE_PERIOD
    BY DEF Init
  <2> QED
    BY <2>1 DEF Init, OnceInv, OnRound
<1>2. IInv /\ IInv' /\ OnceInv /\ [Next]_vars => OnceInv'
  BY NextOnce DEF IInv
<1>3. OnceInv => OnceOffOnce
  BY DEF OnceInv, Once, OnceOffOnce
<1> QED
  BY <1>1, <1>2, <1>3, Invariance, PTL DEF Spec
=============================================================================
