# gvmd in TLA+

gvmd is the manager between the clients of a vulnerability scanner (GMP, an XML
protocol) and the scanners (OTP, OSP, or GMP to another gvmd, a "slave"). It is a
set of forked processes that share nothing but an SQL database. This project
models the parts of it where processes meet or where a long sequence of commands
has to leave the database consistent: the life of a task and of its reports for
each kind of scanner, the scheduler, the move of a task, the connection to the
scanner, the NVT update, the trashcan with the references between resources, and
the cache of the result counts.

## 1. Inventory

| Component | State | Operations | Correct when |
|---|---|---|---|
| Task status (`manage.h`, `manage_sql.c`) | `tasks.run_status`, `reports.scan_run_status` | `set_task_run_status`, `set_task_requested` | the status is true of the process that scans, and works as a lock |
| OTP tasks (`manage.c`, `otp.c`, `gmpd.c`) | the two statuses, `tasks.hidden`, the rows of `reports`, per process `current_scanner_task` and `global_current_report` | start, resume, stop, delete, restore, empty trashcan, delete report, SCAN_START, SCAN_END, exits, recovery | one scan per task, one writer per report, requests are honoured, nothing stays active without a process |
| OSP and CVE tasks (`manage.c`) | the same, without `current_scanner_task` | start, resume, stop, delete, launch, poll, end, recovery | as above |
| Slave tasks (`manage.c`, `manage_sql.c`) | also `reports.slave_task_uuid`, the `global_slave_*` uuids, the objects on the slave, the connection | connect, setup, resume, poll, fetch, clean up, retry, give up | the master follows the slave, no result is lost, the slave is left clean |
| Moving tasks (`move_task`) | `tasks.scanner`, what each session has read | stop, wait, change scanner, restart | at most one scanner; what was stopped goes on |
| Scheduler (`manage_schedule`) | `tasks.schedule*`, forked starters and stoppers | collect, start, stop, reschedule, settle | due tasks start once, removed schedules do not, windows close |
| Scanner connection (`scanner.c`, `comm.c`, `otp.c`) | `scanner_init_state`, `scanner_init_offset`, `to_server` buffer, socket | connect, handshake, queue, partial write, close | bytes are read once and in order, and all of them |
| NVT cache (`manage_sql_nvts.c`, `otp.c`, `gvmd.c`) | `nvts`, `nvt_preferences`, feed version, `nvti_cache` | fork the update, truncate, insert in chunks, reload | one feed at a time, complete, up to date |
| Resources and trashcan (`manage_sql.c`) | a table and a trash table per type, tags, permissions | create, copy, modify, delete, restore, empty | references keep to what they were made to, names are unique |
| Reports and their counts (`manage_sql.c`) | `results`, `overrides`, `report_counts` | add result, import, override, permission, clear, count | a count in the cache is what counting would give |
| Client connections and daemon (`gmpd.c`, `gvmd.c`) | client buffers, listening sockets, signals | accept, fork, serve | no client waits for ever |
| GMP parser (`gmp*.c`) | state per XML element | one handler per element | commands get exactly one response |
| Tickets (`manage_sql_tickets.c`) | ticket status | create, modify, verify, orphan | a status follows from result and task |
| ACL, alerts' methods, users, selectors, assets, SecInfo, credentials (`manage_sql*.c`, `manage_acl.c`, `lsc_*.c`) | rows of their tables | create, modify, delete | access follows ownership and permissions |
| Utilities (`manage_utils.c`) | none | next times, recurrences | agree with a calendar |
| SQL layer, schema, migration (`sql*.c`, `manage_pg*.c`, `manage_migrators.c`) | connection, schema version | transactions, locks, migrations | a transaction is atomic |

Components interact in three ways: a session process calls the management layer
and forks a handler; a handler talks to its scanner; and all of them read and
write the database, in separate statements. The last is where it is hard: a
status is read by one statement and acted on by another; a status is both a
message ("stop") and a lock; task and report have a status each, written one
after the other; any process may die in between, and the recovery happens at the
next start of the daemon. Towards a scanner there is also a socket that takes part
of a write, and towards a slave a network that loses requests and replies. In the
tables of resources nothing is concurrent, mostly, but an id means one row in a
table and another one in its trash table, ids are given out again, and every
command that moves a row has to correct every row that refers to it.
`PROJECT.json` lists these hazards, each at its line.

## 2. Modules

| Module | Models |
|---|---|
| `TaskStatus` | the thirteen statuses, and the sets of them the code tells apart |
| `OtpTask` | tasks of an OTP scanner: sessions, handlers, the daemon |
| `ScanLock` | abstract: a lock per task, that the run status implements |
| `OspTask` | tasks of OSP scanners and of the CVE scanner |
| `SlaveTask` | a task that another gvmd runs, seen from its handler |
| `MoveTask` | a task and its scanner: MOVE_TASK and MODIFY_TASK against start, stop and resume |
| `ScheduleTimes` | the pure functions that say when a schedule is due |
| `Schedule` | the rounds of the scheduler, its starters and stoppers |
| `ByteStream` | abstract: what the peer reads is a prefix of what was meant for it |
| `ScannerConnection` | the connection of a process to an OTP scanner |
| `NvtUpdate` | the child that updates the NVTs, and the daemon around it |
| `Resources` | resources, tasks, tags and permissions, and the trashcan |
| `ReportCounts` | the results of a report and the cache of their counts |
| `OtpTaskProofs`, `OspTaskProofs`, `SlaveTaskProofs`, `MoveTaskProofs`, `ScheduleProofs`, `ScannerConnectionProofs`, `ResourcesProofs` | theorems about the module that each is named after |
| `CacheProofs` | theorems about the two caches, `NvtUpdate` and `ReportCounts` |
| `MC*` | names, definitions and symmetry for TLC |

**OtpTask.** Every process has a program counter `pc`, its `task`, its
`global_current_report` and the values it has read but not yet used
(`next_status`, `from`, `ultimate`). Each SQL statement on the two statuses is
one action; a sequence of statements in one transaction is one action too, with
what it read before kept apart where the transaction does not lock the rows
(`DeleteTask` reads, `DeleteTaskMark` and `DeleteTaskDrop` write). `run_task` is
`StartTask`/`ResumeTask`, `SetTaskRequested`, `CreateCurrentReport` or
`FindResumableReport` and `MarkResumedReport`, `Fork`; its fail exits are
`CreateCurrentReportFails`, `TargetGone`, `ForkFails`, `UndoReport`. The handler
sends the scan (`ChildSends`, `ChildSendFails`), then alternates between
`manage_check_current_task` (`CheckCurrentTask`) and messages of the scanner
(`ScanStart`, `ScanEnd`); `set_task_run_status` is two UPDATEs, `WriteReport` and
`WriteTask`. `Kill`, `Crash` and `Restart` (`stop_active_tasks`) are the failures.
Locking is that of PostgreSQL; SQLite's exclusive transactions allow fewer
interleavings. DELETE_REPORT can remove the report of a handler (the query for
reports in use leaves out Stop Waiting): the next result then aborts the handler on
PostgreSQL (`ResultRefused`: the foreign key, inside a transaction) and is stored for
a report that is not there on SQLite. With `SerialIds` the ids of reports are never
given out again (PostgreSQL), without it that of the last report is, once deleted
(SQLite: `INTEGER PRIMARY KEY` without `AUTOINCREMENT`).

**OspTask.** The same, for tasks that skip `set_task_requested`. The handler polls
scanner and status, and writes task and report on each exit by itself. DELETE_REPORT
and the ids of reports are those of `OtpTask`; `stop_osp_task` makes a report Stopped
while its handler still has it, so that DELETE_REPORT may remove it.

**SlaveTask.** One handler and one slave. `pc` names the place in
`handle_slave_task`, `slave_setup` or `slave_sleep_connect`; each request to the
slave is an action, which may fail because the connection is down (whether or
not the slave has carried it out), because the slave refuses, or because the
reply makes no sense. The slave itself is external: it goes through the statuses
of a task, makes results, refuses to delete what is in use, may be restarted, and
may lose the task. Names, credentials' contents, configs and results are abstract.
A poll is the read of the run status (`Poll`), the stop on the slave (`PollStop`), the
write of the status (`PollWait`, `PollGiveup`), and the two requests (`Get`,
`GetReport`), with the clients between any two of them. DELETE_REPORT deletes the
report of the handler (`DeleteReport`) or an earlier one (`DeleteOlderReport`, of the
rows in `older`), and tries to clean up the slave (`DeleteSlaveTask`); the task gets
the status of the last report that is left. When the handler reads Stopped, the
assertion aborts it (`PollAsserts`). A new scan begins only when the handler is gone:
for two handlers of one task see `OtpTask`. In `slave_sleep_connect` and the first
loop of `handle_slave_task` the read of the status and the write of Stopped are one
step. Memory that the fail exits free without clearing the global is not modelled.

**MoveTask.** One task, whose handler is reduced to start, stop and end (`OtpTask`
and `SlaveTask` have the detail), with the column `tasks.scanner` that those two
keep fixed. `move_task` is a chain of program counters from reading the status to
`resume_task`; `stop_task_internal` is split at its read and its write, and
`run_task` at its read of the scanner, `set_task_requested` and `fork`.

**Schedule.** `CollectDue` is the transaction of `manage_schedule` that empties the
schedule iterator into the lists `starts` and `stops` and moves the next times on;
`ForkStarter`, `ForkStopper` and their failures are its two loops. A starter goes through the
internal connection, the login, RESUME_TASK, START_TASK and the settlement of the
schedule (`ReadSchedule`, `WriteSchedule`); its failures end in `reschedule_task`.
The task and its scan are a status. The clock goes in steps of
`SCHEDULE_PERIOD`, each with a round. `ScheduleTimes` translates
`icalendar_next_time_from_recurrence` and `next_time`; a rule is the set of times
that libical enumerates for it.

**ScannerConnection.** The bytes themselves: each string and command is a sequence
of numbered bytes, so that a byte repeated, lost or out of order is seen.
`openvas_scanner_write` follows `scanner_init_state`; `write_to_server_buffer`,
`sendn_to_server` and the start and end of the buffer are those of `comm.c` and
`scanner.c`. `Capacity` is what the socket takes, `ScannerReads` takes any number of bytes out of it. The
scanner's replies are external, and short enough to arrive whole.

**NvtUpdate.** The child from `Connect` to `Finish`, with each transaction of
`set_nvts_feed_version`, the truncation and the chunks of `insert_nvts_list` as an
action; the daemon's `update_in_progress`, `handle_sigchld` and its copy of the NVTs.
An NVT is an OID and the feed it came with. The process that tries again while the
scanner is loading and its child that does the update are one here (section 5).

**Resources.** `table[type]` and `trash[type]` map ids to rows; a row has a name, a
uuid, the id of its last sub-row where the type has some, and references. Each
command is one action when it is one transaction; CREATE_TASK, MODIFY_TASK,
CREATE_TARGET and the copy of a target look up and write in separate steps
(`session`). Ids are those SQLite gives out. The operators `create_*`, `copy_*`,
`modify_*`, `delete_*`, `restore_*` have the names of the functions in
`manage_sql.c`, and do what these do to rows, trash rows, tasks, tags and
permissions, mistakes included. Each reference also carries the uuid of what it
was made to; that is history, which only the properties read.

**ReportCounts.** One report and the counts its owner sees. The scan and the
client are sessions that count, delete and store rows of `report_counts` in
separate steps (`Open`, `ClearKey`, `KeepKey`, `Compute`, `DeleteCounts`,
`InsertCounts`); the commands on overrides and permissions are one transaction
each, except for `create_override` and `modify_override`, which leave the refresh to
the session. `Right(k)` counts anew: how many results have which severity, after the
overrides that apply. A result is a row with an id, an NVT and a quality of detection.

## 3. Runs

Twelve runs. Deadlock is not checked: a system whose clients are content, or
whose bounds are used up, really is at rest.

| Run | Shows |
|---|---|
| `otp_safety` | two sessions, two handlers, one task, two reports, every fault and every command but DELETE_REPORT: `ActiveWhileScanned`, `SingleReportWriter`, `DoneReportFinal`, and the refinement `ImplementsLock` of `ScanLock`, which implies `SingleScan` |
| `otp_live` | one session, two handlers, every command, failing locks, uuids, forks and sends, ids given out again: as long as no report is deleted `NoOrphanReport`, and under fairness `StopWaitingEnds`, `DeleteWaitingEnds` |
| `osp_safety` | an OSP and a CVE task, one session, two handlers, all commands and faults: `TypeOK` |
| `osp_live` | an OSP task, two sessions, two handlers, start, resume and stop, failing forks and scanners, crashes: `NoOrphanReport`, `ActiveAttended`, and under fairness `ScanEnds` |
| `slave_scan` | every command but DELETE_REPORT, one failure of any kind at any point: `PollNeverStopped`, `CleanedUp`, and under fairness `Followed` |
| `slave_reports` | start, resume, stop and DELETE_REPORT with an earlier report, one failure (bad reply, restart of either side, lost connection): `TypeOK`, `ResultsComplete` |
| `move_task` | two sessions, an OTP scanner and a slave, five commands: `SingleScanner`, and under fairness `MoveResumes` |
| `schedule_rounds` | one task, four kinds of schedule, two client commands, one fault: `OnceOffOnce`, `PeriodsRespected`, and under fairness `DueStarted`, `WindowCloses` |
| `scanner_stream` | three connections, buffer and socket of four bytes, commands of one to three: `InOrder` (refinement of `ByteStream`), and under fairness `Delivered` |
| `nvt_update` | three feeds of five NVTs in chunks of two, two faults: `OneFeed`, `Complete`, and under fairness `UpToDate` |
| `trashcan` | one resource of each type and a task, one resource or reference more, six commands on the trashcan: `RefsKept`, `TasksKept`, `UniqueNames`, `PermissionsKept` |
| `report_counts` | a scan or an import, two results, two overrides, two commands, an override that ends: `CacheRight` |

Bounds. One task is enough where tasks only meet in a process (a session that
works on two tasks one after the other is in `osp_safety`). Two sessions and two
handlers allow every race of two; `MaxReport` = 2 allows an old report to be
resumed while a new one is written, or one that is deleted and its successor of the
same id. In `SlaveTask`, `MaxTask` = 2 allows one
repeated setup, or a second scan, followed to its end (`Followed` only ends where a
third one would be created), `MaxResult` = 1 a result that is there or not yet at each
request, `MaxFailure` = 1 one failure at any point, combined with any number of stops,
deletions and resumptions, and `MaxOlder` = 1 an earlier report whose status the task
can get.
In `Schedule`, `MaxTime` = 12 has six rounds, so that the periodic schedules are due
twice, a start can be late by a round (`Latency` = 4) and the timeout can pass; the
starts are at odd times and never fall on a round, for the case that they do is a
divergence (below). In `ScannerConnection` the strings (two bytes) are shorter than the
socket, as they are in reality: see below for what happens otherwise; a command of
three bytes needs more than one write when others are in the buffer, and the
buffer overflows. In `NvtUpdate` five is no multiple of the chunk size and the last
chunk is partial. In `Resources` six commands delete and restore two resources, and
one of them twice, or a resource, its referrer and a third one. In `ReportCounts`
`MaxTime` = 3 lets an override end before or after the counts are stored, and two
commands let the second one act on what the first one left; there is one NVT and one
quality of detection, so that `min_qod` is not exercised by the run (`CacheStaysRight`
is for every set of them). Each cfg names its
bounds as constants. Symmetry (sessions, handlers, ids of results) is used in the runs without
liveness properties only.

Fairness. A process that can run does (`WF` on the steps of each session, handler,
starter, child and of the main loop: the kernel schedules them; nothing in them
waits for a lock that is held across a step). Time passes (`WF(Tick)`). The daemon
is restarted (`WF(Restart)`: a service manager does). A scan that runs ends
(`WF(ScanEnd)`, `WF(OtpEnds)`, `WF(SlaveStep)`), and a scan that is polled is found ended at
some time although each poll may find it unfinished (`SF(PollEnds)`). For
`WindowCloses` nothing is assumed of a scan that its schedule is to stop, until it
has been asked to. The scanner reads its socket (`WF(ScannerReads)`). No client is
assumed to do anything, no failure to happen. In `SlaveTask` the connection breaks
at most `MaxFailure` times, so that a handler that tries again does get through:
without that, `Followed` is false and no code could make it true; in `NvtUpdate` and
`Schedule` `MaxFaults` does the same for `UpToDate` and `DueStarted`.

Each property of a passing run has a mutant in `PROJECT.json`: a plausible bug in
one definition that makes TLC report the property.

### Where the code and its comments disagree

The `MC*_v_*.cfg` files are not among the runs. Each checks what a comment or
document says of the code, and TLC finds it violated; for instance
`tlc -config MCOtpTask_v_start.cfg MCOtpTask`. They are kept because they show why the
properties above are no stronger than they are.

| Config | Property | What happens |
|---|---|---|
| `MCOtpTask_v_delete_task` | `NotRemovedWhileScanned` | "If the task is running already then delete_task will lead to ROLLBACK." (`manage_sql.c:33197`) The query of `delete_report_internal` (`manage_sql.c:26637`) has five placeholders and is passed seven statuses, and the DELETE_*_WAITING statuses are not in the list: a task that waits to stop is removed while it is scanned. |
| `MCOtpTask_v_stop` | `StopHonoured` | `stop_task_internal` (`manage.c:5803`) reads the status and writes Stop Requested later; when the scan ends in between, the task stays Stop Requested until the next start of the daemon. |
| `MCOtpTask_v_start` | `SingleScan` | "Locking here prevents another process from starting the task concurrently." (`manage_sql.c:19376`) `delete_report_internal` sets the task to the status of its last remaining report, whatever it is doing: it can then be started a second time. |
| `MCOtpTask_v_delete_report` | `ReportKeptWhileScanned` | "If the report is running already then delete_report_internal will ROLLBACK." (`manage_sql.c:26846`) The same query: the report of a scan that waits to stop is deleted, with its results. |
| `MCOspTask_v_start` | `SingleScan` | "Before forking: 1 task is active already" (`manage.c:5735`) Nothing looks at the status of an OSP or CVE task before it is started. |
| `MCSlaveTask_v_giveup` | `GiveupHonoured` | "A special request from the user to get the task out of a requested state when contact with the slave is lost." (`manage.c:5843`) During the first `slave_setup` `current_scanner_task` is still 0 when `slave_sleep_connect` acts on it: the status is written to no task. |
| `MCSlaveTask_v_assert` | `PollNeverStopped` | "case TASK_STATUS_STOPPED: assert (0);" (`manage.c:3441`) The same query again: DELETE_REPORT takes a report that is Stop Waiting away from the polling handler, and the task gets the status of the report before it; if that is Stopped, the handler aborts. |
| `MCMoveTask_v_giveup` | `GiveupOnlyForSlaves` | "This should only happen for slave tasks." (`manage.c:6100`, with an assertion) A start between the steps of `move_task` leaves an OTP scan with a GMP scanner in its task; stopped twice, its handler aborts. |
| `MCSchedule_v_twice` | `OnceOffOnce` | The next time is set "to prevent multiple schedules" (`manage.c:7242`). `icalendar_next_time_from_recurrence` (`manage_utils.c:1611`) takes the first time that is not before the reference: in the very second of a start that is the same start again, and a once-off schedule runs twice. |
| `MCScannerConnection_v_down` | `DownWhenDown` | `run_task` returns -5 for "scanner is down or still loading" (`manage.c:5674`). Closing a connection does not reset `scanner_init_state` (`scanner.c:573`): after VERIFY_SCANNER, or a start that found the scanner loading or the task active, later connections of the session fail as if it were down. |
| `MCNvtUpdate_v_memory` | `MemoryFollows` | "Also queue an update to the nvti cache." (`manage_sql_nvts.c:126`) The flag is raised before the NVTs are written: the daemon may read them too early and clear it. |
| `MCResources_v_target` | `TargetKept` | "Update the location of the target in any trashcan tasks." (`manage_sql.c:34946`) `sql_last_insert_id ()` is evaluated after the login data were copied: the task gets the id of a row of login data, and may come back with another target. |
| `MCReportCounts_v_import` | `CountsRight` | An import counts the report before `result_nvt_reports` is filled and later chunks do not update the counts: what is in the cache afterwards is too low. |

These also showed up, and have no config of their own.

Tasks:

- `resume_task` reads the status before `set_task_requested`, which accepts any
  inactive status: a task that another client has run to Done in between is resumed.
- When the daemon died between `set_task_requested` and `make_report`, a later
  RESUME_TASK finds no resumable report, and its process aborts with the task left
  Requested.
- `stop_active_tasks` leaves out tasks in the trashcan: they stay active, and cannot
  be started once restored.
- The exit of `run_otp_task` for a target that is gone leaves `global_current_report`
  set and the report Requested. `fork_osp_scan_handler` and `fork_cve_scan_handler`
  leave it set in the parent: the second START_TASK of the session meets the
  assertion in `create_current_report`, and `stop_osp_task` writes the end of a report
  that need not be that of the task it stops.
- With DELETE_REPORT, two handlers may scan a task (`v_start`). The end or the failure
  of one then ends or interrupts the task for the other, whose report may stay active
  at its SCAN_END, and a stop or a deletion may stay unanswered: `NoOrphanReport`,
  `StopWaitingEnds` and `DeleteWaitingEnds` of `OtpTask` speak of behaviours in which no
  report was deleted (`ReportDeleted`). A report that one of
  them has finished can then be resumed and reopened (`DoneReportFinal` does not
  hold), and on SQLite the old handler and a new one may write the same report, as its
  id was given out again (`SingleReportWriter` does not hold).
- DELETE_REPORT of one report while the handler of another is between its writes of
  task and report gives the task back the status of the latter: an OSP task can stay
  Running for good. The handler of a slave task whose report was deleted aborts at the
  next result without a status, and leaves the task as it was (PostgreSQL).
- The handler of an OSP task does not look for Delete Requested, and the handler of
  a slave task acknowledges it and then writes Stopped: the deletion is lost.
- A slave task that fails while its target is created is Interrupted, but its report
  is not, as `current_scanner_task` is not set yet.
- The handler of a slave task writes Stop Waiting after a request to the slave, and
  Running after another one, whatever was written meanwhile: a second STOP_TASK, or a
  first one, is overwritten.
- A stop that arrives while `setup_ids` reconnects is written to the report, and
  overwritten in the task.
- A MOVE_TASK that overlaps a second MOVE_TASK or a STOP_TASK can wait for ever, as
  in `v_stop` (`MoveResumes` leaves these out); and it ignores what `resume_task`
  returns (`manage.c:6040`).

Schedules: when a rule has no time left, a later RDATE is ignored (`0 - rdates_time`
is negative). A start that fails makes the task due again even if its schedule was
changed while it was in flight, and a starter settles whatever schedule it finds
(`clean`). A restart loses the starts that were collected.

Scanner connection: `scanner_init_offset` is not added up over partial writes
(`scanner.c:393`), and EAGAIN on the first byte counts as written: both are harmless
only because the strings fit into the socket. `to_server_buffer_space` (`comm.c:82`)
returns the bytes that are pending and not, as documented, the free ones. In
`SCANNER_INIT_TOP` a TLS scanner always fails (`scanner.c:374`).

Resources (all modelled but the last two; the properties leave out what goes
through them): the statement of `delete_scanner` on `configs_trash` has no condition on the
location; restoring a target or port list writes the id of a sub-row into tags and
permissions; deleting a port list, credential or filter for good ignores trash rows
that refer to it, whose id is then given out again; `modify_port_list`, `modify_filter`
and `modify_alert` without a name set an empty one; a task may be given a resource
that was deleted between look-up and use (`gmp.c:24829`); some returns of
`create_target`, `delete_scanner`, `create_scanner` and `modify_scanner` neither commit
nor roll back. Not modelled: `delete_config` (ultimate) deletes the selectors of a
trash config with the same id, and `manage_empty_trashcan` looks for `tag_resources`
in `tags_trash` after emptying it.

Counts (the field `bad` marks a row that went through one of these, and `CacheRight`
is about the others): the import above; `copy_override` refreshes nothing;
`modify_override` of the NVT alone goes unnoticed; `modify_permission` only looks for the
reports of the new resource; the scan starts a row that is missing at one, and goes
on with rows that have ended; two sessions that store at the same time double the
counts; a session that counted before a change stores after it.

## 4. Proofs

Each theorem holds for every value of the constants: every number of tasks,
processes, reports, results, NVTs, resources, commands, rounds and faults, every size
of a buffer. The
runs check the same properties on small instances, and TLC checked each inductive
invariant before it was proved. Every `*Proofs` module extends the module (`CacheProofs`:
the two modules) that it is about; `tlapm <module>.tla` checks it.

| Theorem | States | Assumes |
|---|---|---|
| `OtpTaskProofs!TypeCorrect` | `TypeOK` | |
| `OtpTaskProofs!ScanExclusion` | `SingleScan`, `ActiveWhileScanned` | no DELETE_REPORT |
| `OtpTaskProofs!LockRefinement` | `ImplementsLock` (refinement of `ScanLock`) | no DELETE_REPORT |
| `OtpTaskProofs!OneReportWriter` | `SingleReportWriter` | no DELETE_REPORT, ids of reports are not given out again |
| `OtpTaskProofs!DoneIsFinal` | `DoneReportFinal` (action property) | no DELETE_REPORT, ids of reports are not given out again |
| `OtpTaskProofs!ReportsNotOrphaned` | `NoOrphanReport` | no DELETE_REPORT, ids of reports are not given out again, no process killed alone, no target lost |
| `OspTaskProofs!OspTypeCorrect` | `TypeOK` | |
| `OspTaskProofs!ReportsNotOrphaned` | `NoOrphanReport` | no process killed alone |
| `OspTaskProofs!TasksAttended` | `ActiveAttended` | no DELETE_REPORT, no process killed alone |
| `SlaveTaskProofs!SlaveTypeCorrect` | `TypeOK` | |
| `SlaveTaskProofs!AssertionHolds` | `PollNeverStopped` | no DELETE_REPORT |
| `SlaveTaskProofs!DoneIsComplete` | `ResultsComplete` | |
| `SlaveTaskProofs!NothingLeft` | `CleanedUp` | |
| `MoveTaskProofs!MoveTypeCorrect` | `TypeOK` | |
| `MoveTaskProofs!OneScanner` | `SingleScanner` | |
| `ScheduleProofs!ScheduleTypeCorrect` | `TypeOK` | |
| `ScheduleProofs!LimitRespected` | `PeriodsRespected` | |
| `ScheduleProofs!OnceOnly` | `OnceOffOnce` | once-off schedules start between rounds and have no RDATEs |
| `ScannerConnectionProofs!ConnectionTypeCorrect` | `TypeOK` | |
| `ScannerConnectionProofs!ScannerReadsInOrder` | `InOrder` (refinement of `ByteStream`) | an empty socket takes the greeting (`Capacity >= 2 * StringLen`) |
| `CacheProofs!NvtTypeCorrect` | `TypeOK` | |
| `CacheProofs!FeedsNeverMixed` | `OneFeed` | |
| `CacheProofs!UpdateComplete` | `Complete` | |
| `CacheProofs!CountsTypeCorrect` | `CountsTypeOK` | |
| `CacheProofs!CacheStaysRight` | `CacheRight` | |
| `ResourcesProofs!ResourcesTypeCorrect` | `TypeOK` | |
| `ResourcesProofs!NamesStayUnique` | `UniqueNames` | |
| `ResourcesProofs!PermissionsApply` | `PermissionsKept` | |
| `ResourcesProofs!ReferencesKept` | `RefsKept` | |
| `ResourcesProofs!TaskReferencesKept` | `TasksKept` | |

The assumptions in the last column are hypotheses of the theorem, and each is needed:
`MCOtpTask_v_start.cfg` breaks the exclusion with DELETE_REPORT, and with it what rests
on the exclusion; `MCSlaveTask_v_assert.cfg` the assertion; a process that is
killed alone leaves its report behind until the next start of the daemon, by design;
`MCSchedule_v_twice.cfg` starts a once-off schedule twice when its time is that of a
round; that ids are not given out again holds on PostgreSQL and, as long as neither
reports nor tasks are deleted, on SQLite; a greeting that is written in pieces is not taken up where it stopped ("Scanner
connection" at the end of section 3). The instances of the runs satisfy them. What the constants have
to be besides is in the named `ASSUME`s of each module (bounds are natural numbers,
commands and faults are among those named, the values for "none" are not values; in
`Schedule` also that the dates of a schedule are natural numbers, that a period
between rounds is at least a second and fits the bound on time, and that there are
finitely many starters; in `ReportCounts` that the clock does not stop before the report
begins and that there are finitely many ids of results).

**OtpTask.** `SingleScan` is not inductive: a process may take a task up because its
status is inactive while another has it, unless the status of a task with a scan is
always active. `ActiveWhileScanned` in turn needs `SingleScan`: the holder may write an
inactive status only when nobody else has the task. And a crash must leave no
process with a scan that a restart, which writes inactive statuses, would hit
(`DownAtRest`). `ScanInv` is the conjunction of these with `TypeOK`. There is a
lemma for each group of actions (requests, steps of a session, steps of a handler,
failures), with one step per action; most actions are "tame" (they keep who has which
scan and write only active statuses, or end a scan), which is enough for all
conjuncts. The refinement uses the same grouping: each action acquires, hands over,
releases, or leaves the owners alone.
For the reports, `ReportInv` adds that ids given out are fresh, that the report in
`global_current_report` is one of the process's task, that the status of a report that
is held is the one its holder left (so a resumable report is held by nobody), and that
nothing is held while the daemon is down. It rests on `ScanInv`: a report that can be
resumed is held, if at all, by a process that still has a scan of its task.
`DoneReportFinal` follows from it step by step. `CareInv`: while the daemon
is up, an active report is in the hands of a process that will write its end.

**OspTask.** A process that has made or marked a report *owns* it until it has written
its end: first the session, after the fork the handler. `NoOrphanReport` is not
inductive: that an owner has a report (`HasReport`), that a handler on its way out
ends with an inactive status (`EndsInactive`), that an active report has an owner
(`ActiveOwned`), and, as reports may be deleted under their owners, that what is no row
is not active (`RowsOnly`: an UPDATE of such an id changes nothing, and a new report
starts it anew). That two processes own one report, which ids given out again make
possible, does no harm to this: each of them will write its end. `ActiveAttended` needs
that the report of an owner is a row (`HeldRows`: no report is deleted), that
`stop_task_internal` is reached with tasks of the CVE scanner only (`CveStop`), and
`Attended`: for a task that is Requested, Running or Stop Requested there is a process
whose last write to it is still to come. The run `osp_live` has neither DELETE_REPORT nor
a CVE task; the theorems have both, `TasksAttended` without DELETE_REPORT.

**SlaveTask.** `StoppedExits`: Stopped is written only on the way out, so the
polling loop never meets it, in spite of retries of the connection; it is inductive
by itself when no report is deleted, and not part of `IInv`, which is for all
commands. `Fetched`: all results up to `next_result` are in the report, if it is still
there, for each place from which the handler can still poll, and a slave task that was seen Done gets no more. For the clean
up, `Known` says which objects of the slave the handler has the uuid of, and `Cleaned`
how far the clean up has come.

**MoveTask.** As in `OtpTask`, the status is the lock: at most one session between
`set_task_requested` and `fork` or handler has the task, and while there is one the
status is one that `set_task_requested` refuses.

**Schedule.** `Account` counts, for each task with a limited schedule: the starts made,
those decided on and not yet made, and the periods left (one less while starts are in
flight, as the settlement has yet to count it) never exceed the limit, but for the
starts that `lost` records; and what a starter is about to write has room for the
starts of the others. The starts in flight are the cardinality of a set of starters,
so each step of a starter adds or removes one element of it.
`Once`: once the only start of a once-off schedule is decided on, the next time is past
and at most one process can make it. It needs that every round is at a multiple of
`SCHEDULE_PERIOD`.

**ScannerConnection.** `OnWire`: the scanner has read the first bytes of what is meant for
it and the socket holds the next ones. `Buffered`: the rest is in the buffer, in
order. In the update of the NVT cache, the rest is the string that the state asks to
write; that it is written whole needs the socket to be empty then, which holds since
the scanner has answered the string before, which needs the exact bytes that were
said so far (`CacheInv`). On the connection of a task no reply can start that
exchange, as nothing it sends is an NVT_INFO (`TaskInv`).

**NvtUpdate.** `VersionInv`: from `set_nvts_feed_version` on the database names the version
that the child was told, and in the middle of it none. `InsertInv`: during the
insertion the table has rows of the new feed only, and each NVT counted so far has a
row or is in the open transaction; `EndInv`: at the end all of them have. `OneFeed` and
`Complete` follow also when the child dies at any of these steps, and the next one
starts over.

**Resources.** There are more than fifty actions, and five invariants. So each action is
first shown to keep the types and to be a step of one of nine kinds (`Step`): a row or a
task is added or changed, a resource is moved to the trashcan or back, deleted for good
from either, a task is marked as trash or no longer, a task is removed, the trashcan is
emptied. What a kind of step promises is what all its actions do: which rows move, which
references, tasks and
permissions follow. The invariants are proved from the kinds. `Types` adds to `TypeOK`
that the ids in use are bounded, without which there is no next id. `UniqueNames` is
inductive with it. For `PermissionsKept`, the location in the permission for a task is
that of the task (`TaskPermissions`); otherwise the permission would not be found when the
task is deleted for good. For the references, `RefsInv`: UUIDs in use are below the
next one, so that what has gone stays so although ids are given out again
(`FreshUuids`); no two rows of a type, in the table or the trashcan, have the same UUID,
so that what is deleted for good has gone (`UniqueUuids`); and only tasks in the trashcan
refer to it, so that emptying it leaves the others what they use (`LiveInTable`).

**ReportCounts.** `CacheRight` is not inductive: the row that a session stores was
counted earlier, and a row that is right now may be wrong a second later, when an
override ends. `CountsInv` adds `SessionRight` (what a session is about to store is
right, unless something has changed since and it is marked) and, to each row that
`CacheRight` is about, that it ends no later than any override that bears on one of the
results it counts (`EndsBy`), so that when time takes the override away the row is no
longer found. This is where the end times in `cache_report_counts` and
`report_add_result` are needed: they look at the overrides of all users, and at the
whole report, and so are early enough for each row. `WorldOK`, `RowsOK` and `SessionsOK`
are the types, with: the results are finitely many, a row that is there has an end time,
a session at rest has nothing to clear, counts without overrides have no severity of an
override. The lemmas on the counts say on what they depend (`SameCounts`,
`IneffectiveKept`: an override that applies to no result before or after a command
changes nothing, which is what `reports_for_override` relies on) and what one more
result does (`AddedCounts`). Each step then does one of five things to a row
(`RowStep`: leave it, remove it, mark it, have a session about to clear it, store what
was just counted) and one of four to what a session has counted (`SessionStep`); only
`report_add_result` and `Tick` are shown to keep `RowRight` directly.

Only model-checked:

- liveness, and what depends on fairness or ENABLED, which is out of the prover's reach:
  `StopWaitingEnds`, `DeleteWaitingEnds`, `ScanEnds`, `Followed`, `MoveResumes`,
  `DueStarted`, `WindowCloses`, `Delivered`, `UpToDate`.

Every invariant and every action property that a run checks is stated by a theorem.
What a recursive definition computes for every input could not be proved either; no
module has one.

## 5. Not modelled

The list is in `PROJECT.json` under "components". Most of gvmd's code reads XML
elements into buffers, builds SQL for lists, prints responses or creates tables;
it keeps no state between commands, and nothing in it meets anything else.
Predefined configs and port lists, migrations, packaging of credentials and feed
import are tables, straight lines or I/O. Of the parts that are modelled, these are
left out:

- an update child that survives a restart of the daemon (`NvtUpdate`). The process
  that the daemon forks for the update tries again when the scanner is loading, and
  forks a child for each try (`gvmd.c:1191`); in the model the two are one process. When
  the first is killed alone, SIGCHLD clears `update_in_progress` (`gvmd.c:1068`) while
  the second still writes, and a second update may run beside it: what `OneFeed` and
  `Complete` say does not cover that;
- TLS, and replies of the scanner that arrive in pieces (`ScannerConnection`); what `parse_otp_*`
  makes of a message that is cut off;
- other users: `Resources` has one, `ReportCounts` a second one who only shares
  overrides. `report_add_result` counts with the overrides of the current user, also
  in the rows of others; users who gain access during a scan; the merge of
  `report_counts` in `delete_user`;
- `ReportCounts`: dynamic severities, the precedence of overrides other than by age,
  hosts and ports of overrides, filters other than overrides and quality of
  detection, and the counts that `report_counts_id_full` stores with a filter;
- orphaned rows of `task_alerts` and of login data (`Resources`).

## 6. Plan

Done so far: everything in sections 2 and 4. Next, in this order:

1. `Tickets`: the life of a ticket against the results of later scans.
2. `Acl`: ownership, permissions and super permissions as operators against a
   reference definition.
3. `Alerts`: which event runs which alert, and the escalation.
