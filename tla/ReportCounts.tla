---------------------------- MODULE ReportCounts ----------------------------
(***************************************************************************)
(* The cache of the result counts of a report, as its owner sees them.     *)
(* The counts by severity depend on the results, on the overrides that the *)
(* owner has access to, his own and those that another user shares with    *)
(* him, and on the time, for overrides end.  They are cached for each      *)
(* choice of "apply overrides" and of the minimal quality of detection.    *)
(*                                                                         *)
(* Whatever changes one of these has to update the cache: the scan that    *)
(* adds a result counts on, the commands on overrides and permissions      *)
(* clear the cache and, with the setting Auto Cache Rebuild, fill it       *)
(* again.  Some of them do so in a transaction, others in separate         *)
(* statements, which are steps of a session here.                          *)
(*                                                                         *)
(* The code has holes, ways in which a row of the cache becomes wrong.     *)
(* The history field bad of a row says that it went through one of them;   *)
(* the properties say that there is no other.                              *)
(***************************************************************************)
EXTENDS Integers, FiniteSets, FiniteSetsExt

CONSTANTS
    Settings,         \* what Auto Cache Rebuild may be set to
    Kinds,            \* where the results come from: "scan", "import"
    Result,           \* the ids of results
    Nvt, NoNvt,       \* the NVTs that may have results, one that has none
    NewSeverities,    \* the severities that overrides may give
    Mine, Shared,     \* overrides of the owner and of another user
    Qod, MinQod,      \* the qualities of detection: of results, asked for
    Session, Scan,    \* the sessions; the one that runs the scan
    MaxTime,          \* when the clock stops
    MaxCommands       \* how many commands on overrides and permissions

MIN_QOD_DEFAULT == 70

\* When the report begins.
FirstTime == 2

ASSUME ReportCountsAssumption ==
    /\ Settings \subseteq BOOLEAN
    /\ Kinds \subseteq {"scan", "import"} /\ Kinds # {}
    /\ IsFiniteSet(Result)
    /\ "original" \notin NewSeverities /\ NoNvt \notin Nvt
    /\ Mine \cap Shared = {}
    /\ MIN_QOD_DEFAULT \in MinQod /\ Qod \cup MinQod \subseteq Nat
    /\ Scan \in Session
    /\ MaxTime \in Nat /\ MaxTime >= FirstTime /\ MaxCommands \in Nat

VARIABLES
    auto_cache_rebuild,   \* the setting
    kind,                 \* "scan", "import", "imported"
    results,              \* the results of the report
    result_nvt_reports,   \* the NVTs that the report is known to have
    overrides,            \* the overrides, in the table or the trashcan
    permission,           \* where the permission on a shared one is
    now,
    report_counts,        \* the cache: [override, min_qod] -> row
    session,              \* what the sessions are doing on the cache
    made, commands        \* overrides made, commands left

counts_vars ==
    << auto_cache_rebuild, kind, results, result_nvt_reports, overrides,
       permission, now, report_counts, session, made, commands >>

Results == [ id : Result, nvt : Nvt, qod : Qod ]
Override == Mine \cup Shared
OverrideNvt == Nvt \cup {NoNvt}
Key == [ override : {0, 1}, min_qod : MinQod ]
Defaults == { k \in Key : k.min_qod \in {0, MIN_QOD_DEFAULT} }
Severity == { "original" } \cup NewSeverities

\* End times: 0 for never.
EndTime == 0 .. MaxTime
Location == { "none", "table", "trash" }

NoOverride == [ loc |-> "none", nvt |-> NoNvt, new_severity |-> "original",
                end_time |-> 0, creation |-> 0 ]

Counts == [ Severity -> Nat ]
Zero == [ s \in Severity |-> 0 ]
NoRow == [ counts |-> Zero, end_time |-> -1, bad |-> FALSE ]

\* A session at rest.  The fields: keys still to do, which of the counts
\* without (0) and with (1) overrides to clear first, the key in work, what
\* was counted for it, and whether that may be out of date.
Idle == [ phase |-> "idle", todo |-> {}, clear |-> {},
          key |-> [ override |-> 0, min_qod |-> MIN_QOD_DEFAULT ],
          counts |-> Zero, dirty |-> FALSE ]

\* The type invariant: among others, counts without overrides never end.
CountsTypeOK ==
    /\ auto_cache_rebuild \in BOOLEAN
    /\ kind \in {"scan", "import", "imported"}
    /\ results \subseteq Results
    /\ result_nvt_reports \subseteq Nvt
    /\ overrides \in [ Override ->
          {NoOverride} \cup
          [ loc : {"table", "trash"}, nvt : OverrideNvt,
            new_severity : NewSeverities, end_time : EndTime,
            creation : 0 .. MaxCommands ] ]
    /\ permission \in [ Shared -> Location ]
    /\ now \in FirstTime .. MaxTime
    /\ report_counts \in [ Key ->
          [ counts : Counts, end_time : {-1} \cup EndTime, bad : BOOLEAN ] ]
    /\ \A k \in Key : k.override = 0 =>
          /\ report_counts[k].end_time \in {-1, 0}
          /\ \A s \in NewSeverities : report_counts[k].counts[s] = 0
    /\ session \in [ Session ->
          [ phase : {"idle", "open", "next", "compute", "delete", "insert"},
            todo : SUBSET Key, clear : SUBSET {0, 1}, key : Key,
            counts : Counts, dirty : BOOLEAN ] ]
    /\ made \in 0 .. MaxCommands /\ commands \in 0 .. MaxCommands

\* Shared overrides and permissions may have been there before the report.
Earlier == [ loc : {"table"}, nvt : Nvt, new_severity : NewSeverities,
             end_time : {FirstTime}, creation : {0} ]

CountsInit ==
    /\ auto_cache_rebuild \in Settings
    /\ kind \in Kinds
    /\ results = {}
    /\ result_nvt_reports = {}
    /\ overrides \in [ Override -> {NoOverride} \cup Earlier ]
    /\ \A o \in Mine : overrides[o] = NoOverride
    /\ permission \in [ Shared -> Location ]
    /\ \A o \in Shared : overrides[o] = NoOverride => permission[o] = "none"
    /\ now = FirstTime
    /\ report_counts = [ k \in Key |-> NoRow ]
    /\ session = [ s \in Session |-> Idle ]
    /\ made = 0 /\ commands = MaxCommands

-----------------------------------------------------------------------------
(***************************************************************************)
(* The counts.                                                             *)
(***************************************************************************)
HasAccess(o) == o \in Shared => permission[o] = "table"
Active(o) == overrides[o].end_time = 0 \/ overrides[o].end_time >= now

\* The overrides that apply to the results of an NVT; the youngest one wins.
Valid(n) == { o \in Override : /\ overrides[o].loc = "table"
                               /\ overrides[o].nvt = n
                               /\ HasAccess(o) /\ Active(o) }
ValidRows(n) == { overrides[o] : o \in Valid(n) }
Youngest(rows) ==
    CHOOSE row \in rows : \A other \in rows : other.creation <= row.creation
NewSeverity(n) == IF ValidRows(n) = {} THEN "original"
                  ELSE Youngest(ValidRows(n)).new_severity

\* The severity of the results of an NVT, and the counts, for a key, when
\* the NVTs in known may be overridden.
SeverityOf(k, known, n) ==
    IF k.override = 1 /\ n \in known THEN NewSeverity(n) ELSE "original"
Matching(k, known, s) ==
    { r \in results : r.qod >= k.min_qod /\ SeverityOf(k, known, r.nvt) = s }
CountsOf(k, known) ==
    [ s \in Severity |-> Cardinality(Matching(k, known, s)) ]

\* What the counts are.
Right(k) == CountsOf(k, Nvt)

\* What the code counts: an override is only used if its NVT is known to be
\* in the report.
report_severity_data(k) == CountsOf(k, result_nvt_reports)

InReport(n) == \E r \in results : r.nvt = n

\* Until when counts with overrides hold: any override ends, of any user.
Ends == { overrides[o].end_time : o \in { p \in Override :
            /\ overrides[p].loc = "table"
            /\ InReport(overrides[p].nvt)
            /\ overrides[p].end_time >= now } }
NextEnd == IF Ends = {} THEN 0 ELSE Min(Ends)

Exists(k) == report_counts[k] # NoRow
report_counts_cache_exists(k) ==
    Exists(k) /\ (report_counts[k].end_time = 0
                    \/ report_counts[k].end_time >= now)

\* A hole: results of an NVT that is not yet known are counted without
\* overrides.
Incomplete(k) ==
    k.override = 1 /\ \E n \in Nvt \ result_nvt_reports : InReport(n)

\* Mutant: the end is stored for counts without overrides too.
cache_report_counts_End(k, counts, bad) ==
    [ counts |-> counts, bad |-> bad,
      end_time |-> IF counts # Zero THEN NextEnd ELSE 0 ]

cache_report_counts(k, counts, bad) ==
    [ counts |-> counts, bad |-> bad,
      end_time |-> IF k.override = 1 /\ counts # Zero THEN NextEnd ELSE 0 ]

-----------------------------------------------------------------------------
(***************************************************************************)
(* Updating the cache in a transaction, after the change that makes it     *)
(* necessary.                                                              *)
(***************************************************************************)
\* init_report_counts_build_iterator
Listed(k) == Exists(k) \/ k \in Defaults

report_cache_counts(clear) ==
    report_counts' = [ k \in Key |->
        IF \/ ~Listed(k)
           \/ report_counts_cache_exists(k) /\ k.override \notin clear
        THEN report_counts[k]
        ELSE cache_report_counts(k, report_severity_data(k), Incomplete(k))' ]

report_clear_count_cache(clear) ==
    report_counts' = [ k \in Key |->
        IF k.override \in clear THEN NoRow ELSE report_counts[k] ]

\* What the commands on overrides and permissions do for an affected report.
Refresh == IF auto_cache_rebuild THEN report_cache_counts({1})
           ELSE report_clear_count_cache({1})

\* reports_for_override: the report has results for the NVT of the override.
reports_for_override(o) == InReport(overrides[o].nvt)

\* A hole: the counts with overrides may be wrong from now on.
MarkOverridden ==
    report_counts' = [ k \in Key |->
        IF k.override = 1 /\ Exists(k)
        THEN [ report_counts[k] EXCEPT !.bad = TRUE ] ELSE report_counts[k] ]

\* What sessions have counted with (1) or without (0) overrides may be out
\* of date.
Touched(which) ==
    [ s \in Session |->
        IF session[s].key.override \in which
             /\ session[s].phase \in {"delete", "insert"}
        THEN [ session[s] EXCEPT !.dirty = TRUE ] ELSE session[s] ]

Command == commands > 0 /\ commands' = commands - 1

-----------------------------------------------------------------------------
(***************************************************************************)
(* A session that updates the cache, or looks at the counts, in separate   *)
(* statements.                                                             *)
(***************************************************************************)
Busy(s, phase) == session[s].phase = phase
Others == << auto_cache_rebuild, kind, results, result_nvt_reports, overrides,
             permission, now, made, commands >>

\* The key is done.
KeyDone(s) ==
    session' = [ session EXCEPT ![s] =
        IF session[s].todo = {} THEN Idle
        ELSE [ session[s] EXCEPT !.phase = "next", !.counts = Zero,
                                 !.dirty = FALSE ] ]

\* The counts are computed, to be stored.
Computed(old, k) ==
    [ phase |-> "delete", todo |-> old.todo \ {k}, clear |-> old.clear,
      key |-> k, counts |-> report_severity_data(k), dirty |-> Incomplete(k) ]

\* A client asks for the counts.
report_counts_id(s, k) ==
    /\ s # Scan /\ Busy(s, "idle")
    /\ ~report_counts_cache_exists(k)
    /\ session' = [ session EXCEPT ![s] = Computed(session[s], k) ]
    /\ UNCHANGED << Others, report_counts >>

\* The scan process has changed the status of the report.
set_report_scan_run_status ==
    /\ auto_cache_rebuild
    /\ kind = "scan" /\ Busy(Scan, "idle")
    /\ Command
    /\ session' = [ session EXCEPT ![Scan] = [ Idle EXCEPT !.phase = "open" ] ]
    /\ UNCHANGED << auto_cache_rebuild, kind, results, result_nvt_reports,
                    overrides, permission, now, report_counts, made >>

\* report_cache_counts opens its iterator, or report_clear_count_cache
\* deletes all.
Open(s) ==
    /\ Busy(s, "open")
    /\ \/ /\ auto_cache_rebuild
          /\ session' = [ session EXCEPT ![s].phase = "next",
                             ![s].todo = { k \in Key : Listed(k) } ]
          /\ UNCHANGED report_counts
       \/ /\ ~auto_cache_rebuild
          /\ report_clear_count_cache(session[s].clear)
          /\ session' = [ session EXCEPT ![s] = Idle ]
    /\ UNCHANGED Others

\* The next key of report_cache_counts is one to clear first.
ClearKey(s, k) ==
    /\ Busy(s, "next") /\ k \in session[s].todo
    /\ k.override \in session[s].clear
    /\ session' = [ session EXCEPT ![s].phase = "compute",
                       ![s].todo = session[s].todo \ {k}, ![s].key = k ]
    /\ report_counts' = [ report_counts EXCEPT ![k] = NoRow ]
    /\ UNCHANGED Others

KeepKey(s, k) ==
    /\ Busy(s, "next") /\ k \in session[s].todo
    /\ k.override \notin session[s].clear
    /\ session' = [ session EXCEPT ![s] =
          IF ~report_counts_cache_exists(k) THEN Computed(session[s], k)
          ELSE IF session[s].todo = {k} THEN Idle
          ELSE [ session[s] EXCEPT !.todo = session[s].todo \ {k} ] ]
    /\ UNCHANGED << Others, report_counts >>

\* report_counts_id_full; something else may have filled the cache.
Compute(s) ==
    /\ Busy(s, "compute")
    /\ IF report_counts_cache_exists(session[s].key) THEN KeyDone(s)
       ELSE session' = [ session EXCEPT ![s] =
                               Computed(session[s], session[s].key) ]
    /\ UNCHANGED << Others, report_counts >>

\* cache_report_counts gives up when the database is busy.
GiveUp(s) ==
    /\ session[s].phase \in {"delete", "insert"}
    /\ KeyDone(s)
    /\ UNCHANGED << Others, report_counts >>

DeleteCounts(s) ==
    /\ Busy(s, "delete")
    /\ report_counts' = [ report_counts EXCEPT ![session[s].key] = NoRow ]
    /\ session' = [ session EXCEPT ![s].phase = "insert" ]
    /\ UNCHANGED Others

\* A hole: another session has stored counts after DeleteCounts, and these
\* are added.
InsertCounts(s) ==
    LET k == session[s].key
        row == cache_report_counts(k, session[s].counts,
                                   session[s].dirty \/ Exists(k))
    IN
    /\ Busy(s, "insert")
    /\ report_counts' = [ report_counts EXCEPT ![k] =
          [ row EXCEPT !.counts = [ v \in Severity |->
                report_counts[k].counts[v] + row.counts[v] ] ] ]
    /\ KeyDone(s)
    /\ UNCHANGED Others

-----------------------------------------------------------------------------
(***************************************************************************)
(* The results.  The scan counts on in all rows, also in rows that have    *)
(* ended, which it makes valid again; and where there is no row it starts  *)
(* at one.  Both are holes.                                                *)
(***************************************************************************)
AddResult(n, q) ==
    \E id \in Result :
        /\ \A r \in results : r.id # id
        /\ results' = results \cup { [ id |-> id, nvt |-> n, qod |-> q ] }

Counted(k, n) ==
    LET severity == IF k.override = 0 THEN "original" ELSE NewSeverity(n)
    IN [ counts |-> [ v \in Severity |-> report_counts[k].counts[v]
                                            + (IF v = severity THEN 1 ELSE 0) ],
         end_time |-> 0,
         bad |-> \/ report_counts[k].bad
                 \/ ~Exists(k) /\ Right(k) # Zero ]

report_add_result ==
    /\ kind = "scan" /\ Busy(Scan, "idle")
    /\ \E n \in Nvt, q \in Qod :
          /\ AddResult(n, q)
          /\ result_nvt_reports' = result_nvt_reports \cup {n}
          /\ UNCHANGED << overrides, permission, now >>
          /\ report_counts' = [ k \in Key |->
                LET row == IF Listed(k) /\ k.min_qod <= q THEN Counted(k, n)
                           ELSE report_counts[k]
                    ended == Exists(k) /\ ~report_counts_cache_exists(k)
                IN IF row = NoRow \/ k.override = 0 THEN row
                   ELSE [ counts |-> row.counts, end_time |-> NextEnd',
                          bad |-> row.bad \/ ended ] ]
    /\ session' = Touched({0, 1})
    /\ UNCHANGED << auto_cache_rebuild, kind, made, commands >>

\* trim_report and trim_partial_report, before a scan goes on: the results of
\* some hosts, or of all, are removed.
trim_partial_report ==
    /\ kind = "scan" /\ Busy(Scan, "idle")
    /\ Command
    /\ \E kept \in SUBSET results : results' = kept
    /\ session' = [ Touched({0, 1}) EXCEPT ![Scan] =
          [ Idle EXCEPT !.phase = "open", !.clear = {0, 1} ] ]
    /\ UNCHANGED << auto_cache_rebuild, kind, result_nvt_reports, overrides,
                    permission, now, report_counts, made >>

(***************************************************************************)
(* create_report adds results in chunks and updates the cache after each,  *)
(* but rows that are there are kept, and overrides are not applied since   *)
(* the NVTs of the report are stored at the end.                           *)
(***************************************************************************)
create_report ==
    /\ kind = "import"
    /\ \E n \in Nvt, q \in Qod : AddResult(n, q)
    /\ UNCHANGED << result_nvt_reports, overrides, permission, now >>
    /\ report_counts' = [ k \in Key |->
          IF ~Listed(k) THEN report_counts[k]
          ELSE IF report_counts_cache_exists(k)
               THEN [ report_counts[k] EXCEPT !.bad = TRUE ]
               ELSE cache_report_counts(k, report_severity_data(k),
                                        Incomplete(k))' ]
    /\ session' = Touched({0, 1})
    /\ UNCHANGED << auto_cache_rebuild, kind, made, commands >>

CreateReportEnd ==
    /\ kind = "import" /\ results # {}
    /\ kind' = "imported"
    /\ result_nvt_reports' = { n \in Nvt : InReport(n) }
    /\ session' = Touched({1})
    /\ UNCHANGED << auto_cache_rebuild, results, overrides, permission, now,
                    report_counts, made, commands >>

\* Time goes on.  What a session has counted is out of date if an override
\* ends just then.
Tick ==
    /\ now < MaxTime
    /\ now' = now + 1
    /\ session' = IF \E o \in Override : overrides[o].end_time = now
                  THEN Touched({1}) ELSE session
    /\ UNCHANGED << auto_cache_rebuild, kind, results, result_nvt_reports,
                    overrides, permission, report_counts, made, commands >>

\* The optimize command, rebuild-report-cache or update-report-cache.
manage_optimize ==
    /\ Command
    /\ UNCHANGED << results, result_nvt_reports, overrides, permission, now >>
    /\ \E clear \in { {}, {0, 1} } : report_cache_counts(clear)
    /\ UNCHANGED << auto_cache_rebuild, kind, session, made >>

-----------------------------------------------------------------------------
(***************************************************************************)
(* The overrides.  Making and modifying them is not a transaction: the row *)
(* is written first, and the cache of the users that have access updated   *)
(* afterwards.                                                             *)
(***************************************************************************)
OverridesOnly ==
    << auto_cache_rebuild, kind, results, result_nvt_reports, now >>

\* Never ends, or ends before the clock ticks.  One that is off has an end
\* time in the past, as one has that has ended.
EndTimes == { 0, now }

\* The session goes on to update the cache, if the report is affected.
ThenRefresh(s, affected) ==
    session' = IF ~affected THEN session
               ELSE [ Touched({1}) EXCEPT ![s] =
                        [ Idle EXCEPT !.phase = "open", !.clear = {1} ] ]

create_override(s, o) ==
    /\ s # Scan /\ Busy(s, "idle")
    /\ overrides[o].loc = "none"
    /\ Command
    /\ made' = made + 1
    /\ \E n \in OverrideNvt, severity \in NewSeverities, end \in EndTimes :
          /\ overrides' = [ overrides EXCEPT ![o] =
                [ loc |-> "table", nvt |-> n, new_severity |-> severity,
                  end_time |-> end, creation |-> made + 1 ] ]
          /\ ThenRefresh(s, HasAccess(o) /\ InReport(n))
    /\ UNCHANGED << OverridesOnly, permission, report_counts >>

\* A hole: a copy is made without a look at the cache.
copy_override(o, p) ==
    /\ overrides[o].loc = "none" /\ o \in Mine
    /\ overrides[p].loc = "table" /\ HasAccess(p)
    /\ Command
    /\ made' = made + 1
    /\ overrides' = [ overrides EXCEPT ![o] =
          [ overrides[p] EXCEPT !.creation = made + 1 ] ]
    /\ IF reports_for_override(p)
       THEN MarkOverridden /\ session' = Touched({1})
       ELSE UNCHANGED << report_counts, session >>
    /\ UNCHANGED << OverridesOnly, permission >>

\* A hole: that only the NVT has changed is not noticed.
modify_override(s, o) ==
    /\ s # Scan /\ Busy(s, "idle")
    /\ overrides[o].loc = "table"
    /\ Command
    /\ \E n \in OverrideNvt, severity \in NewSeverities,
          end \in EndTimes \cup { overrides[o].end_time } :
          LET cache_invalidated == \/ severity # overrides[o].new_severity
                                   \/ end # overrides[o].end_time
              affected == /\ HasAccess(o)
                          /\ reports_for_override(o) \/ InReport(n)
          IN
          /\ overrides' = [ overrides EXCEPT ![o] =
                [ overrides[o] EXCEPT !.nvt = n, !.new_severity = severity,
                                      !.end_time = end ] ]
          /\ \/ /\ cache_invalidated
                /\ ThenRefresh(s, affected)
                /\ UNCHANGED report_counts
             \/ /\ ~cache_invalidated /\ affected /\ n # overrides[o].nvt
                /\ MarkOverridden
                /\ session' = Touched({1})
             \/ /\ ~cache_invalidated
                /\ ~affected /\ n # overrides[o].nvt
                /\ UNCHANGED << report_counts, session >>
    /\ UNCHANGED << OverridesOnly, permission, made >>

\* The other commands are transactions.
RefreshIf(affected) ==
    IF affected THEN Refresh /\ session' = Touched({1})
    ELSE UNCHANGED << report_counts, session >>

\* Mutant: the users that have access are looked up afterwards.
delete_override_Late(o) ==
    /\ overrides[o].loc # "none"
    /\ Command
    /\ \E ultimate \in BOOLEAN :
          /\ overrides[o].loc = "trash" => ultimate
          /\ overrides' = [ overrides EXCEPT ![o] =
                IF ultimate THEN NoOverride
                ELSE [ overrides[o] EXCEPT !.loc = "trash" ] ]
          /\ permission' = IF ultimate /\ o \in Shared
                           THEN [ permission EXCEPT ![o] = "none" ]
                           ELSE permission
    /\ UNCHANGED OverridesOnly
    /\ RefreshIf(/\ overrides[o].loc = "table"
                 /\ reports_for_override(o) /\ HasAccess(o)')
    /\ UNCHANGED made

\* The users that have access are looked up before the override is deleted.
\* An ultimate delete makes the permission an orphan.
delete_override(o) ==
    /\ overrides[o].loc # "none"
    /\ Command
    /\ \E ultimate \in BOOLEAN :
          /\ overrides[o].loc = "trash" => ultimate
          /\ overrides' = [ overrides EXCEPT ![o] =
                IF ultimate THEN NoOverride
                ELSE [ overrides[o] EXCEPT !.loc = "trash" ] ]
          /\ permission' = IF ultimate /\ o \in Shared
                           THEN [ permission EXCEPT ![o] = "none" ]
                           ELSE permission
    /\ UNCHANGED OverridesOnly
    /\ RefreshIf(/\ overrides[o].loc = "table"
                 /\ reports_for_override(o) /\ HasAccess(o))
    /\ UNCHANGED made

RestoreOverride(o) ==
    /\ overrides[o].loc = "trash"
    /\ Command
    /\ overrides' = [ overrides EXCEPT ![o].loc = "table" ]
    /\ UNCHANGED << OverridesOnly, permission >>
    /\ RefreshIf(reports_for_override(o) /\ HasAccess(o))
    /\ UNCHANGED made

-----------------------------------------------------------------------------
(***************************************************************************)
(* The permissions on overrides of the other user, for the owner of the    *)
(* report.                                                                 *)
(***************************************************************************)
SetPermission(o, from, to) ==
    /\ permission[o] = from
    /\ permission' = [ permission EXCEPT ![o] = to ]
    /\ Command
    /\ UNCHANGED << OverridesOnly, overrides, made >>

RefreshFor(o) ==
    RefreshIf(overrides[o].loc = "table" /\ reports_for_override(o))

create_permission(o) ==
    /\ overrides[o].loc = "table"
    /\ SetPermission(o, "none", "table")
    /\ RefreshFor(o)

delete_permission(o) ==
    /\ overrides[o].loc # "none"
    /\ \/ SetPermission(o, "table", "trash") /\ RefreshFor(o)
       \/ SetPermission(o, "table", "none") /\ RefreshFor(o)
       \/ SetPermission(o, "trash", "none")
          /\ UNCHANGED << report_counts, session >>

RestorePermission(o) ==
    /\ SetPermission(o, "trash", "table")
    /\ RefreshFor(o)

\* A permission on something else is given this override, or the permission
\* on this one something else.  A hole: only the reports of what it is given
\* are looked for.
modify_permission(o) ==
    /\ overrides[o].loc = "table"
    /\ \/ SetPermission(o, "none", "table") /\ RefreshFor(o)
       \/ /\ SetPermission(o, "table", "none")
          /\ IF reports_for_override(o)
             THEN MarkOverridden /\ session' = Touched({1})
             ELSE UNCHANGED << report_counts, session >>

-----------------------------------------------------------------------------
CountsNext ==
    \/ \E s \in Session :
          \/ Open(s) \/ Compute(s) \/ GiveUp(s)
          \/ DeleteCounts(s) \/ InsertCounts(s)
          \/ \E k \in Key : \/ report_counts_id(s, k)
                            \/ ClearKey(s, k) \/ KeepKey(s, k)
          \/ \E o \in Override : create_override(s, o) \/ modify_override(s, o)
    \/ set_report_scan_run_status \/ report_add_result \/ trim_partial_report
    \/ create_report \/ CreateReportEnd \/ Tick \/ manage_optimize
    \/ \E o \in Override : \/ delete_override(o) \/ RestoreOverride(o)
                           \/ \E p \in Override : copy_override(o, p)
    \/ \E o \in Shared : \/ create_permission(o) \/ delete_permission(o)
                         \/ RestorePermission(o) \/ modify_permission(o)

CountsSpec == CountsInit /\ [][CountsNext]_counts_vars

-----------------------------------------------------------------------------
(***************************************************************************)
(* Properties.                                                             *)
(***************************************************************************)
\* A session has still to clear the row.
Pending(k) ==
    \E s \in Session : /\ k.override \in session[s].clear
                       /\ Busy(s, "open") \/ k \in session[s].todo

\* Counts that report_counts_cache_exists finds are what counting anew would
\* give, whatever the scan, sessions, commands on overrides and permissions
\* and the ends of overrides did since they were stored; but for the holes
\* and while the session that made the change is still about to clear them.
CacheRight ==
    \A k \in Key :
        report_counts_cache_exists(k) /\ ~report_counts[k].bad /\ ~Pending(k)
            => report_counts[k].counts = Right(k)

\* What report_counts_id promises, "Get only the filtered message counts for
\* a report": what it finds in the cache is right once nobody is at work.
CountsRight ==
    (\A s \in Session : session[s] = Idle) =>
        \A k \in Key : report_counts_cache_exists(k)
                          => report_counts[k].counts = Right(k)

=============================================================================
