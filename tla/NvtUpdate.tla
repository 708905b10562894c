------------------------------ MODULE NvtUpdate ------------------------------
(***************************************************************************)
(* The update of the NVT cache.  The daemon forks a child every few        *)
(* seconds; the child asks the scanner for the version of its feed and, if *)
(* it is another one than the database has, fetches all the NVTs and their *)
(* preferences and replaces those in the database, in a series of          *)
(* transactions.  The daemon also keeps the NVTs in memory (nvti_cache),   *)
(* and reads them again at the next round of its scheduler when the flag   *)
(* update_nvti_cache in the database says so.                              *)
(*                                                                         *)
(* An NVT is known by its OID; of its content only the feed that it came   *)
(* with is kept.  The child's connection to the scanner is                 *)
(* ScannerConnection with cache_mode.                                      *)
(***************************************************************************)
EXTENDS Naturals, FiniteSets

CONSTANTS
    NvtCount,    \* how many NVTs each feed has
    ChunkSize,   \* CHUNK_SIZE of insert_nvts_list
    MaxFeed,     \* how many versions the feed of the scanner goes through
    MaxFaults,   \* how many faults happen
    Faults       \* which

ASSUME NvtBoundAssumption ==
    /\ NvtCount \in Nat /\ ChunkSize \in Nat \ {0}
    /\ MaxFeed \in Nat \ {0} /\ MaxFaults \in Nat
ASSUME NvtFaultAssumption ==
    Faults \subseteq {"connect", "loading", "eof", "kill", "fork", "restart"}

VARIABLES
    feed,               \* the version of the scanner's feed
    update_in_progress, \* the daemon's flag, TRUE while its child lives
    nvti_cache,         \* the NVTs in the memory of the daemon
    pc,                 \* where the child is
    plugins_feed,       \* plugins_feed_version: what the child was told
    chunk_count,        \* of insert_nvts_list
    inserted,           \* how many NVTs of its list the child has inserted
    pending,            \* those that are not committed
    nvts_feed_version,  \* in the meta table, 0 for none
    update_nvti_cache,  \* the flag in the meta table
    nvts,               \* the nvts table: OID -> feed, 0 for no row
    nvt_preferences,    \* the feed that the preferences are from, 0 for none
    lost,               \* history: an update was cut off once it was recorded
    faults              \* faults left

Oid == 1 .. NvtCount
Feed == 1 .. MaxFeed
NoNvts == [o \in Oid |-> 0]

child == << pc, plugins_feed, chunk_count, inserted, pending >>
world == << feed, update_in_progress, nvti_cache >>
meta == << nvts_feed_version, update_nvti_cache >>
tables == << nvts, nvt_preferences >>
vars == << feed, update_in_progress, nvti_cache, child, meta, tables, lost,
           faults >>

(***************************************************************************)
(* Program counters of the child:                                          *)
(*   none      there is no child                                           *)
(*   connect   before it connects to the scanner                           *)
(*   sleep     the scanner is loading: it waits, and tries again           *)
(*   info      connected, before the reply to NVT_INFO                     *)
(*   list      it has asked for the complete list                          *)
(*   version1, version2, version3   set_nvts_feed_version                  *)
(*   prefs     before the preferences                                      *)
(*   truncate, insert, inspref, finish   manage_complete_nvt_cache_update  *)
(*   exit      it has ended, the daemon does not know yet                  *)
(***************************************************************************)
Recorded == { "version3", "prefs", "truncate", "insert", "inspref", "finish" }
PC == { "none", "connect", "sleep", "info", "list", "version1", "version2",
        "exit" } \cup Recorded

\* The type invariant.
TypeOK ==
    /\ feed \in Feed
    /\ update_in_progress \in BOOLEAN
    /\ nvti_cache \in [Oid -> 0 .. MaxFeed]
    /\ pc \in PC
    /\ plugins_feed \in 0 .. MaxFeed
    /\ chunk_count \in 0 .. ChunkSize
    /\ inserted \in 0 .. NvtCount
    /\ pending \subseteq Oid
    /\ nvts_feed_version \in 0 .. MaxFeed
    /\ update_nvti_cache \in BOOLEAN
    /\ nvts \in [Oid -> 0 .. MaxFeed]
    /\ nvt_preferences \in 0 .. MaxFeed
    /\ lost \in BOOLEAN
    /\ faults \in 0 .. MaxFaults
    /\ pc # "none" => update_in_progress
    /\ pending # {} => pc = "insert" /\ chunk_count > 0

Init ==
    /\ feed = 1
    /\ update_in_progress = FALSE
    /\ nvti_cache = NoNvts
    /\ pc = "none" /\ plugins_feed = 0
    /\ chunk_count = 0 /\ inserted = 0 /\ pending = {}
    /\ nvts_feed_version = 0 /\ update_nvti_cache = FALSE
    /\ nvts = NoNvts /\ nvt_preferences = 0
    /\ lost = FALSE
    /\ faults = MaxFaults

Fault(f) == f \in Faults /\ faults > 0 /\ faults' = faults - 1

-----------------------------------------------------------------------------
(***************************************************************************)
(* The daemon.                                                             *)
(***************************************************************************)
\* fork_update_nvt_cache, from manage_sync.
fork_update_nvt_cache ==
    /\ ~update_in_progress
    /\ update_in_progress' = TRUE
    /\ pc' = "connect"
    /\ UNCHANGED << feed, nvti_cache, plugins_feed, chunk_count, inserted,
                    pending, meta, tables, lost, faults >>

\* Mutant of handle_sigchld: the flag is not cleared.
handle_sigchld_KeepsFlag ==
    /\ pc = "exit"
    /\ pc' = "none"
    /\ UNCHANGED << world, plugins_feed, chunk_count, inserted, pending, meta,
                    tables, lost, faults >>

\* The fork fails: the flag is cleared again.
ForkFails ==
    /\ Fault("fork")
    /\ ~update_in_progress
    /\ UNCHANGED << feed, update_in_progress, nvti_cache, child, meta, tables,
                    lost >>

handle_sigchld ==
    /\ pc = "exit"
    /\ pc' = "none"
    /\ update_in_progress' = FALSE
    /\ UNCHANGED << feed, nvti_cache, plugins_feed, chunk_count, inserted,
                    pending, meta, tables, lost, faults >>

\* At the start of each round of the scheduler.
manage_update_nvti_cache ==
    /\ update_nvti_cache
    /\ nvti_cache' = nvts
    /\ update_nvti_cache' = FALSE
    /\ UNCHANGED << feed, update_in_progress, child, nvts_feed_version, tables,
                    lost, faults >>

Forget ==
    /\ plugins_feed' = 0 /\ chunk_count' = 0
    /\ inserted' = 0 /\ pending' = {}

\* The daemon and its child are stopped and started again: check_db_nvts
\* clears the flag, init_manage_internal reads the NVTs.
Restart ==
    /\ Fault("restart")
    /\ pc' = "none" /\ update_in_progress' = FALSE
    /\ Forget
    /\ update_nvti_cache' = FALSE
    /\ nvti_cache' = nvts
    /\ lost' = (lost \/ pc \in Recorded)
    /\ UNCHANGED << feed, nvts_feed_version, tables >>

-----------------------------------------------------------------------------
(***************************************************************************)
(* The child: update_nvt_cache_retry and, in a child of its own,           *)
(* update_nvt_cache and serve_gmp.                                         *)
(***************************************************************************)
Goto(l) == pc' = l

End ==
    /\ Goto("exit")
    /\ Forget

Connect ==
    /\ pc = "connect"
    /\ Goto("info")
    /\ plugins_feed' = feed
    /\ UNCHANGED << world, chunk_count, inserted, pending, meta, tables, lost,
                    faults >>

ConnectFails ==
    /\ Fault("connect")
    /\ pc = "connect"
    /\ End
    /\ UNCHANGED << world, meta, tables, lost >>

\* serve_gmp returns 1: exit status 2.
ScannerLoading ==
    /\ Fault("loading")
    /\ pc = "connect"
    /\ Goto("sleep")
    /\ UNCHANGED << world, plugins_feed, chunk_count, inserted, pending, meta,
                    tables, lost >>

Retry ==
    /\ pc = "sleep"
    /\ Goto("connect")
    /\ UNCHANGED << world, plugins_feed, chunk_count, inserted, pending, meta,
                    tables, lost, faults >>

\* The reply to NVT_INFO: the NVTs are at this version already, or not.
NvtInfo ==
    /\ pc = "info"
    /\ IF nvts_feed_version = plugins_feed
       THEN End
       ELSE Goto("list") /\ UNCHANGED << plugins_feed, chunk_count, inserted,
                                         pending >>
    /\ UNCHANGED << world, meta, tables, lost, faults >>

\* The end of PLUGIN_LIST: SCANNER_INIT_GOT_PLUGINS, set_nvts_feed_version.
GotPlugins ==
    /\ pc = "list"
    /\ Goto("version1")
    /\ UNCHANGED << world, plugins_feed, chunk_count, inserted, pending, meta,
                    tables, lost, faults >>

DeleteVersion ==
    /\ pc = "version1"
    /\ nvts_feed_version' = 0
    /\ Goto("version2")
    /\ UNCHANGED << world, plugins_feed, chunk_count, inserted, pending,
                    update_nvti_cache, tables, lost, faults >>

InsertVersion ==
    /\ pc = "version2"
    /\ nvts_feed_version' = plugins_feed
    /\ lost' = FALSE
    /\ Goto("version3")
    /\ UNCHANGED << world, plugins_feed, chunk_count, inserted, pending,
                    update_nvti_cache, tables, faults >>

QueueMemoryUpdate ==
    /\ pc = "version3"
    /\ update_nvti_cache' = TRUE
    /\ Goto("prefs")
    /\ UNCHANGED << world, plugins_feed, chunk_count, inserted, pending,
                    nvts_feed_version, tables, lost, faults >>

\* Mutant of Truncate: only the preferences are deleted.
Truncate_Preferences ==
    /\ pc = "truncate"
    /\ nvt_preferences' = 0
    /\ Goto("insert")
    /\ UNCHANGED << world, plugins_feed, chunk_count, inserted, pending, meta,
                    nvts, lost, faults >>

\* The end of PREFERENCES: manage_complete_nvt_cache_update.
GotPreferences ==
    /\ pc = "prefs"
    /\ Goto("truncate")
    /\ UNCHANGED << world, plugins_feed, chunk_count, inserted, pending, meta,
                    tables, lost, faults >>

Truncate ==
    /\ pc = "truncate"
    /\ nvts' = NoNvts /\ nvt_preferences' = 0
    /\ Goto("insert")
    /\ UNCHANGED << world, plugins_feed, chunk_count, inserted, pending, meta,
                    lost, faults >>

\* The rows of an open transaction become visible.
Committed(new) == [o \in Oid |-> IF o \in new THEN plugins_feed ELSE nvts[o]]

\* Mutant of NextChunkCount: a chunk is one too long.
NextChunkCount_Late ==
    IF chunk_count = ChunkSize + 1 THEN 0 ELSE chunk_count + 1

(***************************************************************************)
(* make_nvt_from_nvti: a transaction is opened when chunk_count is 0 and   *)
(* committed when it is 0 again.  An OID that exists already is ignored.   *)
(***************************************************************************)
NextChunkCount ==
    CASE chunk_count = 0 -> 1
      [] chunk_count = ChunkSize -> 0
      [] OTHER -> chunk_count + 1

make_nvt_from_nvti ==
    /\ pc = "insert" /\ inserted < NvtCount
    /\ inserted' = inserted + 1
    /\ chunk_count' = NextChunkCount
    /\ LET o == inserted + 1
           new == IF nvts[o] # 0 THEN pending ELSE pending \cup {o}
       IN IF chunk_count' = 0
          THEN nvts' = Committed(new) /\ pending' = {}
          ELSE pending' = new /\ UNCHANGED nvts
    /\ UNCHANGED << world, pc, plugins_feed, meta, nvt_preferences, lost,
                    faults >>

\* Mutant of insert_nvts_list: the last transaction is never committed.
insert_nvts_list_NoCommit ==
    /\ pc = "insert" /\ inserted = NvtCount
    /\ pending' = {}
    /\ Goto("inspref")
    /\ UNCHANGED << world, plugins_feed, chunk_count, inserted, meta, tables,
                    lost, faults >>

\* The end of insert_nvts_list.
insert_nvts_list ==
    /\ pc = "insert" /\ inserted = NvtCount
    /\ IF chunk_count > 0
       THEN nvts' = Committed(pending) /\ pending' = {}
       ELSE UNCHANGED << nvts, pending >>
    /\ Goto("inspref")
    /\ UNCHANGED << world, plugins_feed, chunk_count, inserted, meta,
                    nvt_preferences, lost, faults >>

insert_nvt_preferences_list ==
    /\ pc = "inspref"
    /\ nvt_preferences' = plugins_feed
    /\ Goto("finish")
    /\ UNCHANGED << world, plugins_feed, chunk_count, inserted, pending, meta,
                    nvts, lost, faults >>

\* The configs, their caches, the CVEs and the check time; then BYE.
Finish ==
    /\ pc = "finish"
    /\ End
    /\ UNCHANGED << world, meta, tables, lost, faults >>

\* The scanner closes the connection.
EndOfFile ==
    /\ Fault("eof")
    /\ pc \in {"info", "list", "prefs"}
    /\ End
    /\ lost' = (lost \/ pc \in Recorded)
    /\ UNCHANGED << world, meta, tables >>

\* The child dies; the database drops its transaction.  In the code it is two
\* processes, one that tries again and its child that does the update: they are one
\* here, and die together.
Kill ==
    /\ Fault("kill")
    /\ pc \notin {"none", "exit"}
    /\ End
    /\ lost' = (lost \/ pc \in Recorded)
    /\ UNCHANGED << world, meta, tables >>

-----------------------------------------------------------------------------
\* The scanner has loaded a new feed; the connections that it has keep to
\* the old one.
NewFeed ==
    /\ feed < MaxFeed
    /\ feed' = feed + 1
    /\ UNCHANGED << update_in_progress, nvti_cache, child, meta, tables, lost,
                    faults >>

ChildStep ==
    \/ Connect \/ Retry \/ NvtInfo
    \/ GotPlugins \/ DeleteVersion \/ InsertVersion \/ QueueMemoryUpdate
    \/ GotPreferences \/ Truncate \/ make_nvt_from_nvti \/ insert_nvts_list
    \/ insert_nvt_preferences_list \/ Finish

Next ==
    \/ fork_update_nvt_cache \/ ForkFails \/ handle_sigchld
    \/ manage_update_nvti_cache \/ Restart
    \/ ChildStep
    \/ ConnectFails \/ ScannerLoading \/ EndOfFile \/ Kill
    \/ NewFeed

Spec == Init /\ [][Next]_vars

\* The loop of the daemon goes round, and its child and the scanner go on.
FairSpec ==
    /\ Spec
    /\ WF_vars(fork_update_nvt_cache) /\ WF_vars(handle_sigchld)
    /\ WF_vars(manage_update_nvti_cache) /\ WF_vars(ChildStep)

-----------------------------------------------------------------------------
(***************************************************************************)
(* The nvts table never holds NVTs of two feeds, at whatever transaction   *)
(* an earlier update was cut off: make_nvt_from_nvti keeps a row that is   *)
(* there already, so an old row would survive the update.                  *)
(***************************************************************************)
OneFeed == \A o, p \in Oid : nvts[o] # 0 /\ nvts[p] # 0 => nvts[o] = nvts[p]

(***************************************************************************)
(* When an update has run to its end, the database has all the NVTs and    *)
(* the preferences of the feed that it names, wherever the last chunk of   *)
(* insert_nvts_list ended, and although earlier updates were cut off.      *)
(***************************************************************************)
Complete ==
    (nvts_feed_version # 0 /\ ~lost /\ pc \notin Recorded) =>
        nvt_preferences = nvts_feed_version
            /\ \A o \in Oid : nvts[o] = nvts_feed_version

(***************************************************************************)
(* The database comes to name the feed of the scanner, whatever failed     *)
(* before: the daemon notices the end of each child, and tries again.      *)
(***************************************************************************)
UpToDate == <>[](nvts_feed_version = feed)

(***************************************************************************)
(* set_nvts_feed_version: "Also queue an update to the nvti cache."  The   *)
(* NVTs in memory come to be those in the database.                        *)
(***************************************************************************)
MemoryFollows == <>[](nvti_cache = nvts)
=============================================================================
