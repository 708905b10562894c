----------------------------- MODULE CacheProofs -----------------------------
(***************************************************************************)
(* Theorems about the two caches of the manager: ReportCounts, the result  *)
(* counts of a report, for any sets of results, NVTs, severities, users'   *)
(* overrides, qualities of detection and sessions; and NvtUpdate, the NVTs *)
(* of the scanner, for every number of NVTs, every size of a chunk, every  *)
(* number of feeds and every set of faults.                                *)
(***************************************************************************)
EXTENDS ReportCounts, NvtUpdate, FiniteSetTheorems, WellFoundedInduction, TLAPS

(***************************************************************************)
(* The result counts.                                                      *)
(*                                                                         *)
(* CacheRight is not inductive.  What a session has counted and not yet    *)
(* stored has to be right too (SessionRight), and a row has to end no      *)
(* later than any override that bears on it (EndsBy), so that the row is   *)
(* no longer found when time takes that override away.  Each step is shown *)
(* to do one of a few things to a row (RowStep) and to what a session has  *)
(* counted (SessionStep), and these to keep the invariant.                 *)
(***************************************************************************)
\* The part of the state that is neither the cache nor a session: the results
\* are finitely many, and every override that is made is a command.
OverrideRow ==
    [ loc : {"table", "trash"}, nvt : OverrideNvt,
      new_severity : NewSeverities, end_time : EndTime,
      creation : 0 .. MaxCommands ]
WorldOK ==
    /\ auto_cache_rebuild \in BOOLEAN
    /\ kind \in {"scan", "import", "imported"}
    /\ results \subseteq Results /\ IsFiniteSet(results)
    /\ result_nvt_reports \subseteq Nvt
    /\ overrides \in [ Override -> {NoOverride} \cup OverrideRow ]
    /\ permission \in [ Shared -> Location ]
    /\ now \in FirstTime .. MaxTime
    /\ made \in Nat /\ commands \in Nat /\ made + commands <= MaxCommands

\* A row of the cache: one that is there has an end time; counts without
\* overrides do not end.
Row == [ counts : Counts, end_time : {-1} \cup EndTime, bad : BOOLEAN ]
Plain(counts) == \A v \in NewSeverities : counts[v] = 0
RowOK(k, row) ==
    /\ row \in Row
    /\ row # NoRow => row.end_time # -1
    /\ k.override = 0 => row.end_time \in {-1, 0} /\ Plain(row.counts)
RowsOK == /\ report_counts = [ k \in Key |-> report_counts[k] ]
          /\ \A k \in Key : RowOK(k, report_counts[k])

\* A session: at rest it has nothing to do; the key in work is done with.
SessionRow ==
    [ phase : {"idle", "open", "next", "compute", "delete", "insert"},
      todo : SUBSET Key, clear : SUBSET {0, 1}, key : Key,
      counts : Counts, dirty : BOOLEAN ]
Storing(x) == x.phase \in {"delete", "insert"}
SessionOK(x) ==
    /\ x \in SessionRow
    /\ x.phase = "idle" => x.todo = {} /\ x.clear = {}
    /\ x.phase = "compute" => x.key \notin x.todo
    /\ Storing(x) /\ x.key.override = 0 => Plain(x.counts)
SessionsOK == /\ session = [ s \in Session |-> session[s] ]
              /\ \A s \in Session : SessionOK(session[s])

\* What a session is about to store is right unless it is marked dirty.
SessionRight == \A s \in Session : \A k \in Key :
    Storing(session[s]) /\ session[s].key = k /\ ~session[s].dirty
        => session[s].counts = Right(k)

\* The override bears on the counts of k; counts that hold until t do not
\* outlive an override that bears on them.
Bearing(k, o) ==
    /\ overrides[o].loc = "table" /\ HasAccess(o)
    /\ \E r \in results : r.nvt = overrides[o].nvt /\ r.qod >= k.min_qod
EndsBy(k, t) ==
    \A o \in Override : Bearing(k, o) /\ overrides[o].end_time >= now
                          => t # 0 /\ t <= overrides[o].end_time

\* Rows that CacheRight is about are right, and hold until an override ends
\* that bears on them and no longer.
RowRight(k) ==
    report_counts_cache_exists(k) /\ ~report_counts[k].bad /\ ~Pending(k) =>
        /\ report_counts[k].counts = Right(k)
        /\ k.override = 1 => EndsBy(k, report_counts[k].end_time)
RowsRight == \A k \in Key : RowRight(k)

CountsInv == WorldOK /\ RowsOK /\ SessionsOK /\ SessionRight /\ RowsRight
-----------------------------------------------------------------------------
\* What the counts are made of.
DataOK ==
    /\ results \subseteq Results /\ IsFiniteSet(results)
    /\ \A o \in Override :
          /\ overrides[o].end_time \in EndTime
          /\ overrides[o].creation \in 0 .. MaxCommands
          /\ overrides[o].loc = "table"
                => overrides[o].new_severity \in NewSeverities
    /\ now \in FirstTime .. MaxTime

LEMMA CountsConstants ==
    /\ MaxTime \in Nat /\ MaxTime >= FirstTime /\ MaxCommands \in Nat
    /\ Qod \cup MinQod \subseteq Nat /\ MIN_QOD_DEFAULT \in MinQod
    /\ "original" \notin NewSeverities /\ NoNvt \notin Nvt
    /\ Mine \cap Shared = {} /\ Scan \in Session
    /\ Kinds \subseteq {"scan", "import"} /\ Settings \subseteq BOOLEAN
BY ReportCountsAssumption, Zenon

\* Natural numbers have a least one.
LEMMA LeastNatural ==
    ASSUME NEW S, S \subseteq Nat, S # {}
    PROVE  \E m \in S : \A y \in S : m <= y
<1> DEFINE R == OpToRel(<, Nat)
<1>1. IsWellFoundedOn(R, Nat)
  BY NatLessThanWellFounded
<1>2. \A x, y \in Nat : x < y => << x, y >> \in R
  BY DEF OpToRel
<1> HIDE DEF R
<1>3. PICK m \in S : \A y \in S : ~(<< y, m >> \in R)
  BY <1>1, WFMin
<1>4. \A y \in S : m <= y
  <2> SUFFICES ASSUME NEW y \in S, ~(m <= y) PROVE FALSE
    OBVIOUS
  <2>1. y \in Nat /\ m \in Nat /\ y < m
    OBVIOUS
  <2> QED
    BY <1>2, <1>3, <2>1
<1> QED
  BY <1>4

\* The least of the end times.
LEMMA LeastOf ==
    ASSUME NEW S, S \subseteq Nat, S # {}
    PROVE  Min(S) \in S /\ \A y \in S : Min(S) <= y
BY LeastNatural DEF Min

\* There is a youngest row.
LEMMA YoungestOf ==
    ASSUME NEW rows, rows # {}, NEW B \in Nat,
           \A row \in rows : row.creation \in 0 .. B
    PROVE  Youngest(rows) \in rows
<1> DEFINE T == { B - row.creation : row \in rows }
<1>1. T \subseteq Nat /\ T # {}
  OBVIOUS
<1>2. PICK m \in T : \A y \in T : m <= y
  <2> HIDE DEF T
  <2> QED
    BY <1>1, LeastNatural
<1>3. PICK row \in rows : m = B - row.creation
  OBVIOUS
<1>4. \A old \in rows : old.creation <= row.creation
  <2> TAKE old \in rows
  <2>1. m <= B - old.creation
    BY <1>2
  <2> QED
    BY <1>3, <2>1
<1> QED
  BY <1>4 DEF Youngest

LEMMA DataTyped == WorldOK => DataOK
<1> SUFFICES ASSUME WorldOK PROVE DataOK
  OBVIOUS
<1>1. \A o \in Override :
          /\ overrides[o].end_time \in EndTime
          /\ overrides[o].creation \in 0 .. MaxCommands
          /\ overrides[o].loc = "table"
                => overrides[o].new_severity \in NewSeverities
  <2> TAKE o \in Override
  <2>1. \/ overrides[o] = NoOverride
        \/ overrides[o] \in OverrideRow
    BY DEF WorldOK
  <2> QED
    BY <2>1, CountsConstants DEF NoOverride, EndTime, OverrideRow
<1> QED
  BY <1>1 DEF DataOK, WorldOK

\* Overrides give severities.
LEMMA SeverityTyped ==
    DataOK => \A k, known, n : SeverityOf(k, known, n) \in Severity
<1> SUFFICES ASSUME DataOK, NEW n PROVE NewSeverity(n) \in Severity
  BY DEF SeverityOf, Severity
<1>1. CASE ValidRows(n) = {}
  BY <1>1 DEF NewSeverity, Severity
<1>2. CASE ValidRows(n) # {}
  <2>1. \A row \in ValidRows(n) : /\ row.creation \in 0 .. MaxCommands
                                  /\ row.new_severity \in NewSeverities
    BY DEF DataOK, ValidRows, Valid
  <2>2. Youngest(ValidRows(n)) \in ValidRows(n)
    BY <1>2, <2>1, YoungestOf, CountsConstants
  <2> QED
    BY <1>2, <2>1, <2>2 DEF NewSeverity, Severity
<1> QED
  BY <1>1, <1>2

\* Counts are numbers.
LEMMA CountsTyped == DataOK => \A k, known : CountsOf(k, known) \in Counts
<1> SUFFICES ASSUME DataOK, NEW k, NEW known, NEW s \in Severity
             PROVE  Cardinality(Matching(k, known, s)) \in Nat
  BY DEF CountsOf, Counts
<1>1. Matching(k, known, s) \in SUBSET results
  BY DEF Matching
<1> QED
  BY <1>1, FS_Subset, FS_CardinalityType DEF DataOK

\* No result has a severity of an override when overrides do not apply.
LEMMA PlainCounts ==
    \A k, known : k.override = 0 =>
        \A v \in NewSeverities : CountsOf(k, known)[v] = 0
<1> SUFFICES ASSUME NEW k, NEW known, k.override = 0, NEW v \in NewSeverities
             PROVE  CountsOf(k, known)[v] = 0
  OBVIOUS
<1>1. \A n : SeverityOf(k, known, n) = "original"
  BY DEF SeverityOf
<1>2. Matching(k, known, v) = {}
  BY <1>1, CountsConstants DEF Matching
<1>3. v \in Severity
  BY DEF Severity
<1> QED
  BY <1>2, <1>3, FS_EmptySet DEF CountsOf

\* Counts of which all NVTs are known are right.
LEMMA CompleteRight ==
    DataOK => \A k \in Key : ~Incomplete(k) => report_severity_data(k) = Right(k)
<1> SUFFICES ASSUME DataOK, NEW k \in Key, ~Incomplete(k)
             PROVE  report_severity_data(k) = Right(k)
  OBVIOUS
<1>1. \A r \in results : SeverityOf(k, result_nvt_reports, r.nvt)
                            = SeverityOf(k, Nvt, r.nvt)
  <2> TAKE r \in results
  <2>1. r.nvt \in Nvt
    BY DEF DataOK, Results
  <2> QED
    BY <2>1 DEF SeverityOf, Incomplete, InReport
<1>2. \A s : Matching(k, result_nvt_reports, s) = Matching(k, Nvt, s)
  BY <1>1 DEF Matching
<1> QED
  BY <1>2 DEF report_severity_data, Right, CountsOf

\* A result that is counted is in the counts.
LEMMA CountedResult ==
    DataOK => \A k \in Key : \A r \in results :
        r.qod >= k.min_qod => Right(k) # Zero
<1> SUFFICES ASSUME DataOK, NEW k \in Key, NEW r \in results,
                    r.qod >= k.min_qod, Right(k) = Zero
             PROVE  FALSE
  OBVIOUS
<1> DEFINE s == SeverityOf(k, Nvt, r.nvt)
<1>1. s \in Severity
  BY SeverityTyped
<1>2. r \in Matching(k, Nvt, s)
  BY DEF Matching
<1>3. Matching(k, Nvt, s) \in SUBSET results
  BY DEF Matching
<1>4. IsFiniteSet(Matching(k, Nvt, s))
  BY <1>3, FS_Subset DEF DataOK
<1>5. Cardinality(Matching(k, Nvt, s)) = 0
  BY <1>1 DEF Right, CountsOf, Zero
<1> QED
  BY <1>2, <1>4, <1>5, FS_EmptySet

\* The next end is an end time, and not after any end to come.
LEMMA NextEndRight ==
    DataOK => /\ NextEnd \in EndTime
              /\ \A t \in Ends : NextEnd # 0 /\ NextEnd <= t
<1> SUFFICES ASSUME DataOK PROVE /\ NextEnd \in EndTime
                                 /\ \A t \in Ends : NextEnd # 0 /\ NextEnd <= t
  OBVIOUS
<1>1. \A t \in Ends : t \in EndTime /\ t >= now
  BY DEF DataOK, Ends
<1>2. \A t \in Ends : t \in Nat /\ t # 0
  BY <1>1, CountsConstants DEF EndTime, DataOK, FirstTime
<1>3. CASE Ends = {}
  BY <1>3, CountsConstants DEF NextEnd, EndTime
<1>4. CASE Ends # {}
  <2>1. Min(Ends) \in Ends /\ \A y \in Ends : Min(Ends) <= y
    BY <1>2, <1>4, LeastOf
  <2> QED
    BY <1>1, <1>2, <1>4, <2>1 DEF NextEnd
<1> QED
  BY <1>3, <1>4

\* Right counts are stored until the next end that bears on them.
LEMMA StoredEnds ==
    DataOK => \A k \in Key : k.override = 1 =>
        /\ EndsBy(k, NextEnd)
        /\ \A b : EndsBy(k, cache_report_counts(k, Right(k), b).end_time)
<1> SUFFICES ASSUME DataOK, NEW k \in Key, k.override = 1
             PROVE  /\ EndsBy(k, NextEnd)
                    /\ \A b : EndsBy(k, cache_report_counts(k, Right(k), b).end_time)
  OBVIOUS
<1>1. ASSUME NEW o \in Override, Bearing(k, o), overrides[o].end_time >= now
      PROVE  overrides[o].end_time \in Ends /\ Right(k) # Zero
  BY <1>1, CountedResult DEF Bearing, Ends, InReport
<1>2. EndsBy(k, NextEnd)
  BY <1>1, NextEndRight DEF EndsBy
<1>3. ASSUME NEW b PROVE EndsBy(k, cache_report_counts(k, Right(k), b).end_time)
  <2>1. cache_report_counts(k, Right(k), b).end_time
          = IF Right(k) # Zero THEN NextEnd ELSE 0
    BY DEF cache_report_counts
  <2> QED
    BY <1>1, <1>2, <2>1 DEF EndsBy
<1> QED
  BY <1>2, <1>3

\* The same for the next state.
LEMMA StoredEndsNext ==
    DataOK' => (\A k \in Key : k.override = 1 =>
        /\ EndsBy(k, NextEnd)
        /\ \A b : EndsBy(k, cache_report_counts(k, Right(k), b).end_time))'
BY StoredEnds, PTL
LEMMA DataTypedNext == WorldOK' => DataOK'
BY DataTyped, PTL
LEMMA CountsTypedNext == DataOK' => (\A k, known : CountsOf(k, known) \in Counts)'
BY CountsTyped, PTL
LEMMA PlainCountsNext ==
    (\A k, known : k.override = 0 =>
        \A v \in NewSeverities : CountsOf(k, known)[v] = 0)'
BY PlainCounts, PTL
LEMMA CompleteRightNext ==
    DataOK' => (\A k \in Key : ~Incomplete(k) => report_severity_data(k) = Right(k))'
BY CompleteRight, PTL
LEMMA NextEndRightNext ==
    DataOK' => (/\ NextEnd \in EndTime
                /\ \A t \in Ends : NextEnd # 0 /\ NextEnd <= t)'
BY NextEndRight, PTL

-----------------------------------------------------------------------------
(***************************************************************************)
(* What makes the counts change, and what does not.                        *)
(***************************************************************************)
\* The counts depend on the results and on the valid overrides of what they
\* count.
LEMMA SameCounts ==
    ASSUME results' = results, NEW k \in Key,
           k.override = 1 => \A r \in results : r.qod >= k.min_qod
                                => ValidRows(r.nvt)' = ValidRows(r.nvt)
    PROVE  Right(k)' = Right(k)
<1>1. \A r \in results : r.qod >= k.min_qod
        => SeverityOf(k, Nvt, r.nvt)' = SeverityOf(k, Nvt, r.nvt)
  BY DEF SeverityOf, NewSeverity
<1>2. \A s : Matching(k, Nvt, s)' = Matching(k, Nvt, s)
  BY <1>1 DEF Matching
<1> QED
  BY <1>2 DEF Right, CountsOf

\* The counts for k and the ends that bear on them stay.
Kept(k) == /\ Right(k)' = Right(k)
           /\ \A t : EndsBy(k, t) => EndsBy(k, t)'

\* The override applies to a result of the report.
Effective(o) == /\ overrides[o].loc = "table" /\ HasAccess(o)
                /\ InReport(overrides[o].nvt)

\* Only the override o is changed, or the access to it.
OnlyOverride(o) ==
    /\ results' = results /\ now' = now
    /\ \A p \in Override \ {o} : /\ overrides'[p] = overrides[p]
                                 /\ HasAccess(p)' <=> HasAccess(p)

LEMMA PlainKept ==
    ASSUME results' = results, NEW k \in Key, k.override = 0
    PROVE  Right(k)' = Right(k)
BY SameCounts

LEMMA SameKept ==
    ASSUME results' = results, overrides' = overrides,
           permission' = permission, now' = now
    PROVE  \A k \in Key : Kept(k)
<1>1. ASSUME NEW n PROVE ValidRows(n)' = ValidRows(n)
  BY DEF ValidRows, Valid, HasAccess, Active
<1>2. \A k \in Key : Right(k)' = Right(k)
  BY <1>1, SameCounts
<1>3. ASSUME NEW k \in Key, NEW t, EndsBy(k, t) PROVE EndsBy(k, t)'
  BY <1>3 DEF EndsBy, Bearing, HasAccess
<1> QED
  BY <1>2, <1>3 DEF Kept

\* An override that does not apply before or after changes nothing.
LEMMA IneffectiveKept ==
    ASSUME NEW o \in Override, OnlyOverride(o), ~Effective(o), ~Effective(o)'
    PROVE  \A k \in Key : Kept(k)
<1>1. ASSUME NEW r \in results PROVE ValidRows(r.nvt)' = ValidRows(r.nvt)
  <2>1. InReport(r.nvt) /\ InReport(r.nvt)'
    BY DEF InReport, OnlyOverride
  <2>2. o \notin Valid(r.nvt) /\ o \notin Valid(r.nvt)'
    BY <2>1 DEF Valid, Effective
  <2>3. \A p \in Override \ {o} : p \in Valid(r.nvt)' <=> p \in Valid(r.nvt)
    BY DEF OnlyOverride, Valid, Active
  <2>4. Valid(r.nvt)' = Valid(r.nvt)
    <3>1. Valid(r.nvt) \subseteq Override /\ Valid(r.nvt)' \subseteq Override
      BY DEF Valid
    <3> QED
      BY <2>2, <2>3, <3>1
  <2>5. \A p \in Valid(r.nvt) : overrides'[p] = overrides[p]
    BY <2>2 DEF OnlyOverride, Valid
  <2> QED
    BY <2>4, <2>5 DEF ValidRows
<1>2. \A k \in Key : Right(k)' = Right(k)
  BY <1>1, SameCounts DEF OnlyOverride
<1>3. ASSUME NEW k \in Key, NEW t, EndsBy(k, t) PROVE EndsBy(k, t)'
  <2> SUFFICES ASSUME NEW p \in Override, Bearing(k, p)',
                      overrides'[p].end_time >= now'
               PROVE  t # 0 /\ t <= overrides'[p].end_time
    BY DEF EndsBy
  <2>1. p # o
    BY DEF Bearing, Effective, InReport
  <2>2. Bearing(k, p) /\ overrides'[p] = overrides[p]
    BY <2>1 DEF Bearing, OnlyOverride
  <2> QED
    BY <1>3, <2>2 DEF EndsBy, OnlyOverride
<1> QED
  BY <1>2, <1>3 DEF Kept

\* One more result: one more of its severity, if it is counted.
LEMMA AddedCounts ==
    ASSUME DataOK, NEW n \in Nvt, NEW q \in Qod, AddResult(n, q),
           overrides' = overrides, permission' = permission, now' = now,
           NEW k \in Key
    PROVE  /\ q >= k.min_qod =>
                \A s \in Severity : Right(k)'[s] = Right(k)[s]
                    + (IF s = SeverityOf(k, Nvt, n) THEN 1 ELSE 0)
           /\ ~(q >= k.min_qod) => Right(k)' = Right(k)
<1>1. PICK id \in Result :
          /\ \A r \in results : r.id # id
          /\ results' = results \cup { [ id |-> id, nvt |-> n, qod |-> q ] }
  BY DEF AddResult
<1> DEFINE x == [ id |-> id, nvt |-> n, qod |-> q ]
<1>2. x \notin results /\ x.nvt = n /\ x.qod = q /\ results' = results \cup {x}
  BY <1>1
<1> HIDE DEF x
<1>3. ASSUME NEW m PROVE SeverityOf(k, Nvt, m)' = SeverityOf(k, Nvt, m)
  BY DEF SeverityOf, NewSeverity, ValidRows, Valid, HasAccess, Active
<1>4. ASSUME NEW s
      PROVE  Matching(k, Nvt, s)' =
                IF q >= k.min_qod /\ s = SeverityOf(k, Nvt, n)
                THEN Matching(k, Nvt, s) \cup {x} ELSE Matching(k, Nvt, s)
  BY <1>2, <1>3 DEF Matching
<1>5. ASSUME NEW s
      PROVE  /\ Cardinality(Matching(k, Nvt, s) \cup {x})
                    = Cardinality(Matching(k, Nvt, s)) + 1
             /\ Cardinality(Matching(k, Nvt, s)) \in Nat
  <2>1. Matching(k, Nvt, s) \in SUBSET results
    BY DEF Matching
  <2>2. IsFiniteSet(Matching(k, Nvt, s)) /\ x \notin Matching(k, Nvt, s)
    BY <1>2, <2>1, FS_Subset DEF DataOK
  <2> QED
    BY <2>2, FS_AddElement, FS_CardinalityType
<1>6. CASE q >= k.min_qod
  <2>1. ASSUME NEW s \in Severity
        PROVE  Right(k)'[s] = Right(k)[s]
                  + (IF s = SeverityOf(k, Nvt, n) THEN 1 ELSE 0)
    <3>1. /\ Right(k)'[s] = Cardinality(Matching(k, Nvt, s)')
          /\ Right(k)[s] = Cardinality(Matching(k, Nvt, s))
      BY DEF Right, CountsOf
    <3> DEFINE c == Cardinality(Matching(k, Nvt, s))
    <3>2. c \in Nat
      BY <1>5
    <3>3. CASE s = SeverityOf(k, Nvt, n)
      BY <1>4, <1>5, <1>6, <3>1, <3>3
    <3>4. CASE s # SeverityOf(k, Nvt, n)
      <4>1. Matching(k, Nvt, s)' = Matching(k, Nvt, s)
        BY <1>4, <3>4
      <4>2. Right(k)'[s] = c /\ Right(k)[s] = c
        BY <3>1, <4>1
      <4> HIDE DEF c
      <4> QED
        BY <3>2, <3>4, <4>2
    <3> QED
      BY <3>3, <3>4
  <2> QED
    BY <1>6, <2>1
<1>7. CASE ~(q >= k.min_qod)
  <2>1. \A s : Matching(k, Nvt, s)' = Matching(k, Nvt, s)
    BY <1>4, <1>7
  <2> QED
    BY <1>7, <2>1 DEF Right, CountsOf
<1> QED
  BY <1>6, <1>7

-----------------------------------------------------------------------------
(***************************************************************************)
(* What may become of a row and of a session in a step.                    *)
(***************************************************************************)
\* Nothing that a session has still to clear is forgotten.
PendingKept(k) == Pending(k) => Pending(k)'

\* A row stays, and with it what it counts.
RowStays(k) ==
    /\ report_counts'[k] = report_counts[k] /\ now' = now
    /\ Right(k)' = Right(k) /\ PendingKept(k)
    /\ k.override = 1 => Kept(k)

\* A row is removed, marked, about to be cleared, or stored.
RowGone(k) == report_counts'[k] = NoRow
RowMarked(k) == report_counts'[k].bad
RowStored(k) ==
    \E c, b : /\ report_counts'[k] = cache_report_counts(k, c, b)'
              /\ ~b => c = Right(k)'

RowStep(k) == \/ RowStays(k) \/ RowGone(k) \/ RowMarked(k)
              \/ Pending(k)' \/ RowStored(k)

LEMMA RowStepRight ==
    ASSUME DataOK', NEW k \in Key, RowRight(k), RowStep(k)
    PROVE  RowRight(k)'
<1>1. CASE RowStays(k)
  <2> SUFFICES ASSUME report_counts_cache_exists(k)', ~report_counts'[k].bad,
                      ~Pending(k)'
               PROVE  /\ report_counts'[k].counts = Right(k)'
                      /\ k.override = 1
                            => EndsBy(k, report_counts[k].end_time)'
    BY DEF RowRight
  <2>1. /\ report_counts_cache_exists(k) /\ ~report_counts[k].bad
        /\ ~Pending(k)
    BY <1>1 DEF RowStays, PendingKept, report_counts_cache_exists, Exists
  <2>2. /\ report_counts[k].counts = Right(k)
        /\ k.override = 1 => EndsBy(k, report_counts[k].end_time)
    BY <2>1 DEF RowRight
  <2>3. ASSUME NEW t, t = report_counts[k].end_time, k.override = 1
        PROVE  EndsBy(k, t)'
    BY <1>1, <2>2, <2>3 DEF RowStays, Kept
  <2>4. k.override = 1 => EndsBy(k, report_counts[k].end_time)'
    BY <1>1, <2>3 DEF RowStays, EndsBy
  <2> QED
    BY <1>1, <2>2, <2>4 DEF RowStays
<1>2. CASE RowGone(k)
  BY <1>2 DEF RowGone, RowRight, report_counts_cache_exists, Exists
<1>3. CASE RowMarked(k) \/ Pending(k)'
  BY <1>3 DEF RowMarked, RowRight
<1>4. CASE RowStored(k)
  <2>1. PICK c, b : /\ report_counts'[k] = cache_report_counts(k, c, b)'
                    /\ ~b => c = Right(k)'
    BY <1>4 DEF RowStored
  <2> SUFFICES ASSUME ~report_counts'[k].bad
               PROVE  /\ report_counts'[k].counts = Right(k)'
                      /\ k.override = 1
                            => EndsBy(k, report_counts[k].end_time)'
    BY DEF RowRight
  <2>2. ~b /\ c = Right(k)' /\ report_counts'[k].counts = c
    BY <2>1 DEF cache_report_counts
  <2>3. ASSUME k.override = 1
        PROVE  EndsBy(k, cache_report_counts(k, Right(k), b).end_time)'
    BY <2>3, StoredEndsNext
  <2>5. cache_report_counts(k, Right(k), b)' = report_counts'[k]
    BY <2>1, <2>2 DEF cache_report_counts
  <2>6. ASSUME k.override = 1 PROVE EndsBy(k, report_counts[k].end_time)'
    BY <2>3, <2>5, <2>6 DEF EndsBy
  <2> QED
    BY <2>2, <2>6
<1> QED
  BY <1>1, <1>2, <1>3, <1>4 DEF RowStep

\* A session stores nothing, or something out of date, or it goes on with
\* counts that stay right, or it has counted just now.
SessionStep(s) ==
    \/ ~Storing(session'[s])
    \/ session'[s].dirty
    \/ /\ Storing(session[s]) /\ session'[s].key = session[s].key
       /\ session'[s].counts = session[s].counts
       /\ session[s].dirty => session'[s].dirty
       /\ \A k \in Key : k = session[s].key => Right(k)' = Right(k)
    \/ \A k \in Key : k = session'[s].key => session'[s].counts = Right(k)'

LEMMA SessionStepRight ==
    ASSUME SessionRight, \A s \in Session : SessionStep(s)
    PROVE  SessionRight'
<1> SUFFICES ASSUME NEW s \in Session, NEW k \in Key, Storing(session'[s]),
                    session'[s].key = k, ~session'[s].dirty
             PROVE  session'[s].counts = Right(k)'
  BY DEF SessionRight, Storing
<1>1. SessionStep(s)
  OBVIOUS
<1> QED
  BY <1>1 DEF SessionStep, SessionRight

\* The sessions but those in S are left alone, or what they have counted is
\* marked as out of date.
TouchedStep(which, S) ==
    \A s \in Session \ S :
        /\ session'[s].phase = session[s].phase
        /\ session'[s].todo = session[s].todo
        /\ session'[s].clear = session[s].clear
        /\ session'[s].key = session[s].key
        /\ session'[s].counts = session[s].counts
        /\ session[s].dirty => session'[s].dirty
        /\ Storing(session[s]) /\ session[s].key.override \in which
              => session'[s].dirty

LEMMA IsTouched ==
    ASSUME SessionsOK, NEW which, NEW S, NEW s \in Session \ S,
           session'[s] = Touched(which)[s]
    PROVE  /\ SessionOK(session'[s])
           /\ session'[s].phase = session[s].phase
           /\ session'[s].todo = session[s].todo
           /\ session'[s].clear = session[s].clear
           /\ session'[s].key = session[s].key
           /\ session'[s].counts = session[s].counts
           /\ session[s].dirty => session'[s].dirty
           /\ Storing(session[s]) /\ session[s].key.override \in which
                 => session'[s].dirty
<1> DEFINE x == session[s]
<1>1. SessionOK(x)
  BY DEF SessionsOK
<1>2. session'[s] = IF x.key.override \in which /\ Storing(x)
                    THEN [ x EXCEPT !.dirty = TRUE ] ELSE x
  BY DEF Touched, Storing
<1> HIDE DEF x
<1>3. x \in SessionRow
  BY <1>1 DEF SessionOK
<1>4. CASE x.key.override \in which /\ Storing(x)
  BY <1>1, <1>2, <1>3, <1>4 DEF SessionOK, SessionRow, Storing, x
<1>5. CASE ~(x.key.override \in which /\ Storing(x))
  BY <1>1, <1>2, <1>3, <1>5 DEF SessionOK, SessionRow, x
<1> QED
  BY <1>4, <1>5

\* A session outside of S keeps what it has to do.
LEMMA TouchedPending ==
    ASSUME NEW which, NEW S, TouchedStep(which, S), NEW k \in Key,
           NEW s \in Session \ S, k.override \in session[s].clear,
           Busy(s, "open") \/ k \in session[s].todo
    PROVE  Pending(k)'
BY DEF TouchedStep, Pending, Busy

LEMMA TouchedKeeps ==
    ASSUME NEW which, TouchedStep(which, {}), NEW k \in Key
    PROVE  PendingKept(k)
BY TouchedPending DEF PendingKept, Pending

LEMMA TouchedSession ==
    ASSUME SessionsOK, NEW which, NEW S, TouchedStep(which, S),
           NEW s \in Session \ S,
           \A k \in Key : k.override \in which \/ Right(k)' = Right(k)
    PROVE  SessionStep(s)
<1>1. session[s].key \in Key
  BY DEF SessionsOK, SessionOK, SessionRow
<1>2. CASE Storing(session[s])
  BY <1>1, <1>2 DEF TouchedStep, SessionStep
<1>3. CASE ~Storing(session[s])
  BY <1>3 DEF TouchedStep, SessionStep, Storing
<1> QED
  BY <1>2, <1>3

-----------------------------------------------------------------------------
(***************************************************************************)
(* Types of rows and of sessions.                                          *)
(***************************************************************************)
LEMMA ZeroTyped == Zero \in Counts /\ Plain(Zero)
BY DEF Zero, Counts, Plain, Severity

LEMMA NoRowOK == \A k : RowOK(k, NoRow)
BY ZeroTyped DEF RowOK, NoRow, Row

LEMMA IdleOK == SessionOK(Idle) /\ ~Storing(Idle)
<1>1. [ override |-> 0, min_qod |-> MIN_QOD_DEFAULT ] \in Key
  BY CountsConstants DEF Key
<1> QED
  BY <1>1, ZeroTyped DEF SessionOK, Idle, SessionRow, Storing

LEMMA StoredRowOK ==
    DataOK => \A k \in Key : \A c \in Counts : \A b \in BOOLEAN :
        (k.override = 0 => Plain(c)) => RowOK(k, cache_report_counts(k, c, b))
<1> SUFFICES ASSUME DataOK, NEW k \in Key, NEW c \in Counts, NEW b \in BOOLEAN,
                    k.override = 0 => Plain(c)
             PROVE  RowOK(k, cache_report_counts(k, c, b))
  OBVIOUS
<1> DEFINE e == IF k.override = 1 /\ c # Zero THEN NextEnd ELSE 0
<1>1. e \in EndTime /\ (k.override = 0 => e = 0)
  BY NextEndRight, CountsConstants DEF EndTime
<1>2. cache_report_counts(k, c, b) = [ counts |-> c, bad |-> b, end_time |-> e ]
  BY DEF cache_report_counts
<1> HIDE DEF e
<1>3. e # -1
  BY <1>1, CountsConstants DEF EndTime
<1> QED
  BY <1>1, <1>2, <1>3 DEF RowOK, Row

LEMMA StoredRowOKNext ==
    DataOK' => (\A k \in Key : \A c \in Counts : \A b \in BOOLEAN :
        (k.override = 0 => Plain(c)) => RowOK(k, cache_report_counts(k, c, b)))'
BY StoredRowOK, PTL

\* Counting anew.
LEMMA RecountedOK ==
    DataOK => \A k \in Key :
        RowOK(k, cache_report_counts(k, report_severity_data(k), Incomplete(k)))
<1> SUFFICES ASSUME DataOK, NEW k \in Key
             PROVE  RowOK(k, cache_report_counts(k, report_severity_data(k),
                                                 Incomplete(k)))
  OBVIOUS
<1>1. Incomplete(k) \in BOOLEAN
  BY DEF Incomplete
<1>2. /\ report_severity_data(k) \in Counts
      /\ k.override = 0 => Plain(report_severity_data(k))
  BY CountsTyped, PlainCounts DEF report_severity_data, Plain
<1> QED
  BY <1>1, <1>2, StoredRowOK

LEMMA RecountedOKNext ==
    DataOK' => (\A k \in Key :
        RowOK(k, cache_report_counts(k, report_severity_data(k), Incomplete(k))))'
BY RecountedOK, PTL

LEMMA RecountedStep ==
    ASSUME DataOK', NEW k \in Key,
           report_counts'[k] = cache_report_counts(k, report_severity_data(k),
                                                   Incomplete(k))'
    PROVE  RowOK(k, report_counts[k])' /\ RowStored(k)
<1>1. RowOK(k, report_counts[k])'
  BY RecountedOKNext
<1>2. ~Incomplete(k)' => report_severity_data(k)' = Right(k)'
  BY CompleteRightNext
<1> QED
  BY <1>1, <1>2 DEF RowStored, cache_report_counts

-----------------------------------------------------------------------------
(***************************************************************************)
(* The steps of a session on the cache.                                    *)
(***************************************************************************)
LEMMA StepInv ==
    ASSUME CountsInv, WorldOK', RowsOK', SessionsOK',
           \A k \in Key : RowStep(k) \/ RowRight(k)',
           \A s \in Session : SessionStep(s)
    PROVE  CountsInv'
<1>1. RowsRight'
  BY RowStepRight, DataTypedNext DEF CountsInv, RowsRight
<1>2. SessionRight'
  BY SessionStepRight DEF CountsInv
<1> QED
  BY <1>1, <1>2 DEF CountsInv

\* The session has still to clear the row.
Owes(s, k) == /\ k.override \in session[s].clear
              /\ Busy(s, "open") \/ k \in session[s].todo

\* Only the session s does something, and the counts stay as they are.
OnlySession(s) ==
    /\ UNCHANGED << results, overrides, permission, now >>
    /\ session' = [ t \in Session |-> session'[t] ]
    /\ \A t \in Session \ {s} : session'[t] = session[t]

LEMMA OneSession ==
    ASSUME CountsInv, NEW s \in Session, WorldOK', RowsOK', OnlySession(s),
           SessionOK(session'[s]), SessionStep(s),
           \A k \in Key : \/ report_counts'[k] = report_counts[k]
                             /\ (Owes(s, k) => Owes(s, k)')
                          \/ RowGone(k) \/ RowMarked(k) \/ RowStored(k)
    PROVE  CountsInv'
<1>1. \A k \in Key : Kept(k) /\ Right(k)' = Right(k)
  BY SameKept DEF OnlySession, Kept
<1>2. TouchedStep({}, {s})
  BY DEF OnlySession, TouchedStep
<1>3. SessionsOK'
  <2>1. \A t \in Session : SessionOK(session'[t])
    BY DEF OnlySession, CountsInv, SessionsOK
  <2> QED
    BY <2>1 DEF OnlySession, SessionsOK, SessionOK, Storing
<1>4. \A t \in Session : SessionStep(t)
  BY <1>1, <1>2, TouchedSession DEF CountsInv
<1>5. ASSUME NEW k \in Key, Owes(s, k) => Owes(s, k)' PROVE PendingKept(k)
  <2> SUFFICES ASSUME NEW t \in Session, Owes(t, k) PROVE Pending(k)'
    BY DEF PendingKept, Pending, Owes
  <2>1. CASE t = s
    BY <1>5, <2>1 DEF Pending, Owes
  <2>2. CASE t # s
    BY <1>2, <2>2, TouchedPending DEF Owes
  <2> QED
    BY <2>1, <2>2
<1>6. \A k \in Key : RowStep(k)
  BY <1>1, <1>5 DEF RowStep, RowStays, OnlySession
<1> QED
  BY <1>3, <1>4, <1>6, StepInv

LEMMA OthersKept ==
    ASSUME WorldOK, UNCHANGED Others
    PROVE  WorldOK' /\ UNCHANGED << results, overrides, permission, now >>
BY DEF WorldOK, Others

\* A command, which may make an override.
LEMMA CommandTyped ==
    ASSUME WorldOK, Command, made' = made \/ made' = made + 1
    PROVE  /\ made' \in Nat /\ commands' \in Nat
           /\ made' + commands' <= MaxCommands
           /\ made + 1 \in 0 .. MaxCommands
<1>1. /\ made \in Nat /\ commands \in Nat /\ made + commands <= MaxCommands
      /\ MaxCommands \in Nat
  BY CountsConstants DEF WorldOK
<1>2. commands > 0 /\ commands' = commands - 1
  BY DEF Command
<1> QED
  BY <1>1, <1>2

\* Changing the record of a session.
LEMMA SetSession ==
    ASSUME SessionsOK, NEW s \in Session, NEW x,
           session' = [ session EXCEPT ![s] = x ]
    PROVE  /\ session'[s] = x
           /\ session' = [ t \in Session |-> session'[t] ]
           /\ \A t \in Session \ {s} : session'[t] = session[t]
BY DEF SessionsOK

LEMMA RowsSame ==
    ASSUME RowsOK, report_counts' = report_counts
    PROVE  RowsOK'
BY DEF RowsOK, RowOK

\* The counts of a session that has counted just now.
LEMMA ComputedOK ==
    ASSUME CountsInv, NEW s \in Session, NEW k \in Key
    PROVE  /\ SessionOK(Computed(session[s], k))
           /\ ~Computed(session[s], k).dirty
                 => Computed(session[s], k).counts = Right(k)
           /\ Computed(session[s], k).key = k
           /\ Computed(session[s], k).clear = session[s].clear
           /\ Computed(session[s], k).todo = session[s].todo \ {k}
<1>1. DataOK
  BY DataTyped DEF CountsInv
<1>2. Incomplete(k) \in BOOLEAN
  BY DEF Incomplete
<1>3. /\ report_severity_data(k) \in Counts
      /\ k.override = 0 => Plain(report_severity_data(k))
  BY <1>1, CountsTyped, PlainCounts DEF report_severity_data, Plain
<1>4. ~Incomplete(k) => report_severity_data(k) = Right(k)
  BY <1>1, CompleteRight
<1>5. session[s] \in SessionRow
  BY DEF CountsInv, SessionsOK, SessionOK
<1> QED
  BY <1>2, <1>3, <1>4, <1>5 DEF Computed, SessionOK, SessionRow, Storing

LEMMA ComputedStep ==
    ASSUME CountsInv, NEW s \in Session, NEW k \in Key,
           \A j \in Key : Right(j)' = Right(j),
           session'[s] = Computed(session[s], k)
    PROVE  SessionOK(session'[s]) /\ SessionStep(s)
BY ComputedOK DEF SessionStep

\* A key is done.
LEMMA KeyDoneStep ==
    ASSUME CountsInv, NEW s \in Session, KeyDone(s)
    PROVE  /\ SessionOK(session'[s]) /\ SessionStep(s)
           /\ session' = [ t \in Session |-> session'[t] ]
           /\ \A t \in Session \ {s} : session'[t] = session[t]
           /\ \A k \in Key : Owes(s, k) /\ ~Busy(s, "open") => Owes(s, k)'
<1> DEFINE x == session[s]
           y == IF x.todo = {} THEN Idle
                ELSE [ x EXCEPT !.phase = "next", !.counts = Zero,
                                !.dirty = FALSE ]
<1>1. session' = [ session EXCEPT ![s] = y ]
  BY DEF KeyDone
<1>2. SessionsOK /\ SessionOK(x)
  BY DEF CountsInv, SessionsOK
<1> HIDE DEF y
<1>3. /\ session'[s] = y /\ session' = [ t \in Session |-> session'[t] ]
      /\ \A t \in Session \ {s} : session'[t] = session[t]
  BY <1>1, <1>2, SetSession
<1> HIDE DEF x
<1>4. x \in SessionRow
  BY <1>2 DEF SessionOK
<1>5. CASE x.todo = {}
  <2>1. y = Idle
    BY <1>5 DEF y
  <2>2. SessionOK(y) /\ ~Storing(y)
    BY <2>1, IdleOK
  <2> QED
    BY <1>3, <1>5, <2>2 DEF SessionStep, Owes, x
<1>6. CASE x.todo # {}
  <2>1. y = [ x EXCEPT !.phase = "next", !.counts = Zero, !.dirty = FALSE ]
    BY <1>6 DEF y
  <2>2. SessionOK(y) /\ ~Storing(y) /\ y.todo = x.todo /\ y.clear = x.clear
    BY <1>4, <2>1, ZeroTyped DEF SessionOK, SessionRow, Storing
  <2> QED
    BY <1>3, <2>2 DEF SessionStep, Owes, x
<1> QED
  BY <1>5, <1>6

LEMMA ClientStep ==
    ASSUME CountsInv, NEW s \in Session, NEW k \in Key, report_counts_id(s, k)
    PROVE  CountsInv'
<1>1. WorldOK' /\ UNCHANGED << results, overrides, permission, now >>
  BY OthersKept DEF report_counts_id, CountsInv
<1>2. RowsOK' /\ report_counts' = report_counts
  BY RowsSame DEF report_counts_id, CountsInv
<1> DEFINE x == Computed(session[s], k)
<1>3. session' = [ session EXCEPT ![s] = x ]
  BY DEF report_counts_id
<1> HIDE DEF x
<1>4. /\ session'[s] = x /\ session' = [ t \in Session |-> session'[t] ]
      /\ \A t \in Session \ {s} : session'[t] = session[t]
  BY <1>3, SetSession DEF CountsInv
<1>5. \A j \in Key : Right(j)' = Right(j)
  BY <1>1, SameKept DEF Kept
<1>6. SessionOK(session'[s]) /\ SessionStep(s)
  BY <1>4, <1>5, ComputedStep DEF x
<1>7. \A j \in Key : ~Owes(s, j)
  <2>1. SessionOK(session[s]) /\ session[s].phase = "idle"
    BY DEF CountsInv, SessionsOK, report_counts_id, Busy
  <2> QED
    BY <2>1 DEF SessionOK, Owes
<1> QED
  BY <1>1, <1>2, <1>4, <1>6, <1>7, OneSession DEF OnlySession

LEMMA ScanStatusStep ==
    ASSUME CountsInv, set_report_scan_run_status
    PROVE  CountsInv'
<1>1. Scan \in Session
  BY CountsConstants
<1>2. WorldOK' /\ UNCHANGED << results, overrides, permission, now >>
  <2>1. made' = made /\ Command
    BY DEF set_report_scan_run_status
  <2>2. /\ made' \in Nat /\ commands' \in Nat
        /\ made' + commands' <= MaxCommands
    BY <2>1, CommandTyped DEF CountsInv
  <2> QED
    BY <2>2 DEF set_report_scan_run_status, CountsInv, WorldOK
<1>3. RowsOK' /\ report_counts' = report_counts
  BY RowsSame DEF set_report_scan_run_status, CountsInv
<1> DEFINE x == [ Idle EXCEPT !.phase = "open" ]
<1>4. session' = [ session EXCEPT ![Scan] = x ]
  BY DEF set_report_scan_run_status
<1>5. SessionOK(x) /\ ~Storing(x)
  BY IdleOK DEF SessionOK, SessionRow, Idle, Storing
<1> HIDE DEF x
<1>6. /\ session'[Scan] = x /\ session' = [ t \in Session |-> session'[t] ]
      /\ \A t \in Session \ {Scan} : session'[t] = session[t]
  BY <1>1, <1>4, SetSession DEF CountsInv
<1>7. SessionOK(session'[Scan]) /\ SessionStep(Scan)
  BY <1>5, <1>6 DEF SessionStep
<1>8. \A j \in Key : ~Owes(Scan, j)
  <2>1. SessionOK(session[Scan]) /\ session[Scan].phase = "idle"
    BY <1>1 DEF CountsInv, SessionsOK, set_report_scan_run_status, Busy
  <2> QED
    BY <2>1 DEF SessionOK, Owes
<1> QED
  BY <1>1, <1>2, <1>3, <1>6, <1>7, <1>8, OneSession DEF OnlySession

LEMMA ClearedRows ==
    ASSUME RowsOK, NEW clear, report_clear_count_cache(clear)
    PROVE  /\ RowsOK'
           /\ \A k \in Key : IF k.override \in clear THEN RowGone(k)
                             ELSE report_counts'[k] = report_counts[k]
<1>1. \A k \in Key : report_counts'[k] = IF k.override \in clear THEN NoRow
                                         ELSE report_counts[k]
  BY DEF report_clear_count_cache
<1>2. report_counts' = [ k \in Key |-> report_counts'[k] ]
  BY DEF report_clear_count_cache
<1>3. \A k \in Key : RowOK(k, report_counts'[k])
  BY <1>1, NoRowOK DEF RowsOK
<1> QED
  BY <1>1, <1>2, <1>3 DEF RowsOK, RowOK, RowGone

LEMMA OpenStep ==
    ASSUME CountsInv, NEW s \in Session, Open(s)
    PROVE  CountsInv'
<1>1. WorldOK' /\ UNCHANGED << results, overrides, permission, now >>
  BY OthersKept DEF Open, CountsInv
<1> DEFINE z == session[s]
<1>2. SessionOK(z) /\ z \in SessionRow
  BY DEF CountsInv, SessionsOK, SessionOK
<1>3. CASE auto_cache_rebuild
  <2> DEFINE x == [ z EXCEPT !.phase = "next", !.todo = { k \in Key : Listed(k) } ]
  <2>1. session' = [ session EXCEPT ![s] = x ] /\ report_counts' = report_counts
    BY <1>3 DEF Open, CountsInv, SessionsOK
  <2>2. /\ SessionOK(x) /\ ~Storing(x) /\ x.clear = z.clear
        /\ x.todo = { k \in Key : Listed(k) }
    <3> HIDE DEF z
    <3> QED
      BY <1>2 DEF SessionOK, SessionRow, Storing
  <2> HIDE DEF x
  <2>3. /\ session'[s] = x /\ session' = [ t \in Session |-> session'[t] ]
        /\ \A t \in Session \ {s} : session'[t] = session[t]
    BY <2>1, SetSession DEF CountsInv
  <2>4. SessionOK(session'[s]) /\ SessionStep(s)
    BY <2>2, <2>3 DEF SessionStep
  <2>5. ASSUME NEW k \in Key
        PROVE  RowGone(k) \/ (Owes(s, k) => Owes(s, k)')
    BY <2>1, <2>2, <2>3 DEF Owes, RowGone, Listed, Exists
  <2>6. RowsOK'
    BY <2>1, RowsSame DEF CountsInv
  <2> QED
    BY <1>1, <2>1, <2>3, <2>4, <2>5, <2>6, OneSession DEF OnlySession
<1>4. CASE ~auto_cache_rebuild
  <2>1. /\ session' = [ session EXCEPT ![s] = Idle ]
        /\ report_clear_count_cache(session[s].clear)
    BY <1>4 DEF Open
  <2>2. /\ session'[s] = Idle /\ session' = [ t \in Session |-> session'[t] ]
        /\ \A t \in Session \ {s} : session'[t] = session[t]
    BY <2>1, SetSession DEF CountsInv
  <2>3. SessionOK(session'[s]) /\ SessionStep(s)
    BY <2>2, IdleOK DEF SessionStep
  <2>4. /\ RowsOK'
        /\ \A k \in Key : IF k.override \in session[s].clear THEN RowGone(k)
                          ELSE report_counts'[k] = report_counts[k]
    BY <2>1, ClearedRows DEF CountsInv
  <2> QED
    BY <1>1, <2>2, <2>3, <2>4, OneSession DEF OnlySession, Owes
<1> QED
  BY <1>3, <1>4

\* One row is set.
LEMMA SetRow ==
    ASSUME RowsOK, NEW k \in Key, NEW row, RowOK(k, row),
           report_counts' = [ report_counts EXCEPT ![k] = row ]
    PROVE  /\ RowsOK' /\ report_counts'[k] = row
           /\ \A j \in Key \ {k} : report_counts'[j] = report_counts[j]
<1>1. /\ report_counts'[k] = row
      /\ \A j \in Key \ {k} : report_counts'[j] = report_counts[j]
      /\ report_counts' = [ j \in Key |-> report_counts'[j] ]
  BY DEF RowsOK
<1>2. \A j \in Key : RowOK(j, report_counts'[j])
  BY <1>1 DEF RowsOK
<1> QED
  BY <1>1, <1>2 DEF RowsOK, RowOK

LEMMA ClearKeyStep ==
    ASSUME CountsInv, NEW s \in Session, NEW k \in Key, ClearKey(s, k)
    PROVE  CountsInv'
<1>1. WorldOK' /\ UNCHANGED << results, overrides, permission, now >>
  BY OthersKept DEF ClearKey, CountsInv
<1> DEFINE z == session[s]
<1>2. SessionOK(z) /\ z \in SessionRow
  BY DEF CountsInv, SessionsOK, SessionOK
<1> DEFINE x == [ z EXCEPT !.phase = "compute", !.todo = z.todo \ {k}, !.key = k ]
<1>3. session' = [ session EXCEPT ![s] = x ]
  BY DEF ClearKey, CountsInv, SessionsOK
<1>4. /\ SessionOK(x) /\ ~Storing(x) /\ x.clear = z.clear
      /\ x.todo = z.todo \ {k}
  <2> HIDE DEF z
  <2> QED
    BY <1>2 DEF SessionOK, SessionRow, Storing
<1> HIDE DEF x
<1>5. /\ session'[s] = x /\ session' = [ t \in Session |-> session'[t] ]
      /\ \A t \in Session \ {s} : session'[t] = session[t]
  BY <1>3, SetSession DEF CountsInv
<1>6. SessionOK(session'[s]) /\ SessionStep(s)
  BY <1>4, <1>5 DEF SessionStep
<1>7. /\ RowsOK' /\ RowGone(k)
      /\ \A j \in Key \ {k} : report_counts'[j] = report_counts[j]
  BY SetRow, NoRowOK DEF ClearKey, CountsInv, RowGone
<1>8. \A j \in Key \ {k} : Owes(s, j) => Owes(s, j)'
  BY <1>4, <1>5 DEF Owes, ClearKey, Busy
<1> QED
  BY <1>1, <1>5, <1>6, <1>7, <1>8, OneSession DEF OnlySession

LEMMA KeepKeyStep ==
    ASSUME CountsInv, NEW s \in Session, NEW k \in Key, KeepKey(s, k)
    PROVE  CountsInv'
<1>1. WorldOK' /\ UNCHANGED << results, overrides, permission, now >>
  BY OthersKept DEF KeepKey, CountsInv
<1>2. RowsOK' /\ report_counts' = report_counts
  BY RowsSame DEF KeepKey, CountsInv
<1> DEFINE z == session[s]
           x == IF ~report_counts_cache_exists(k) THEN Computed(z, k)
                ELSE IF z.todo = {k} THEN Idle
                ELSE [ z EXCEPT !.todo = z.todo \ {k} ]
<1>3. SessionOK(z) /\ z \in SessionRow /\ z.phase = "next"
  BY DEF CountsInv, SessionsOK, SessionOK, KeepKey, Busy
<1>4. session' = [ session EXCEPT ![s] = x ]
  BY DEF KeepKey
<1> HIDE DEF x
<1>5. /\ session'[s] = x /\ session' = [ t \in Session |-> session'[t] ]
      /\ \A t \in Session \ {s} : session'[t] = session[t]
  BY <1>4, SetSession DEF CountsInv
<1>6. \A j \in Key : Right(j)' = Right(j)
  BY <1>1, SameKept DEF Kept
<1>7. /\ SessionOK(session'[s]) /\ SessionStep(s)
      /\ \A j \in Key : Owes(s, j) => Owes(s, j)'
  <2>1. CASE ~report_counts_cache_exists(k)
    <3>1. session'[s] = Computed(session[s], k)
      BY <1>5, <2>1 DEF x
    <3>2. SessionOK(session'[s]) /\ SessionStep(s)
      BY <1>6, <3>1, ComputedStep
    <3>3. session'[s].clear = z.clear /\ session'[s].todo = z.todo \ {k}
      BY <3>1, ComputedOK
    <3> QED
      BY <1>3, <3>2, <3>3 DEF Owes, KeepKey, Busy
  <2>2. CASE report_counts_cache_exists(k) /\ z.todo = {k}
    <3>1. session'[s] = Idle
      BY <1>5, <2>2 DEF x
    <3> QED
      BY <2>2, <3>1, IdleOK DEF SessionStep, Owes, KeepKey, Busy
  <2>3. CASE report_counts_cache_exists(k) /\ z.todo # {k}
    <3>1. x = [ z EXCEPT !.todo = z.todo \ {k} ]
      BY <2>3 DEF x
    <3>2. /\ SessionOK(x) /\ ~Storing(x) /\ x.clear = z.clear
          /\ x.todo = z.todo \ {k}
      <4> HIDE DEF z
      <4> QED
        BY <1>3, <3>1 DEF SessionOK, SessionRow, Storing
    <3> QED
      BY <1>5, <3>2 DEF SessionStep, Owes, KeepKey, Busy
  <2> QED
    BY <2>1, <2>2, <2>3
<1> QED
  BY <1>1, <1>2, <1>5, <1>7, OneSession DEF OnlySession

LEMMA ComputeStep ==
    ASSUME CountsInv, NEW s \in Session, Compute(s)
    PROVE  CountsInv'
<1>1. WorldOK' /\ UNCHANGED << results, overrides, permission, now >>
  BY OthersKept DEF Compute, CountsInv
<1>2. RowsOK' /\ report_counts' = report_counts
  BY RowsSame DEF Compute, CountsInv
<1>3. ~Busy(s, "open")
  BY DEF Compute, Busy
<1>4. CASE report_counts_cache_exists(session[s].key)
  <2>1. KeyDone(s)
    BY <1>4 DEF Compute
  <2> QED
    BY <1>1, <1>2, <1>3, <2>1, KeyDoneStep, OneSession DEF OnlySession
<1>5. CASE ~report_counts_cache_exists(session[s].key)
  <2> DEFINE k == session[s].key
             x == Computed(session[s], k)
  <2>1. k \in Key
    BY DEF CountsInv, SessionsOK, SessionOK, SessionRow
  <2>2. session' = [ session EXCEPT ![s] = x ]
    BY <1>5 DEF Compute
  <2> HIDE DEF x
  <2>3. /\ session'[s] = x /\ session' = [ t \in Session |-> session'[t] ]
        /\ \A t \in Session \ {s} : session'[t] = session[t]
    BY <2>2, SetSession DEF CountsInv
  <2>4. \A j \in Key : Right(j)' = Right(j)
    BY <1>1, SameKept DEF Kept
  <2> HIDE DEF k
  <2>5. SessionOK(session'[s]) /\ SessionStep(s)
    BY <2>1, <2>3, <2>4, ComputedStep DEF x
  <2>6. session'[s].clear = session[s].clear /\ session'[s].todo = session[s].todo \ {k}
    BY <2>1, <2>3, ComputedOK DEF x
  <2>7. \A j \in Key : Owes(s, j) => Owes(s, j)'
    <3>1. k \notin session[s].todo
      BY DEF CountsInv, SessionsOK, SessionOK, Compute, Busy, k
    <3> QED
      BY <1>3, <2>6, <3>1 DEF Owes
  <2> QED
    BY <1>1, <1>2, <2>3, <2>5, <2>7, OneSession DEF OnlySession
<1> QED
  BY <1>4, <1>5

LEMMA GiveUpStep ==
    ASSUME CountsInv, NEW s \in Session, GiveUp(s)
    PROVE  CountsInv'
<1>1. WorldOK' /\ UNCHANGED << results, overrides, permission, now >>
  BY OthersKept DEF GiveUp, CountsInv
<1>2. RowsOK' /\ report_counts' = report_counts
  BY RowsSame DEF GiveUp, CountsInv
<1>3. ~Busy(s, "open") /\ KeyDone(s)
  BY DEF GiveUp, Busy
<1> QED
  BY <1>1, <1>2, <1>3, KeyDoneStep, OneSession DEF OnlySession

LEMMA DeleteCountsStep ==
    ASSUME CountsInv, NEW s \in Session, DeleteCounts(s)
    PROVE  CountsInv'
<1>1. WorldOK' /\ UNCHANGED << results, overrides, permission, now >>
  BY OthersKept DEF DeleteCounts, CountsInv
<1> DEFINE z == session[s]
           x == [ z EXCEPT !.phase = "insert" ]
<1>2. SessionOK(z) /\ z \in SessionRow /\ z.phase = "delete"
  BY DEF CountsInv, SessionsOK, SessionOK, DeleteCounts, Busy
<1>3. session' = [ session EXCEPT ![s] = x ]
  BY DEF DeleteCounts, CountsInv, SessionsOK
<1>4. /\ SessionOK(x) /\ x.clear = z.clear /\ x.todo = z.todo
      /\ x.key = z.key /\ x.counts = z.counts /\ x.dirty = z.dirty
      /\ Storing(z) /\ z.key \in Key
  <2> HIDE DEF z
  <2> QED
    BY <1>2 DEF SessionOK, SessionRow, Storing
<1> HIDE DEF x
<1>5. /\ session'[s] = x /\ session' = [ t \in Session |-> session'[t] ]
      /\ \A t \in Session \ {s} : session'[t] = session[t]
  BY <1>3, SetSession DEF CountsInv
<1>6. \A j \in Key : Right(j)' = Right(j)
  BY <1>1, SameKept DEF Kept
<1>7. SessionOK(session'[s]) /\ SessionStep(s)
  BY <1>4, <1>5, <1>6 DEF SessionStep
<1>8. /\ RowsOK' /\ RowGone(z.key)
      /\ \A j \in Key \ {z.key} : report_counts'[j] = report_counts[j]
  BY <1>4, SetRow, NoRowOK DEF DeleteCounts, CountsInv, RowGone
<1>9. \A j \in Key : Owes(s, j) => Owes(s, j)'
  BY <1>2, <1>4, <1>5 DEF Owes, Busy
<1> QED
  BY <1>1, <1>5, <1>7, <1>8, <1>9, OneSession DEF OnlySession

LEMMA InsertCountsStep ==
    ASSUME CountsInv, NEW s \in Session, InsertCounts(s)
    PROVE  CountsInv'
<1>1. WorldOK' /\ UNCHANGED << results, overrides, permission, now >>
  BY OthersKept DEF InsertCounts, CountsInv
<1>2. ~Busy(s, "open") /\ KeyDone(s)
  BY DEF InsertCounts, Busy
<1>k. PICK k \in Key : k = session[s].key
  BY DEF CountsInv, SessionsOK, SessionOK, SessionRow
<1> DEFINE c == session[s].counts
           b == session[s].dirty \/ Exists(k)
           old == report_counts[k]
           sum == [ v \in Severity |-> old.counts[v] + c[v] ]
           row == cache_report_counts(k, c, b)
           new == [ row EXCEPT !.counts = sum ]
<1>3. /\ k \in Key /\ c \in Counts /\ session[s].dirty \in BOOLEAN
      /\ k.override = 0 => Plain(c)
      /\ ~session[s].dirty => c = Right(k)
  <2>1. SessionOK(session[s]) /\ session[s].phase = "insert"
    BY DEF CountsInv, SessionsOK, InsertCounts, Busy
  <2> QED
    BY <1>k, <2>1 DEF CountsInv, SessionOK, SessionRow, SessionRight, Storing
<1>4. RowOK(k, old)
  BY <1>3 DEF CountsInv, RowsOK
<1>5. report_counts' = [ report_counts EXCEPT ![k] = new ]
  <2>1. row.counts = c
    BY DEF cache_report_counts
  <2>2. report_counts' = [ report_counts EXCEPT ![k] =
          [ row EXCEPT !.counts = [ v \in Severity |->
                report_counts[k].counts[v] + row.counts[v] ] ] ]
    BY <1>k DEF InsertCounts
  <2> QED
    BY <2>1, <2>2
<1>6. b \in BOOLEAN /\ (~b => c = Right(k) /\ old = NoRow)
  BY <1>3 DEF Exists
<1>7. DataOK
  BY DataTyped DEF CountsInv
<1> HIDE DEF c, b, old
<1>8. RowOK(k, row)
  BY <1>3, <1>6, <1>7, StoredRowOK
<1>9. row.counts = c /\ row.bad = b /\ row \in Row /\ row.end_time # -1
  <2>1. row.counts = c /\ row.bad = b /\ row \in Row
    BY <1>8 DEF RowOK, cache_report_counts
  <2>2. row.end_time \in {0, NextEnd} /\ NextEnd \in EndTime
    BY <1>7, NextEndRight DEF cache_report_counts
  <2> QED
    BY <2>1, <2>2, CountsConstants DEF EndTime
<1>10. sum \in Counts /\ (k.override = 0 => Plain(sum))
  <2>1. old.counts \in Counts /\ (k.override = 0 => Plain(old.counts))
    BY <1>4 DEF RowOK, Row
  <2>2. sum \in Counts
    BY <1>3, <2>1 DEF Counts
  <2>3. k.override = 0 => Plain(sum)
    BY <1>3, <2>1 DEF Plain, Severity
  <2> QED
    BY <2>2, <2>3
<1> HIDE DEF sum, row
<1>11. RowOK(k, new) /\ new.bad = b
  BY <1>8, <1>9, <1>10 DEF RowOK, Row
<1>12. ~b => new = row
  <2> SUFFICES ASSUME ~b PROVE new = row
    OBVIOUS
  <2>1. sum = c
    BY <1>3, <1>6 DEF sum, NoRow, Zero, Counts
  <2> QED
    BY <1>9, <2>1 DEF Row
<1> HIDE DEF new
<1>13. /\ RowsOK' /\ report_counts'[k] = new
       /\ \A j \in Key \ {k} : report_counts'[j] = report_counts[j]
  BY <1>3, <1>5, <1>11, SetRow DEF CountsInv
<1>14. RowMarked(k) \/ RowStored(k)
  <2>1. CASE b
    BY <1>11, <1>13, <2>1 DEF RowMarked
  <2>2. CASE ~b
    <3>1. report_counts'[k] = cache_report_counts(k, c, b) /\ c = Right(k)
      BY <1>6, <1>12, <1>13, <2>2 DEF row
    <3>2. Right(k)' = Right(k) /\ NextEnd' = NextEnd
      BY <1>1, <1>3, SameKept DEF Kept, NextEnd, Ends, InReport
    <3>3. ASSUME NEW d, NEW e
          PROVE  cache_report_counts(k, d, e)' = cache_report_counts(k, d, e)
      BY <3>2 DEF cache_report_counts
    <3> QED
      BY <3>1, <3>2, <3>3 DEF RowStored, cache_report_counts
  <2> QED
    BY <2>1, <2>2
<1> QED
  BY <1>1, <1>2, <1>13, <1>14, KeyDoneStep, OneSession DEF OnlySession

-----------------------------------------------------------------------------
(***************************************************************************)
(* The results, the time and the optimize command.                         *)
(***************************************************************************)
\* All sessions go on, and what they have counted is marked where it changes.
LEMMA TouchedSessions ==
    ASSUME SessionsOK, NEW which, session' = Touched(which),
           \A k \in Key : k.override \in which \/ Right(k)' = Right(k)
    PROVE  /\ SessionsOK' /\ \A s \in Session : SessionStep(s)
           /\ \A k \in Key : PendingKept(k)
<1>1. \A s \in Session : session'[s] = Touched(which)[s]
  OBVIOUS
<1>2. \A s \in Session \ {} : session'[s] = Touched(which)[s]
  BY <1>1
<1>3. TouchedStep(which, {}) /\ \A s \in Session : SessionOK(session'[s])
  BY <1>2, IsTouched DEF TouchedStep
<1>4. session' = [ s \in Session |-> session'[s] ]
  BY DEF Touched
<1>5. SessionsOK'
  BY <1>3, <1>4 DEF SessionsOK, SessionOK, Storing
<1>6. ASSUME NEW s \in Session PROVE SessionStep(s)
  <2>1. s \in Session \ {}
    OBVIOUS
  <2> QED
    BY <1>3, <2>1, TouchedSession
<1> QED
  BY <1>3, <1>5, <1>6, TouchedKeeps

LEMMA SameSessions ==
    ASSUME SessionsOK, session' = session, \A k \in Key : Right(k)' = Right(k)
    PROVE  /\ SessionsOK' /\ \A s \in Session : SessionStep(s)
           /\ \A k \in Key : PendingKept(k)
<1>1. SessionsOK'
  BY DEF SessionsOK, SessionOK, Storing
<1>2. TouchedStep({}, {})
  BY DEF TouchedStep
<1>3. ASSUME NEW s \in Session PROVE SessionStep(s)
  <2>1. s \in Session \ {}
    OBVIOUS
  <2> QED
    BY <1>2, <2>1, TouchedSession
<1> QED
  BY <1>1, <1>2, <1>3, TouchedKeeps

LEMMA AddedResult ==
    ASSUME WorldOK, NEW n \in Nvt, NEW q \in Qod, AddResult(n, q)
    PROVE  results' \subseteq Results /\ IsFiniteSet(results')
<1>1. PICK id \in Result :
          results' = results \cup { [ id |-> id, nvt |-> n, qod |-> q ] }
  BY DEF AddResult
<1> DEFINE x == [ id |-> id, nvt |-> n, qod |-> q ]
<1>2. x \in Results /\ results' = results \cup {x}
  BY <1>1 DEF Results
<1> HIDE DEF x
<1> QED
  BY <1>2, FS_AddElement DEF WorldOK

\* The row that report_add_result makes of the row of k.
AddedRow(k, n, q) == IF Listed(k) /\ k.min_qod <= q THEN Counted(k, n)
                     ELSE report_counts[k]
Ended(k) == Exists(k) /\ ~report_counts_cache_exists(k)

LEMMA CountedOK ==
    ASSUME CountsInv, NEW k \in Key, NEW n \in Nvt
    PROVE  /\ RowOK(k, Counted(k, n)) /\ Counted(k, n) # NoRow
           /\ \A v \in Severity : Counted(k, n).counts[v] =
                report_counts[k].counts[v]
                    + (IF v = SeverityOf(k, Nvt, n) THEN 1 ELSE 0)
           /\ ~Counted(k, n).bad => /\ ~report_counts[k].bad
                                    /\ Exists(k) \/ Right(k) = Zero
<1>1. RowOK(k, report_counts[k])
  BY DEF CountsInv, RowsOK
<1> DEFINE row == report_counts[k]
           severity == SeverityOf(k, Nvt, n)
           counts == [ v \in Severity |->
                          row.counts[v] + (IF v = severity THEN 1 ELSE 0) ]
           b == \/ row.bad
                \/ ~Exists(k) /\ Right(k) # Zero
<1>2. Counted(k, n) = [ counts |-> counts, end_time |-> 0, bad |-> b ]
  <2>1. severity = IF k.override = 0 THEN "original" ELSE NewSeverity(n)
    BY DEF SeverityOf, Key
  <2> QED
    BY <2>1 DEF Counted
<1>3. severity \in Severity /\ (k.override = 0 => severity = "original")
  BY SeverityTyped, DataTyped DEF CountsInv, SeverityOf
<1>4. row.counts \in Counts /\ row.bad \in BOOLEAN
  BY <1>1 DEF RowOK, Row
<1>5. b \in BOOLEAN
  BY <1>4
<1> HIDE DEF row, severity, b
<1>6. counts \in Counts
  BY <1>4 DEF Counts
<1>7. k.override = 0 => Plain(counts)
  <2> SUFFICES ASSUME k.override = 0, NEW v \in NewSeverities
               PROVE  counts[v] = 0
    BY DEF Plain
  <2>1. v # severity /\ v \in Severity
    BY <1>3, CountsConstants DEF Severity
  <2>2. row.counts[v] = 0
    BY <1>1 DEF RowOK, Plain, row
  <2> QED
    BY <2>1, <2>2
<1>8. 0 \in EndTime
  BY CountsConstants DEF EndTime
<1> HIDE DEF counts
<1>9. RowOK(k, Counted(k, n)) /\ Counted(k, n) # NoRow
  BY <1>2, <1>5, <1>6, <1>7, <1>8 DEF RowOK, Row, NoRow
<1> QED
  BY <1>2, <1>9 DEF counts, severity, row, b

LEMMA AddResultStep ==
    ASSUME CountsInv, report_add_result
    PROVE  CountsInv'
<1>1. PICK n \in Nvt, q \in Qod :
          /\ AddResult(n, q)
          /\ result_nvt_reports' = result_nvt_reports \cup {n}
          /\ UNCHANGED << overrides, permission, now >>
          /\ report_counts' = [ k \in Key |->
                IF AddedRow(k, n, q) = NoRow \/ k.override = 0
                THEN AddedRow(k, n, q)
                ELSE [ counts |-> AddedRow(k, n, q).counts,
                       end_time |-> NextEnd',
                       bad |-> AddedRow(k, n, q).bad \/ Ended(k) ] ]
  BY DEF report_add_result, AddedRow, Ended
<1>2. /\ session' = Touched({0, 1})
      /\ UNCHANGED << auto_cache_rebuild, kind, made, commands >>
  BY DEF report_add_result
<1>3. WorldOK'
  <2>1. results' \subseteq Results /\ IsFiniteSet(results')
    BY <1>1, AddedResult DEF CountsInv
  <2> QED
    BY <1>1, <1>2, <2>1 DEF CountsInv, WorldOK
<1>4. DataOK /\ DataOK'
  BY <1>3, DataTyped, DataTypedNext DEF CountsInv
<1>5. /\ SessionsOK' /\ \A s \in Session : SessionStep(s)
      /\ \A k \in Key : PendingKept(k)
  BY <1>2, TouchedSessions DEF CountsInv, Key
<1>6. ASSUME NEW k \in Key
      PROVE  RowOK(k, AddedRow(k, n, q)) /\ RowOK(k, report_counts[k])
  BY CountedOK DEF AddedRow, CountsInv, RowsOK
<1>7. NextEnd' \in EndTime
  BY <1>4, NextEndRightNext
<1>8. ASSUME NEW k \in Key
      PROVE  RowOK(k, report_counts'[k])
  <2> DEFINE row == AddedRow(k, n, q)
  <2>1. RowOK(k, row)
    BY <1>6
  <2>2. CASE row = NoRow \/ k.override = 0
    BY <1>1, <2>1, <2>2
  <2>3. CASE ~(row = NoRow \/ k.override = 0)
    <3>1. report_counts'[k] = [ counts |-> row.counts, end_time |-> NextEnd',
                                bad |-> row.bad \/ Ended(k) ]
      BY <1>1, <2>3
    <3> HIDE DEF row
    <3>2. row.counts \in Counts /\ row.bad \in BOOLEAN
      BY <2>1 DEF RowOK, Row
    <3>3. (row.bad \/ Ended(k)) \in BOOLEAN
      BY <3>2
    <3>4. NextEnd' # -1
      BY <1>7, CountsConstants DEF EndTime
    <3> QED
      BY <1>7, <2>3, <3>1, <3>2, <3>3, <3>4 DEF RowOK, Row
  <2> QED
    BY <2>2, <2>3
<1>9. RowsOK'
  BY <1>1, <1>8 DEF RowsOK, RowOK
<1>10. ASSUME NEW k \in Key PROVE RowRight(k)'
  <2> DEFINE row == AddedRow(k, n, q)
             old == report_counts[k]
  <2> SUFFICES ASSUME report_counts_cache_exists(k)', ~report_counts'[k].bad,
                      ~Pending(k)'
               PROVE  /\ report_counts'[k].counts = Right(k)'
                      /\ k.override = 1
                            => EndsBy(k, report_counts[k].end_time)'
    BY DEF RowRight
  <2>1. report_counts'[k] # NoRow /\ ~Pending(k)
    BY <1>5 DEF report_counts_cache_exists, Exists, PendingKept
  <2>2. row # NoRow /\ report_counts'[k].counts = row.counts
    BY <1>1, <2>1
  <2>3. ~row.bad
    BY <1>1, <2>2
  <2>4. k.override = 1 => report_counts'[k].end_time = NextEnd' /\ ~Ended(k)
    <3> SUFFICES ASSUME k.override = 1
                 PROVE  report_counts'[k].end_time = NextEnd' /\ ~Ended(k)
      OBVIOUS
    <3> DEFINE d == row.bad \/ Ended(k)
    <3>1. report_counts'[k] = [ counts |-> row.counts, end_time |-> NextEnd',
                                bad |-> d ]
      BY <1>1, <2>2
    <3> HIDE DEF row, d
    <3>2. report_counts'[k].end_time = NextEnd' /\ ~d
      BY <3>1
    <3> QED
      BY <3>2 DEF d
  <2>5. k.override = 1 => EndsBy(k, report_counts[k].end_time)'
    <3>1. k.override = 1 => EndsBy(k, NextEnd)'
      BY <1>4, StoredEndsNext
    <3> QED
      BY <2>4, <3>1 DEF EndsBy
  <2>6. Exists(k) => report_counts_cache_exists(k)
    <3>1. k.override = 0 \/ k.override = 1
      BY DEF Key
    <3>2. k.override = 0 /\ Exists(k) => old.end_time = 0
      BY <1>6 DEF RowOK, Exists
    <3> QED
      BY <2>4, <3>1, <3>2 DEF Ended, report_counts_cache_exists
  <2>7. Listed(k)
    BY <2>2 DEF AddedRow, Listed, Exists
  <2>8. Exists(k) /\ ~old.bad => old.counts = Right(k)
    BY <2>1, <2>6 DEF CountsInv, RowsRight, RowRight
  <2>9. q \in Nat /\ k.min_qod \in Nat
    BY CountsConstants DEF Key
  <2>10. CASE k.min_qod <= q
    <3>1. row = Counted(k, n)
      BY <2>7, <2>10 DEF AddedRow
    <3>2. ~old.bad /\ (Exists(k) \/ Right(k) = Zero)
      BY <2>3, <3>1, CountedOK
    <3>3. old.counts = Right(k)
      BY <2>8, <3>2 DEF Exists, NoRow
    <3>4. \A v \in Severity : row.counts[v] = Right(k)'[v]
      BY <1>1, <1>4, <2>9, <2>10, <3>1, <3>3, CountedOK, AddedCounts
    <3>5. row.counts \in Counts /\ Right(k)' \in Counts
      BY <1>4, <1>6, CountsTypedNext DEF RowOK, Row, Right
    <3>6. row.counts = Right(k)'
      BY <3>4, <3>5 DEF Counts
    <3> QED
      BY <2>2, <2>5, <3>6
  <2>11. CASE ~(k.min_qod <= q)
    <3>1. row = old /\ ~(q >= k.min_qod)
      BY <2>9, <2>11 DEF AddedRow
    <3>2. Right(k)' = Right(k)
      BY <1>1, <1>4, <3>1, AddedCounts
    <3> QED
      BY <2>2, <2>3, <2>5, <2>8, <3>1, <3>2 DEF Exists
  <2> QED
    BY <2>10, <2>11
<1> QED
  BY <1>3, <1>5, <1>9, <1>10, StepInv

LEMMA CachedRows ==
    ASSUME CountsInv, WorldOK', NEW clear, report_cache_counts(clear),
           now' = now, \A k \in Key : PendingKept(k),
           \A k \in Key : k.override \notin clear =>
               Right(k)' = Right(k) /\ (k.override = 1 => Kept(k))
    PROVE  RowsOK' /\ \A k \in Key : RowStep(k)
<1>1. DataOK'
  BY DataTypedNext
<1>2. \A k \in Key : report_counts'[k] =
        IF \/ ~Listed(k)
           \/ report_counts_cache_exists(k) /\ k.override \notin clear
        THEN report_counts[k]
        ELSE cache_report_counts(k, report_severity_data(k), Incomplete(k))'
  BY DEF report_cache_counts
<1>3. report_counts' = [ k \in Key |-> report_counts'[k] ]
  BY DEF report_cache_counts
<1>4. ASSUME NEW k \in Key PROVE RowOK(k, report_counts'[k]) /\ RowStep(k)
  <2>1. RowOK(k, report_counts[k])
    BY DEF CountsInv, RowsOK
  <2>2. CASE ~Listed(k)
    <3>1. report_counts'[k] = report_counts[k] /\ report_counts[k] = NoRow
      BY <1>2, <2>2 DEF Listed, Exists
    <3> QED
      BY <2>1, <3>1 DEF RowStep, RowGone
  <2>3. CASE report_counts_cache_exists(k) /\ k.override \notin clear
    <3>1. report_counts'[k] = report_counts[k] /\ PendingKept(k)
      BY <1>2, <2>3
    <3> QED
      BY <2>1, <2>3, <3>1 DEF RowStep, RowStays
  <2>4. CASE /\ Listed(k)
             /\ ~(report_counts_cache_exists(k) /\ k.override \notin clear)
    <3>1. report_counts'[k] = cache_report_counts(k, report_severity_data(k),
                                                  Incomplete(k))'
      BY <1>2, <2>4
    <3>2. RowOK(k, report_counts[k])' /\ RowStored(k)
      BY <1>1, <3>1, RecountedStep
    <3> QED
      BY <3>2 DEF RowStep, RowOK
  <2> QED
    BY <2>2, <2>3, <2>4
<1> QED
  BY <1>3, <1>4 DEF RowsOK, RowOK

LEMMA OptimizeStep ==
    ASSUME CountsInv, manage_optimize
    PROVE  CountsInv'
<1>1. /\ UNCHANGED << results, result_nvt_reports, overrides, permission, now >>
      /\ UNCHANGED << auto_cache_rebuild, kind, session, made >> /\ Command
  BY DEF manage_optimize
<1>2. PICK clear \in { {}, {0, 1} } : report_cache_counts(clear)
  BY DEF manage_optimize
<1>3. WorldOK'
  <2>1. /\ made' \in Nat /\ commands' \in Nat
        /\ made' + commands' <= MaxCommands
    BY <1>1, CommandTyped DEF CountsInv
  <2> QED
    BY <1>1, <2>1 DEF CountsInv, WorldOK
<1>4. \A k \in Key : Kept(k) /\ Right(k)' = Right(k)
  BY <1>1, SameKept DEF Kept
<1>5. /\ SessionsOK' /\ \A s \in Session : SessionStep(s)
      /\ \A k \in Key : PendingKept(k)
  BY <1>1, <1>4, SameSessions DEF CountsInv
<1>6. RowsOK' /\ \A k \in Key : RowStep(k)
  BY <1>1, <1>2, <1>3, <1>4, <1>5, CachedRows
<1> QED
  BY <1>3, <1>5, <1>6, StepInv

LEMMA CreateReportStep ==
    ASSUME CountsInv, create_report
    PROVE  CountsInv'
<1>1. PICK n \in Nvt, q \in Qod : AddResult(n, q)
  BY DEF create_report
<1>2. /\ UNCHANGED << result_nvt_reports, overrides, permission, now >>
      /\ UNCHANGED << auto_cache_rebuild, kind, made, commands >>
      /\ session' = Touched({0, 1})
  BY DEF create_report
<1>3. /\ report_counts' = [ k \in Key |-> report_counts'[k] ]
      /\ \A k \in Key : report_counts'[k] =
          IF ~Listed(k) THEN report_counts[k]
          ELSE IF report_counts_cache_exists(k)
               THEN [ report_counts[k] EXCEPT !.bad = TRUE ]
               ELSE cache_report_counts(k, report_severity_data(k),
                                        Incomplete(k))'
  BY DEF create_report
<1>4. WorldOK' /\ DataOK'
  <2>1. results' \subseteq Results /\ IsFiniteSet(results')
    BY <1>1, AddedResult DEF CountsInv
  <2>2. WorldOK'
    BY <1>2, <2>1 DEF CountsInv, WorldOK
  <2> QED
    BY <2>2, DataTypedNext
<1>5. /\ SessionsOK' /\ \A s \in Session : SessionStep(s)
      /\ \A k \in Key : PendingKept(k)
  BY <1>2, TouchedSessions DEF CountsInv, Key
<1>6. ASSUME NEW k \in Key PROVE RowOK(k, report_counts'[k]) /\ RowStep(k)
  <2> DEFINE row == report_counts[k]
  <2>1. RowOK(k, row)
    BY DEF CountsInv, RowsOK
  <2>2. CASE ~Listed(k)
    <3>1. report_counts'[k] = row /\ row = NoRow
      BY <1>3, <2>2 DEF Listed, Exists
    <3> QED
      BY <2>1, <3>1 DEF RowStep, RowGone
  <2>3. CASE Listed(k) /\ report_counts_cache_exists(k)
    <3>1. report_counts'[k] = [ row EXCEPT !.bad = TRUE ] /\ row # NoRow
      BY <1>3, <2>3 DEF report_counts_cache_exists, Exists
    <3> HIDE DEF row
    <3>2. RowOK(k, report_counts'[k]) /\ report_counts'[k].bad
      BY <2>1, <3>1 DEF RowOK, Row
    <3> QED
      BY <3>2 DEF RowStep, RowMarked
  <2>4. CASE Listed(k) /\ ~report_counts_cache_exists(k)
    <3>1. report_counts'[k] = cache_report_counts(k, report_severity_data(k),
                                                  Incomplete(k))'
      BY <1>3, <2>4
    <3>2. RowOK(k, report_counts[k])' /\ RowStored(k)
      BY <1>4, <3>1, RecountedStep
    <3> QED
      BY <3>2 DEF RowStep, RowOK
  <2> QED
    BY <2>2, <2>3, <2>4
<1>7. RowsOK'
  BY <1>3, <1>6 DEF RowsOK, RowOK
<1> QED
  BY <1>4, <1>5, <1>6, <1>7, StepInv

LEMMA CreateReportEndStep ==
    ASSUME CountsInv, CreateReportEnd
    PROVE  CountsInv'
<1>1. UNCHANGED << auto_cache_rebuild, results, overrides, permission, now,
                   report_counts, made, commands >>
  BY DEF CreateReportEnd
<1>2. WorldOK'
  BY DEF CreateReportEnd, CountsInv, WorldOK
<1>3. \A k \in Key : Kept(k) /\ Right(k)' = Right(k)
  BY <1>1, SameKept DEF Kept
<1>4. /\ SessionsOK' /\ \A s \in Session : SessionStep(s)
      /\ \A k \in Key : PendingKept(k)
  BY <1>3, TouchedSessions DEF CountsInv, CreateReportEnd
<1>5. RowsOK' /\ \A k \in Key : RowStep(k)
  BY <1>1, <1>3, <1>4, RowsSame DEF CountsInv, RowStep, RowStays
<1> QED
  BY <1>2, <1>4, <1>5, StepInv

\* A session begins to clear the counts in clear.
LEMMA ClearingSession ==
    ASSUME SessionsOK, NEW s \in Session, NEW which, NEW clear \in SUBSET {0, 1},
           session' = [ Touched(which) EXCEPT ![s] =
                          [ Idle EXCEPT !.phase = "open", !.clear = clear ] ],
           \A k \in Key : k.override \in which \/ Right(k)' = Right(k),
           Busy(s, "idle")
    PROVE  /\ SessionsOK' /\ \A t \in Session : SessionStep(t)
           /\ \A k \in Key : PendingKept(k)
           /\ \A k \in Key : k.override \in clear => Pending(k)'
<1> DEFINE x == [ Idle EXCEPT !.phase = "open", !.clear = clear ]
<1>1. SessionOK(x) /\ ~Storing(x) /\ x.phase = "open" /\ x.clear = clear
  BY IdleOK DEF SessionOK, SessionRow, Idle, Storing
<1> HIDE DEF x
<1>2. /\ session'[s] = x /\ session' = [ t \in Session |-> session'[t] ]
      /\ \A t \in Session \ {s} : session'[t] = Touched(which)[t]
  BY DEF Touched, x
<1>3. /\ TouchedStep(which, {s})
      /\ \A t \in Session \ {s} : SessionOK(session'[t])
  BY <1>2, IsTouched DEF TouchedStep
<1>4. SessionsOK'
  <2>1. \A t \in Session : SessionOK(session'[t])
    BY <1>1, <1>2, <1>3
  <2> QED
    BY <1>2, <2>1 DEF SessionsOK, SessionOK, Storing
<1>5. \A t \in Session : SessionStep(t)
  <2>1. SessionStep(s)
    BY <1>1, <1>2 DEF SessionStep
  <2> QED
    BY <1>3, <2>1, TouchedSession
<1>6. ASSUME NEW k \in Key PROVE PendingKept(k)
  <2>1. session[s].clear = {}
    BY DEF SessionsOK, SessionOK, Busy
  <2>2. \A t \in Session : Owes(t, k) => t # s
    BY <2>1 DEF Owes
  <2> QED
    BY <1>3, <2>2, TouchedPending DEF PendingKept, Pending, Owes
<1>7. \A k \in Key : k.override \in clear => Pending(k)'
  BY <1>1, <1>2 DEF Pending, Busy
<1> QED
  BY <1>4, <1>5, <1>6, <1>7

LEMMA TrimStep ==
    ASSUME CountsInv, trim_partial_report
    PROVE  CountsInv'
<1>1. UNCHANGED << auto_cache_rebuild, kind, result_nvt_reports, overrides,
                   permission, now, report_counts, made >>
  BY DEF trim_partial_report
<1>2. results' \in SUBSET results /\ Command /\ Busy(Scan, "idle")
  BY DEF trim_partial_report
<1>3. WorldOK'
  <2>1. /\ made' \in Nat /\ commands' \in Nat
        /\ made' + commands' <= MaxCommands
    BY <1>1, <1>2, CommandTyped DEF CountsInv
  <2>2. IsFiniteSet(results')
    BY <1>2, FS_Subset DEF CountsInv, WorldOK
  <2> QED
    BY <1>1, <1>2, <2>1, <2>2 DEF CountsInv, WorldOK
<1>4. /\ SessionsOK' /\ \A t \in Session : SessionStep(t)
      /\ \A k \in Key : k.override \in {0, 1} => Pending(k)'
  <2>1. \A k \in Key : k.override \in {0, 1}
    BY DEF Key
  <2>2. {0, 1} \in SUBSET {0, 1} /\ Scan \in Session /\ SessionsOK
    BY CountsConstants DEF CountsInv
  <2>3. session' = [ Touched({0, 1}) EXCEPT ![Scan] =
                       [ Idle EXCEPT !.phase = "open", !.clear = {0, 1} ] ]
    BY DEF trim_partial_report
  <2> QED
    BY <1>2, <2>1, <2>2, <2>3, ClearingSession
<1>5. RowsOK' /\ \A k \in Key : RowStep(k)
  BY <1>1, <1>4, RowsSame DEF CountsInv, RowStep, Key
<1> QED
  BY <1>3, <1>4, <1>5, StepInv

LEMMA TickStep ==
    ASSUME CountsInv, Tick
    PROVE  CountsInv'
<1>1. UNCHANGED << auto_cache_rebuild, kind, results, result_nvt_reports,
                   overrides, permission, report_counts, made, commands >>
  BY DEF Tick
<1>2. now \in Nat /\ now' = now + 1 /\ now' \in FirstTime .. MaxTime
  BY CountsConstants DEF Tick, CountsInv, WorldOK, FirstTime
<1>3. WorldOK'
  BY <1>1, <1>2 DEF CountsInv, WorldOK
<1>4. \A o \in Override : overrides[o].end_time \in Nat
  BY DataTyped, CountsConstants DEF CountsInv, DataOK, EndTime
<1>5. ASSUME NEW k \in Key, k.override = 0 PROVE Right(k)' = Right(k)
  BY <1>1, <1>5, PlainKept
\* An NVT none of whose overrides ends just now.
<1>6. ASSUME NEW n, \A o \in Override :
                        overrides[o].loc = "table" /\ overrides[o].nvt = n
                            /\ HasAccess(o) => overrides[o].end_time # now
      PROVE  ValidRows(n)' = ValidRows(n)
  <2>1. ASSUME NEW o \in Override, overrides[o].loc = "table",
               overrides[o].nvt = n, HasAccess(o)
        PROVE  Active(o)' <=> Active(o)
    BY <1>1, <1>2, <1>4, <1>6, <2>1 DEF Active
  <2>2. \A o \in Override : HasAccess(o)' <=> HasAccess(o)
    BY <1>1 DEF HasAccess
  <2>3. Valid(n)' = Valid(n)
    BY <1>1, <2>1, <2>2 DEF Valid
  <2> QED
    BY <1>1, <2>3 DEF ValidRows
<1>7. /\ SessionsOK' /\ \A s \in Session : SessionStep(s)
      /\ \A k \in Key : PendingKept(k)
  <2>1. CASE \E o \in Override : overrides[o].end_time = now
    <3>1. session' = Touched({1})
      BY <2>1 DEF Tick
    <3>2. \A k \in Key : k.override \in {1} \/ Right(k)' = Right(k)
      BY <1>5 DEF Key
    <3> QED
      BY <3>1, <3>2, TouchedSessions DEF CountsInv
  <2>2. CASE ~\E o \in Override : overrides[o].end_time = now
    <3>1. session' = session
      BY <2>2 DEF Tick
    <3>2. \A k \in Key : Right(k)' = Right(k)
      BY <1>1, <1>6, <2>2, SameCounts
    <3> QED
      BY <3>1, <3>2, SameSessions DEF CountsInv
  <2> QED
    BY <2>1, <2>2
<1>8. ASSUME NEW k \in Key PROVE RowRight(k)'
  <2> DEFINE e == report_counts[k].end_time
  <2>e. e \in Int
    BY CountsConstants DEF CountsInv, RowsOK, RowOK, Row, EndTime
  <2> SUFFICES ASSUME report_counts_cache_exists(k)', ~report_counts'[k].bad,
                      ~Pending(k)'
               PROVE  /\ report_counts'[k].counts = Right(k)'
                      /\ k.override = 1
                            => EndsBy(k, report_counts[k].end_time)'
    BY DEF RowRight
  <2>1. Exists(k) /\ (e = 0 \/ e >= now + 1)
    BY <1>1, <1>2 DEF report_counts_cache_exists, Exists
  <2>2. report_counts_cache_exists(k)
    BY <1>2, <2>e, <2>1 DEF report_counts_cache_exists
  <2>3. ~report_counts[k].bad /\ ~Pending(k)
    BY <1>1, <1>7 DEF PendingKept
  <2>4. /\ report_counts[k].counts = Right(k)
        /\ k.override = 1 => EndsBy(k, e)
    BY <2>2, <2>3 DEF CountsInv, RowsRight, RowRight
  <2>5. CASE k.override = 0
    BY <1>1, <1>5, <2>4, <2>5
  <2>6. CASE k.override = 1
    <3>1. ASSUME NEW o \in Override, Bearing(k, o), overrides[o].end_time = now
          PROVE  FALSE
      <4>1. overrides[o].end_time >= now
        BY <1>2, <3>1
      <4>2. e # 0 /\ e <= now
        BY <2>4, <2>6, <3>1, <4>1 DEF EndsBy
      <4> HIDE DEF e
      <4> QED
        BY <1>2, <2>e, <2>1, <4>2
    <3>2. ASSUME NEW r \in results, r.qod >= k.min_qod
          PROVE  ValidRows(r.nvt)' = ValidRows(r.nvt)
      BY <1>6, <3>1, <3>2 DEF Bearing
    <3>3. Right(k)' = Right(k)
      BY <1>1, <3>2, SameCounts
    <3>4. EndsBy(k, report_counts[k].end_time)'
      <4> SUFFICES ASSUME NEW o \in Override, Bearing(k, o)',
                          overrides'[o].end_time >= now'
                   PROVE  /\ report_counts'[k].end_time # 0
                          /\ report_counts'[k].end_time <= overrides'[o].end_time
        BY DEF EndsBy
      <4>1. Bearing(k, o)
        BY <1>1 DEF Bearing, HasAccess
      <4>2. overrides[o].end_time >= now
        BY <1>1, <1>2, <1>4
      <4> QED
        BY <1>1, <2>4, <2>6, <4>1, <4>2 DEF EndsBy
    <3> QED
      BY <1>1, <2>4, <3>3, <3>4
  <2> QED
    BY <2>5, <2>6 DEF Key
<1>9. RowsOK'
  BY <1>1, RowsSame DEF CountsInv
<1> QED
  BY <1>3, <1>7, <1>8, <1>9, StepInv

-----------------------------------------------------------------------------
(***************************************************************************)
(* The commands on overrides and permissions: the cache is cleared or      *)
(* rebuilt, or the counts with overrides are marked, or a session goes on  *)
(* to clear them, or the change does not matter to the report.             *)
(***************************************************************************)
Rebuilt == Refresh /\ session' = Touched({1})
Marked == MarkOverridden /\ session' = Touched({1})
Clearing ==
    \E s \in Session :
        /\ Busy(s, "idle") /\ report_counts' = report_counts
        /\ session' = [ Touched({1}) EXCEPT ![s] =
                          [ Idle EXCEPT !.phase = "open", !.clear = {1} ] ]
Unaffected(o) == /\ ~Effective(o) /\ ~Effective(o)'
                 /\ UNCHANGED << report_counts, session >>

LEMMA OverrideStep ==
    ASSUME CountsInv, WorldOK', NEW o \in Override, OnlyOverride(o),
           Rebuilt \/ Marked \/ Clearing \/ Unaffected(o)
    PROVE  CountsInv'
<1>1. ASSUME NEW k \in Key, k.override = 0 PROVE Right(k)' = Right(k)
  BY <1>1, PlainKept DEF OnlyOverride
<1>2. \A k \in Key : k.override \in {1} \/ Right(k)' = Right(k)
  BY <1>1 DEF Key
<1>3. now' = now
  BY DEF OnlyOverride
<1>4. SessionsOK
  BY DEF CountsInv
<1>5. ASSUME NEW k \in Key, k.override = 0, PendingKept(k),
             report_counts'[k] = report_counts[k]
      PROVE  RowStep(k)
  BY <1>1, <1>3, <1>5 DEF RowStep, RowStays
<1>6. CASE Rebuilt
  <2>1. /\ SessionsOK' /\ \A s \in Session : SessionStep(s)
        /\ \A k \in Key : PendingKept(k)
    BY <1>2, <1>4, <1>6, TouchedSessions DEF Rebuilt
  <2>2. CASE auto_cache_rebuild
    <3>1. report_cache_counts({1})
      BY <1>6, <2>2 DEF Rebuilt, Refresh
    <3>2. \A k \in Key : k.override \notin {1} =>
             Right(k)' = Right(k) /\ (k.override = 1 => Kept(k))
      BY <1>2
    <3>3. RowsOK' /\ \A k \in Key : RowStep(k)
      BY <1>3, <2>1, <3>1, <3>2, CachedRows
    <3> QED
      BY <2>1, <3>3, StepInv
  <2>3. CASE ~auto_cache_rebuild
    <3>1. report_clear_count_cache({1})
      BY <1>6, <2>3 DEF Rebuilt, Refresh
    <3>2. /\ RowsOK'
          /\ \A k \in Key : IF k.override \in {1} THEN RowGone(k)
                            ELSE report_counts'[k] = report_counts[k]
      BY <3>1, ClearedRows DEF CountsInv
    <3>3. \A k \in Key : RowStep(k)
      BY <1>5, <2>1, <3>2 DEF RowStep, Key
    <3> QED
      BY <2>1, <3>2, <3>3, StepInv
  <2> QED
    BY <2>2, <2>3
<1>7. CASE Marked
  <2>1. /\ SessionsOK' /\ \A s \in Session : SessionStep(s)
        /\ \A k \in Key : PendingKept(k)
    BY <1>2, <1>4, <1>7, TouchedSessions DEF Marked
  <2>2. /\ report_counts' = [ k \in Key |-> report_counts'[k] ]
        /\ \A k \in Key : report_counts'[k] =
              IF k.override = 1 /\ Exists(k)
              THEN [ report_counts[k] EXCEPT !.bad = TRUE ] ELSE report_counts[k]
    BY <1>7 DEF Marked, MarkOverridden
  <2>3. ASSUME NEW k \in Key PROVE RowOK(k, report_counts'[k]) /\ RowStep(k)
    <3> DEFINE row == report_counts[k]
    <3>1. RowOK(k, row)
      BY DEF CountsInv, RowsOK
    <3>2. CASE k.override = 1 /\ Exists(k)
      <4>1. report_counts'[k] = [ row EXCEPT !.bad = TRUE ] /\ row # NoRow
        BY <2>2, <3>2 DEF Exists
      <4> HIDE DEF row
      <4>2. RowOK(k, report_counts'[k]) /\ report_counts'[k].bad
        BY <3>1, <4>1 DEF RowOK, Row
      <4> QED
        BY <4>2 DEF RowStep, RowMarked
    <3>3. CASE ~Exists(k)
      <4>1. report_counts'[k] = NoRow
        BY <2>2, <3>3 DEF Exists
      <4> QED
        BY <4>1, NoRowOK DEF RowStep, RowGone
    <3>4. CASE k.override # 1
      <4>1. report_counts'[k] = row /\ k.override = 0
        BY <2>2, <3>4 DEF Key
      <4> QED
        BY <1>5, <2>1, <3>1, <4>1
    <3> QED
      BY <3>2, <3>3, <3>4
  <2>4. RowsOK'
    BY <2>2, <2>3 DEF RowsOK, RowOK
  <2> QED
    BY <2>1, <2>3, <2>4, StepInv
<1>8. CASE Clearing
  <2>1. PICK s \in Session :
          /\ Busy(s, "idle") /\ report_counts' = report_counts
          /\ session' = [ Touched({1}) EXCEPT ![s] =
                            [ Idle EXCEPT !.phase = "open", !.clear = {1} ] ]
    BY <1>8 DEF Clearing
  <2>2. {1} \in SUBSET {0, 1}
    OBVIOUS
  <2>3. /\ SessionsOK' /\ \A t \in Session : SessionStep(t)
        /\ \A k \in Key : PendingKept(k)
        /\ \A k \in Key : k.override \in {1} => Pending(k)'
    BY <1>2, <1>4, <2>1, <2>2, ClearingSession
  <2>4. \A k \in Key : RowStep(k)
    BY <1>5, <2>1, <2>3 DEF RowStep, Key
  <2>5. RowsOK'
    BY <2>1, RowsSame DEF CountsInv
  <2> QED
    BY <2>3, <2>4, <2>5, StepInv
<1>9. CASE Unaffected(o)
  <2>1. \A k \in Key : Kept(k) /\ Right(k)' = Right(k)
    BY <1>9, IneffectiveKept DEF Unaffected, Kept
  <2>2. /\ SessionsOK' /\ \A s \in Session : SessionStep(s)
        /\ \A k \in Key : PendingKept(k)
    BY <1>4, <1>9, <2>1, SameSessions DEF Unaffected
  <2>3. RowsOK' /\ \A k \in Key : RowStep(k)
    BY <1>3, <1>9, <2>1, <2>2, RowsSame
       DEF CountsInv, RowStep, RowStays, Unaffected
  <2> QED
    BY <2>2, <2>3, StepInv
<1> QED
  BY <1>6, <1>7, <1>8, <1>9

\* An override is written.
LEMMA SetOverride ==
    ASSUME CountsInv, NEW o \in Override,
           NEW x \in {NoOverride} \cup OverrideRow,
           overrides' = [ overrides EXCEPT ![o] = x ],
           UNCHANGED OverridesOnly, Command, made' = made \/ made' = made + 1,
           permission' \in [ Shared -> Location ],
           \A p \in Shared \ {o} : permission'[p] = permission[p]
    PROVE  WorldOK' /\ OnlyOverride(o) /\ overrides'[o] = x
<1>1. /\ made' \in Nat /\ commands' \in Nat
      /\ made' + commands' <= MaxCommands
  BY CommandTyped DEF CountsInv
<1>2. /\ overrides' \in [ Override -> {NoOverride} \cup OverrideRow ]
      /\ overrides'[o] = x
      /\ \A p \in Override \ {o} : overrides'[p] = overrides[p]
  BY DEF CountsInv, WorldOK
<1>3. WorldOK'
  BY <1>1, <1>2 DEF CountsInv, WorldOK, OverridesOnly
<1>4. \A p \in Override \ {o} : HasAccess(p)' <=> HasAccess(p)
  BY DEF HasAccess
<1> QED
  BY <1>2, <1>3, <1>4 DEF OnlyOverride, OverridesOnly

LEMMA CommandEnds ==
    ASSUME CountsInv
    PROVE  EndTimes \subseteq EndTime
BY CountsConstants DEF CountsInv, WorldOK, EndTimes, EndTime, FirstTime

LEMMA TableRow ==
    ASSUME CountsInv, NEW o \in Override, overrides[o].loc # "none"
    PROVE  overrides[o] \in OverrideRow
BY DEF CountsInv, WorldOK, NoOverride

LEMMA CreateOverrideStep ==
    ASSUME CountsInv, NEW s \in Session, NEW o \in Override, create_override(s, o)
    PROVE  CountsInv'
<1>1. /\ Busy(s, "idle") /\ overrides[o].loc = "none" /\ Command
      /\ made' = made + 1
      /\ UNCHANGED << OverridesOnly, permission, report_counts >>
  BY DEF create_override
<1>2. PICK n \in OverrideNvt, severity \in NewSeverities, end \in EndTimes :
          /\ overrides' = [ overrides EXCEPT ![o] =
                [ loc |-> "table", nvt |-> n, new_severity |-> severity,
                  end_time |-> end, creation |-> made + 1 ] ]
          /\ ThenRefresh(s, HasAccess(o) /\ InReport(n))
  BY DEF create_override
<1> DEFINE x == [ loc |-> "table", nvt |-> n, new_severity |-> severity,
                  end_time |-> end, creation |-> made + 1 ]
<1>3. x \in OverrideRow /\ x.nvt = n
  BY <1>1, CommandTyped, CommandEnds DEF CountsInv, OverrideRow
<1> HIDE DEF x
<1>4. permission' \in [ Shared -> Location ] /\ permission' = permission
  BY <1>1 DEF CountsInv, WorldOK
<1>5. WorldOK' /\ OnlyOverride(o) /\ overrides'[o] = x
  <2>1. overrides' = [ overrides EXCEPT ![o] = x ]
    BY <1>2 DEF x
  <2> QED
    BY <1>1, <1>3, <1>4, <2>1, SetOverride
<1>6. HasAccess(o)' <=> HasAccess(o)
  BY <1>4 DEF HasAccess
<1>7. \A m : InReport(m)' <=> InReport(m)
  BY <1>1 DEF InReport, OverridesOnly
<1>8. CASE HasAccess(o) /\ InReport(n)
  <2>1. Clearing
    BY <1>1, <1>2, <1>8 DEF Clearing, ThenRefresh
  <2> QED
    BY <1>5, <2>1, OverrideStep
<1>9. CASE ~(HasAccess(o) /\ InReport(n))
  <2>1. Unaffected(o)
    BY <1>1, <1>2, <1>3, <1>5, <1>6, <1>7, <1>9
       DEF Unaffected, ThenRefresh, Effective
  <2> QED
    BY <1>5, <2>1, OverrideStep
<1> QED
  BY <1>8, <1>9

LEMMA CopyOverrideStep ==
    ASSUME CountsInv, NEW o \in Override, NEW p \in Override, copy_override(o, p)
    PROVE  CountsInv'
<1>1. /\ overrides[o].loc = "none" /\ overrides[p].loc = "table" /\ Command
      /\ made' = made + 1 /\ UNCHANGED << OverridesOnly, permission >>
  BY DEF copy_override
<1> DEFINE x == [ overrides[p] EXCEPT !.creation = made + 1 ]
<1>2. x \in OverrideRow /\ x.nvt = overrides[p].nvt
  <2>1. overrides[p] \in OverrideRow
    BY <1>1, TableRow
  <2>2. made + 1 \in 0 .. MaxCommands
    BY <1>1, CommandTyped DEF CountsInv
  <2> QED
    BY <2>1, <2>2 DEF OverrideRow
<1>3. overrides' = [ overrides EXCEPT ![o] = x ]
  BY DEF copy_override
<1> HIDE DEF x
<1>4. permission' \in [ Shared -> Location ] /\ permission' = permission
  BY <1>1 DEF CountsInv, WorldOK
<1>5. WorldOK' /\ OnlyOverride(o) /\ overrides'[o] = x
  BY <1>1, <1>2, <1>3, <1>4, SetOverride
<1>6. CASE reports_for_override(p)
  <2>1. Marked
    BY <1>6 DEF copy_override, Marked
  <2> QED
    BY <1>5, <2>1, OverrideStep
<1>7. CASE ~reports_for_override(p)
  <2>1. \A m : InReport(m)' <=> InReport(m)
    BY <1>1 DEF InReport, OverridesOnly
  <2>2. UNCHANGED << report_counts, session >>
    BY <1>7 DEF copy_override
  <2>3. Unaffected(o)
    BY <1>1, <1>2, <1>5, <1>7, <2>1, <2>2
       DEF Unaffected, Effective, reports_for_override
  <2> QED
    BY <1>5, <2>3, OverrideStep
<1> QED
  BY <1>6, <1>7

LEMMA ModifyOverrideStep ==
    ASSUME CountsInv, NEW s \in Session, NEW o \in Override, modify_override(s, o)
    PROVE  CountsInv'
<1>1. /\ Busy(s, "idle") /\ overrides[o].loc = "table" /\ Command
      /\ UNCHANGED << OverridesOnly, permission, made >>
  BY DEF modify_override
<1> DEFINE old == overrides[o]
           New(n, v, e) == [ old EXCEPT !.nvt = n, !.new_severity = v,
                                        !.end_time = e ]
           Affected(n) == HasAccess(o) /\ (InReport(old.nvt) \/ InReport(n))
<1>2. PICK n \in OverrideNvt, v \in NewSeverities,
           e \in EndTimes \cup { old.end_time } :
          /\ overrides' = [ overrides EXCEPT ![o] = New(n, v, e) ]
          /\ \/ ThenRefresh(s, Affected(n)) /\ UNCHANGED report_counts
             \/ MarkOverridden /\ session' = Touched({1})
             \/ ~Affected(n) /\ UNCHANGED << report_counts, session >>
  BY DEF modify_override, reports_for_override
<1> DEFINE x == New(n, v, e)
<1>3. x \in OverrideRow /\ x.nvt = n
  <2>1. old \in OverrideRow
    BY <1>1, TableRow
  <2>2. e \in EndTime
    BY <2>1, CommandEnds DEF OverrideRow
  <2> HIDE DEF old
  <2> QED
    BY <2>1, <2>2 DEF OverrideRow
<1>4. permission' \in [ Shared -> Location ] /\ permission' = permission
  BY <1>1 DEF CountsInv, WorldOK
<1>5. WorldOK' /\ OnlyOverride(o) /\ overrides'[o] = x
  <2>1. overrides' = [ overrides EXCEPT ![o] = x ]
    BY <1>2
  <2> HIDE DEF x
  <2> QED
    BY <1>1, <1>3, <1>4, <2>1, SetOverride
<1>6. /\ HasAccess(o)' <=> HasAccess(o)
      /\ \A m : InReport(m)' <=> InReport(m)
  BY <1>1, <1>4 DEF HasAccess, InReport, OverridesOnly
<1>7. ~Affected(n) => ~Effective(o) /\ ~Effective(o)'
  BY <1>3, <1>5, <1>6 DEF Effective
<1>8. Clearing \/ Marked \/ Unaffected(o)
  BY <1>1, <1>2, <1>7 DEF Clearing, Marked, Unaffected, ThenRefresh
<1> QED
  BY <1>5, <1>8, OverrideStep

LEMMA DeleteOverrideStep ==
    ASSUME CountsInv, NEW o \in Override, delete_override(o)
    PROVE  CountsInv'
<1>1. /\ overrides[o].loc # "none" /\ Command
      /\ UNCHANGED OverridesOnly /\ made' = made
      /\ RefreshIf(/\ overrides[o].loc = "table"
                   /\ reports_for_override(o) /\ HasAccess(o))
  BY DEF delete_override
<1> DEFINE old == overrides[o]
<1>2. PICK ultimate \in BOOLEAN :
          /\ overrides' = [ overrides EXCEPT ![o] =
                IF ultimate THEN NoOverride ELSE [ old EXCEPT !.loc = "trash" ] ]
          /\ permission' = IF ultimate /\ o \in Shared
                           THEN [ permission EXCEPT ![o] = "none" ]
                           ELSE permission
  BY DEF delete_override
<1> DEFINE x == IF ultimate THEN NoOverride ELSE [ old EXCEPT !.loc = "trash" ]
<1>3. x \in {NoOverride} \cup OverrideRow /\ x.loc # "table"
  <2>1. old \in OverrideRow
    BY <1>1, TableRow
  <2> HIDE DEF old
  <2> QED
    BY <2>1 DEF OverrideRow, NoOverride
<1>4. /\ permission' \in [ Shared -> Location ]
      /\ \A p \in Shared \ {o} : permission'[p] = permission[p]
  BY <1>2 DEF CountsInv, WorldOK, Location
<1>5. WorldOK' /\ OnlyOverride(o) /\ overrides'[o] = x
  <2>1. overrides' = [ overrides EXCEPT ![o] = x ]
    BY <1>2
  <2> HIDE DEF x
  <2> QED
    BY <1>1, <1>3, <1>4, <2>1, SetOverride
<1>6. Rebuilt \/ Unaffected(o)
  <2>1. ~Effective(o)'
    BY <1>3, <1>5 DEF Effective
  <2> QED
    BY <1>1, <2>1 DEF RefreshIf, Rebuilt, Unaffected, Effective, reports_for_override
<1> QED
  BY <1>5, <1>6, OverrideStep

LEMMA RestoreOverrideStep ==
    ASSUME CountsInv, NEW o \in Override, RestoreOverride(o)
    PROVE  CountsInv'
<1>1. /\ overrides[o].loc = "trash" /\ Command
      /\ UNCHANGED << OverridesOnly, permission >> /\ made' = made
      /\ RefreshIf(reports_for_override(o) /\ HasAccess(o))
  BY DEF RestoreOverride
<1> DEFINE old == overrides[o]
           x == [ old EXCEPT !.loc = "table" ]
<1>2. overrides' = [ overrides EXCEPT ![o] = x ]
  BY DEF RestoreOverride, CountsInv, WorldOK
<1>3. x \in OverrideRow /\ x.nvt = old.nvt
  <2>1. old \in OverrideRow
    BY <1>1, TableRow
  <2> HIDE DEF old
  <2> QED
    BY <2>1 DEF OverrideRow
<1>4. permission' \in [ Shared -> Location ] /\ permission' = permission
  BY <1>1 DEF CountsInv, WorldOK
<1> HIDE DEF x
<1>5. WorldOK' /\ OnlyOverride(o) /\ overrides'[o] = x
  BY <1>1, <1>2, <1>3, <1>4, SetOverride
<1>6. /\ HasAccess(o)' <=> HasAccess(o)
      /\ \A m : InReport(m)' <=> InReport(m)
  BY <1>1, <1>4 DEF HasAccess, InReport, OverridesOnly
<1>7. Rebuilt \/ Unaffected(o)
  BY <1>1, <1>3, <1>5, <1>6
     DEF RefreshIf, Rebuilt, Unaffected, Effective, reports_for_override
<1> QED
  BY <1>5, <1>7, OverrideStep

\* A permission is moved: it matters only if the override applies.
LEMMA PermissionStep ==
    ASSUME CountsInv, NEW o \in Shared, NEW from \in Location, NEW to \in Location,
           SetPermission(o, from, to),
           \/ RefreshFor(o)
           \/ reports_for_override(o) /\ Marked
           \/ ~reports_for_override(o) /\ UNCHANGED << report_counts, session >>
           \/ /\ from # "table" /\ to # "table"
              /\ UNCHANGED << report_counts, session >>
    PROVE  CountsInv'
<1>1. /\ permission[o] = from /\ permission' = [ permission EXCEPT ![o] = to ]
      /\ Command /\ UNCHANGED << OverridesOnly, overrides, made >>
  BY DEF SetPermission
<1>2. /\ permission' \in [ Shared -> Location ] /\ permission'[o] = to
      /\ \A p \in Shared \ {o} : permission'[p] = permission[p]
  BY <1>1 DEF CountsInv, WorldOK
<1>3. WorldOK'
  <2>1. /\ made' \in Nat /\ commands' \in Nat
        /\ made' + commands' <= MaxCommands
    BY <1>1, CommandTyped DEF CountsInv
  <2> QED
    BY <1>1, <1>2, <2>1 DEF CountsInv, WorldOK, OverridesOnly
<1>4. o \in Override /\ OnlyOverride(o)
  BY <1>1, <1>2 DEF OnlyOverride, OverridesOnly, Override, HasAccess
<1>5. \A m : InReport(m)' <=> InReport(m)
  BY <1>1 DEF InReport, OverridesOnly
<1>6. Rebuilt \/ Marked \/ Unaffected(o)
  BY <1>1, <1>2, <1>5
     DEF RefreshFor, RefreshIf, Rebuilt, Unaffected, Effective, HasAccess,
         reports_for_override
<1> QED
  BY <1>3, <1>4, <1>6, OverrideStep

LEMMA PermissionsStep ==
    ASSUME CountsInv, NEW o \in Shared,
           \/ create_permission(o) \/ delete_permission(o)
           \/ RestorePermission(o) \/ modify_permission(o)
    PROVE  CountsInv'
<1>1. "none" \in Location /\ "table" \in Location /\ "trash" \in Location
  BY DEF Location
<1>2. CASE create_permission(o)
  BY <1>1, <1>2, PermissionStep DEF create_permission
<1>3. CASE delete_permission(o)
  BY <1>1, <1>3, PermissionStep DEF delete_permission
<1>4. CASE RestorePermission(o)
  BY <1>1, <1>4, PermissionStep DEF RestorePermission
<1>5. CASE modify_permission(o)
  BY <1>1, <1>5, PermissionStep DEF modify_permission, Marked
<1> QED
  BY <1>2, <1>3, <1>4, <1>5

-----------------------------------------------------------------------------
(***************************************************************************)
(* The invariant, and the theorems.                                        *)
(***************************************************************************)
LEMMA CountsInitInv == CountsInit => CountsInv
<1> SUFFICES ASSUME CountsInit PROVE CountsInv
  OBVIOUS
<1>1. WorldOK
  <2>1. overrides \in [ Override -> {NoOverride} \cup OverrideRow ]
    <3>1. Earlier \subseteq OverrideRow
      BY CountsConstants
         DEF Earlier, OverrideRow, OverrideNvt, EndTime, FirstTime
    <3> QED
      BY <3>1 DEF CountsInit
  <2>2. IsFiniteSet(results) /\ results \subseteq Results
    BY FS_EmptySet DEF CountsInit
  <2>3. auto_cache_rebuild \in BOOLEAN /\ kind \in {"scan", "import", "imported"}
    BY CountsConstants DEF CountsInit
  <2>4. /\ now \in FirstTime .. MaxTime /\ made \in Nat /\ commands \in Nat
        /\ made + commands <= MaxCommands
    BY CountsConstants DEF CountsInit, FirstTime
  <2> QED
    BY <2>1, <2>2, <2>3, <2>4 DEF WorldOK, CountsInit
<1>2. RowsOK /\ \A k \in Key : ~Exists(k)
  BY NoRowOK DEF CountsInit, RowsOK, Exists
<1>3. SessionsOK /\ \A s \in Session : ~Storing(session[s])
  BY IdleOK DEF CountsInit, SessionsOK
<1>4. SessionRight /\ RowsRight
  BY <1>2, <1>3
     DEF SessionRight, RowsRight, RowRight, report_counts_cache_exists
<1> QED
  BY <1>1, <1>2, <1>3, <1>4 DEF CountsInv

LEMMA CountsNextInv == CountsInv /\ [CountsNext]_counts_vars => CountsInv'
<1> SUFFICES ASSUME CountsInv, [CountsNext]_counts_vars PROVE CountsInv'
  OBVIOUS
<1>1. ASSUME NEW s \in Session,
             \/ Open(s) \/ Compute(s) \/ GiveUp(s)
             \/ DeleteCounts(s) \/ InsertCounts(s)
      PROVE  CountsInv'
  BY <1>1, OpenStep, ComputeStep, GiveUpStep, DeleteCountsStep, InsertCountsStep
<1>2. ASSUME NEW s \in Session, NEW k \in Key,
             report_counts_id(s, k) \/ ClearKey(s, k) \/ KeepKey(s, k)
      PROVE  CountsInv'
  BY <1>2, ClientStep, ClearKeyStep, KeepKeyStep
<1>3. ASSUME NEW s \in Session, NEW o \in Override,
             create_override(s, o) \/ modify_override(s, o)
      PROVE  CountsInv'
  BY <1>3, CreateOverrideStep, ModifyOverrideStep
<1>4. ASSUME \/ set_report_scan_run_status \/ report_add_result
             \/ trim_partial_report \/ create_report \/ CreateReportEnd
             \/ Tick \/ manage_optimize
      PROVE  CountsInv'
  BY <1>4, ScanStatusStep, AddResultStep, TrimStep, CreateReportStep,
     CreateReportEndStep, TickStep, OptimizeStep
<1>5. ASSUME NEW o \in Override,
             \/ delete_override(o) \/ RestoreOverride(o)
             \/ \E p \in Override : copy_override(o, p)
      PROVE  CountsInv'
  BY <1>5, DeleteOverrideStep, RestoreOverrideStep, CopyOverrideStep
<1>6. ASSUME NEW o \in Shared,
             \/ create_permission(o) \/ delete_permission(o)
             \/ RestorePermission(o) \/ modify_permission(o)
      PROVE  CountsInv'
  BY <1>6, PermissionsStep
<1>7. CASE UNCHANGED counts_vars
  <2>1. /\ UNCHANGED << results, overrides, permission, now >>
        /\ session' = session /\ report_counts' = report_counts
    BY <1>7 DEF counts_vars
  <2>2. WorldOK'
    BY <1>7 DEF counts_vars, CountsInv, WorldOK
  <2>3. \A k \in Key : Kept(k) /\ Right(k)' = Right(k)
    BY <2>1, SameKept DEF Kept
  <2>4. /\ SessionsOK' /\ \A s \in Session : SessionStep(s)
        /\ \A k \in Key : PendingKept(k)
    BY <2>1, <2>3, SameSessions DEF CountsInv
  <2>5. RowsOK' /\ \A k \in Key : RowStep(k)
    BY <2>1, <2>3, <2>4, RowsSame DEF CountsInv, RowStep, RowStays
  <2> QED
    BY <2>2, <2>4, <2>5, StepInv
<1> QED
  BY <1>1, <1>2, <1>3, <1>4, <1>5, <1>6, <1>7 DEF CountsNext

LEMMA CountsInvariance == CountsSpec => []CountsInv
BY CountsInitInv, CountsNextInv, PTL DEF CountsSpec

LEMMA CountsInvTyped == CountsInv => CountsTypeOK
<1> SUFFICES ASSUME CountsInv PROVE CountsTypeOK
  OBVIOUS
<1>1. /\ report_counts \in [ Key -> Row ]
      /\ \A k \in Key : k.override = 0 =>
            /\ report_counts[k].end_time \in {-1, 0}
            /\ \A s \in NewSeverities : report_counts[k].counts[s] = 0
  BY DEF CountsInv, RowsOK, RowOK, Plain
<1>2. session \in [ Session -> SessionRow ]
  BY DEF CountsInv, SessionsOK, SessionOK
<1>3. made \in 0 .. MaxCommands /\ commands \in 0 .. MaxCommands
  BY CountsConstants DEF CountsInv, WorldOK
<1>4. /\ auto_cache_rebuild \in BOOLEAN
      /\ kind \in {"scan", "import", "imported"}
      /\ results \subseteq Results /\ result_nvt_reports \subseteq Nvt
      /\ overrides \in [ Override -> {NoOverride} \cup OverrideRow ]
      /\ permission \in [ Shared -> Location ] /\ now \in FirstTime .. MaxTime
  BY DEF CountsInv, WorldOK
<1> QED
  BY <1>1, <1>2, <1>3, <1>4 DEF CountsTypeOK, Row, SessionRow, OverrideRow

\* The state of the cache of the result counts stays within its types; among
\* others, counts without overrides never end and have no severity of an
\* override, whoever stores them: cache_report_counts stores an end time
\* only where overrides apply.
THEOREM CountsTypeCorrect == CountsSpec => []CountsTypeOK
BY CountsInvariance, CountsInvTyped, PTL

\* Counts that report_counts_cache_exists finds are what counting anew would
\* give, for any number of results, sessions, overrides and permissions and
\* however their steps interleave, but for the named holes and while the
\* session that made the change has still to clear the row.
THEOREM CacheStaysRight == CountsSpec => []CacheRight
<1>1. CountsInv => CacheRight
  BY DEF CountsInv, RowsRight, RowRight, CacheRight
<1> QED
  BY <1>1, CountsInvariance, PTL

-----------------------------------------------------------------------------
(***************************************************************************)
(* The NVTs.                                                               *)
(***************************************************************************)
\* The child has been told the version of the scanner's feed.
Told == { "info", "list", "version1", "version2" } \cup Recorded

\* The child works on the version it was told; from set_nvts_feed_version on
\* the database names that version, and in the middle of it none.
VersionInv ==
    /\ pc \in Told => plugins_feed \in Feed
    /\ pc = "version2" => nvts_feed_version = 0
    /\ pc \in Recorded => nvts_feed_version = plugins_feed

\* What insert_nvts_list has done so far: the table has rows of the new feed
\* only, and each NVT that was inserted is in the table or in the open
\* transaction.  Before it, it has done nothing.
InsertInv ==
    /\ pc \notin {"insert", "inspref", "finish"} => inserted = 0 /\ chunk_count = 0
    /\ pc = "insert" =>
          /\ \A o \in Oid : nvts[o] \in {0, plugins_feed}
          /\ \A o \in Oid : o <= inserted => nvts[o] # 0 \/ o \in pending

\* What the last steps of manage_complete_nvt_cache_update find.
EndInv ==
    /\ pc \in {"inspref", "finish"} => \A o \in Oid : nvts[o] = plugins_feed
    /\ pc = "finish" => nvt_preferences = plugins_feed

IInv == TypeOK /\ VersionInv /\ InsertInv /\ EndInv /\ OneFeed /\ Complete

USE NvtBoundAssumption DEF child, world, meta, tables, PC, Recorded, Told

-----------------------------------------------------------------------------
\* The program of the daemon and the child begins in the invariant.
LEMMA InitInv == Init => IInv
<1> SUFFICES ASSUME Init PROVE IInv
  OBVIOUS
<1>1. TypeOK
  <2>1. NoNvts \in [Oid -> 0 .. MaxFeed] /\ 1 \in Feed
    BY DEF NoNvts, Feed
  <2>2. ASSUME NEW b, b = FALSE PROVE b \in BOOLEAN
    BY <2>2
  <2> HIDE NvtBoundAssumption
  <2>3. /\ feed \in Feed /\ pc \in PC /\ plugins_feed \in 0 .. MaxFeed
        /\ chunk_count \in 0 .. ChunkSize /\ inserted \in 0 .. NvtCount
        /\ nvts_feed_version \in 0 .. MaxFeed /\ faults \in 0 .. MaxFaults
        /\ nvt_preferences \in 0 .. MaxFeed
    BY <2>1, NvtBoundAssumption DEF Init
  <2> QED
    BY <2>1, <2>2, <2>3 DEF Init, TypeOK
<1>2. VersionInv /\ InsertInv /\ EndInv
  BY DEF Init, VersionInv, InsertInv, EndInv
<1>3. OneFeed /\ Complete
  BY DEF Init, OneFeed, Complete, NoNvts
<1> QED
  BY <1>1, <1>2, <1>3 DEF IInv

-----------------------------------------------------------------------------
(***************************************************************************)
(* Steps that leave the NVTs alone.                                        *)
(***************************************************************************)

\* The child has ended or there is none: what it was told and what it was
\* doing is forgotten.  An update that was cut off is lost.
LEMMA EndStep ==
    ASSUME IInv, pc' \in {"none", "exit"}, Forget,
           pc' = "exit" => update_in_progress' /\ pc # "none",
           UNCHANGED << nvts_feed_version, tables >>,
           lost' = (lost \/ pc \in Recorded) \/ (lost' = lost /\ pc \notin Recorded),
           feed' = feed, nvti_cache' \in {nvti_cache, nvts},
           update_in_progress' \in BOOLEAN, update_nvti_cache' \in BOOLEAN,
           faults' \in 0 .. MaxFaults
    PROVE  IInv'
<1>1. TypeOK'
  BY DEF IInv, TypeOK, Forget
<1>2. VersionInv' /\ InsertInv' /\ EndInv'
  BY DEF IInv, VersionInv, InsertInv, EndInv, Forget
<1>3. OneFeed'
  BY DEF IInv, OneFeed
<1>4. Complete'
  BY DEF IInv, TypeOK, Complete
<1> QED
  BY <1>1, <1>2, <1>3, <1>4 DEF IInv

\* A fault is taken from the budget.
LEMMA FaultType ==
    ASSUME TypeOK, NEW f, Fault(f)
    PROVE  faults' \in 0 .. MaxFaults
BY DEF TypeOK, Fault

\* A step of the daemon, or of the child before it has recorded the version,
\* that does not touch the tables.
LEMMA QuietStep ==
    ASSUME IInv,
           \/ fork_update_nvt_cache \/ ForkFails \/ manage_update_nvti_cache
           \/ NewFeed \/ ScannerLoading \/ Retry \/ Connect \/ GotPlugins
           \/ DeleteVersion \/ InsertVersion \/ QueueMemoryUpdate
           \/ GotPreferences
    PROVE  IInv'
<1> USE DEF IInv, Goto
<1>1. CASE fork_update_nvt_cache
  <2>1. TypeOK'
    BY <1>1 DEF fork_update_nvt_cache, TypeOK, Feed
  <2>2. VersionInv' /\ InsertInv' /\ EndInv'
    BY <1>1 DEF fork_update_nvt_cache, VersionInv, InsertInv, EndInv, TypeOK, Feed
  <2>3. OneFeed' /\ Complete'
    BY <1>1 DEF fork_update_nvt_cache, OneFeed, Complete, TypeOK
  <2> QED
    BY <2>1, <2>2, <2>3
<1>2. CASE ForkFails
  <2>1. TypeOK'
    BY <1>2, FaultType DEF ForkFails, TypeOK, Feed
  <2>2. VersionInv' /\ InsertInv' /\ EndInv'
    BY <1>2 DEF ForkFails, VersionInv, InsertInv, EndInv, TypeOK, Feed
  <2>3. OneFeed' /\ Complete'
    BY <1>2 DEF ForkFails, OneFeed, Complete, TypeOK
  <2> QED
    BY <2>1, <2>2, <2>3
<1>3. CASE manage_update_nvti_cache
  <2>1. TypeOK'
    BY <1>3 DEF manage_update_nvti_cache, TypeOK, Feed
  <2>2. VersionInv' /\ InsertInv' /\ EndInv'
    BY <1>3 DEF manage_update_nvti_cache, VersionInv, InsertInv, EndInv, TypeOK, Feed
  <2>3. OneFeed' /\ Complete'
    BY <1>3 DEF manage_update_nvti_cache, OneFeed, Complete, TypeOK
  <2> QED
    BY <2>1, <2>2, <2>3
<1>4. CASE Retry
  <2>1. TypeOK'
    BY <1>4 DEF Retry, TypeOK, Feed
  <2>2. VersionInv' /\ InsertInv' /\ EndInv'
    BY <1>4 DEF Retry, VersionInv, InsertInv, EndInv, TypeOK, Feed
  <2>3. OneFeed' /\ Complete'
    BY <1>4 DEF Retry, OneFeed, Complete, TypeOK
  <2> QED
    BY <2>1, <2>2, <2>3
<1>5. CASE GotPlugins
  <2>1. TypeOK'
    BY <1>5 DEF GotPlugins, TypeOK, Feed
  <2>2. VersionInv' /\ InsertInv' /\ EndInv'
    BY <1>5 DEF GotPlugins, VersionInv, InsertInv, EndInv, TypeOK, Feed
  <2>3. OneFeed' /\ Complete'
    BY <1>5 DEF GotPlugins, OneFeed, Complete, TypeOK
  <2> QED
    BY <2>1, <2>2, <2>3
<1>6. CASE QueueMemoryUpdate
  <2>1. TypeOK'
    BY <1>6 DEF QueueMemoryUpdate, TypeOK, Feed
  <2>2. VersionInv' /\ InsertInv' /\ EndInv'
    BY <1>6 DEF QueueMemoryUpdate, VersionInv, InsertInv, EndInv, TypeOK, Feed
  <2>3. OneFeed' /\ Complete'
    BY <1>6 DEF QueueMemoryUpdate, OneFeed, Complete, TypeOK
  <2> QED
    BY <2>1, <2>2, <2>3
<1>7. CASE GotPreferences
  <2>1. TypeOK'
    BY <1>7 DEF GotPreferences, TypeOK, Feed
  <2>2. VersionInv' /\ InsertInv' /\ EndInv'
    BY <1>7 DEF GotPreferences, VersionInv, InsertInv, EndInv, TypeOK, Feed
  <2>3. OneFeed' /\ Complete'
    BY <1>7 DEF GotPreferences, OneFeed, Complete, TypeOK
  <2> QED
    BY <2>1, <2>2, <2>3
<1>8. CASE ScannerLoading
  <2>1. TypeOK'
    BY <1>8, FaultType DEF ScannerLoading, TypeOK, Feed
  <2>2. VersionInv' /\ InsertInv' /\ EndInv'
    BY <1>8 DEF ScannerLoading, VersionInv, InsertInv, EndInv, TypeOK, Feed
  <2>3. OneFeed' /\ Complete'
    BY <1>8 DEF ScannerLoading, OneFeed, Complete, TypeOK
  <2> QED
    BY <2>1, <2>2, <2>3
<1>9. CASE NewFeed
  <2>1. TypeOK'
    BY <1>9 DEF NewFeed, TypeOK, Feed
  <2>2. VersionInv' /\ InsertInv' /\ EndInv'
    BY <1>9 DEF NewFeed, VersionInv, InsertInv, EndInv, TypeOK, Feed
  <2>3. OneFeed' /\ Complete'
    BY <1>9 DEF NewFeed, OneFeed, Complete, TypeOK
  <2> QED
    BY <2>1, <2>2, <2>3
<1>10. CASE Connect
  <2>1. TypeOK'
    BY <1>10 DEF Connect, TypeOK, Feed
  <2>2. VersionInv' /\ InsertInv' /\ EndInv'
    BY <1>10 DEF Connect, VersionInv, InsertInv, EndInv, TypeOK, Feed
  <2>3. OneFeed' /\ Complete'
    BY <1>10 DEF Connect, OneFeed, Complete, TypeOK
  <2> QED
    BY <2>1, <2>2, <2>3
<1>11. CASE DeleteVersion
  <2>1. TypeOK'
    BY <1>11 DEF DeleteVersion, TypeOK, Feed
  <2>2. VersionInv' /\ InsertInv' /\ EndInv'
    BY <1>11 DEF DeleteVersion, VersionInv, InsertInv, EndInv, TypeOK, Feed
  <2>3. OneFeed' /\ Complete'
    BY <1>11 DEF DeleteVersion, OneFeed, Complete, TypeOK
  <2> QED
    BY <2>1, <2>2, <2>3
<1>12. CASE InsertVersion
  <2>1. TypeOK'
    BY <1>12 DEF InsertVersion, TypeOK, Feed
  <2>2. VersionInv' /\ InsertInv' /\ EndInv'
    BY <1>12 DEF InsertVersion, VersionInv, InsertInv, EndInv, TypeOK, Feed
  <2>3. OneFeed' /\ Complete'
    BY <1>12 DEF InsertVersion, OneFeed, Complete, TypeOK
  <2> QED
    BY <2>1, <2>2, <2>3
<1> QED
  BY <1>1, <1>2, <1>3, <1>4, <1>5, <1>6, <1>7, <1>8, <1>9, <1>10, <1>11, <1>12

\* Every way in which the child ends, and its end is noticed.
LEMMA EndingStep ==
    ASSUME IInv,
           \/ handle_sigchld \/ Restart \/ ConnectFails \/ NvtInfo
           \/ Finish \/ EndOfFile \/ Kill
    PROVE  IInv'
<1> USE DEF IInv, Goto, End
<1>1. CASE handle_sigchld
  <2>1. plugins_feed' = plugins_feed /\ pending = {}
    BY <1>1 DEF handle_sigchld, TypeOK
  <2>2. TypeOK'
    BY <1>1, <2>1 DEF handle_sigchld, TypeOK
  <2>3. VersionInv' /\ InsertInv' /\ EndInv'
    BY <1>1 DEF handle_sigchld, VersionInv, InsertInv, EndInv
  <2>4. OneFeed' /\ Complete'
    BY <1>1 DEF handle_sigchld, OneFeed, Complete
  <2> QED
    BY <2>2, <2>3, <2>4
<1>2. CASE Restart
  BY <1>2, EndStep, FaultType DEF Restart, TypeOK
<1>3. CASE ConnectFails
  BY <1>3, EndStep, FaultType DEF ConnectFails, TypeOK
<1>4. CASE EndOfFile
  BY <1>4, EndStep, FaultType DEF EndOfFile, TypeOK
<1>5. CASE Kill
  BY <1>5, EndStep, FaultType DEF Kill, TypeOK
<1>6. CASE NvtInfo
  <2>1. CASE nvts_feed_version = plugins_feed
    BY <1>6, <2>1, EndStep DEF NvtInfo, TypeOK
  <2>2. CASE nvts_feed_version # plugins_feed
    <3>1. TypeOK'
      BY <1>6, <2>2 DEF NvtInfo, TypeOK
    <3>2. VersionInv' /\ InsertInv' /\ EndInv'
      BY <1>6, <2>2 DEF NvtInfo, VersionInv, InsertInv, EndInv
    <3>3. OneFeed' /\ Complete'
      BY <1>6, <2>2 DEF NvtInfo, OneFeed, Complete
    <3> QED
      BY <3>1, <3>2, <3>3
  <2> QED
    BY <2>1, <2>2
<1>7. CASE Finish
  <2>1. TypeOK'
    BY <1>7 DEF Finish, Forget, TypeOK
  <2>2. VersionInv' /\ InsertInv' /\ EndInv'
    BY <1>7 DEF Finish, Forget, VersionInv, InsertInv, EndInv
  <2>3. OneFeed'
    BY <1>7 DEF Finish, OneFeed
  <2>4. Complete'
    BY <1>7 DEF Finish, Complete, VersionInv, EndInv
  <2> QED
    BY <2>1, <2>2, <2>3, <2>4
<1> QED
  BY <1>1, <1>2, <1>3, <1>4, <1>5, <1>6, <1>7

-----------------------------------------------------------------------------
(***************************************************************************)
(* manage_complete_nvt_cache_update.                                       *)
(***************************************************************************)

\* A chunk is counted from 1 to ChunkSize.
LEMMA ChunkCount ==
    ASSUME chunk_count \in 0 .. ChunkSize
    PROVE  /\ NextChunkCount \in 0 .. ChunkSize
           /\ NextChunkCount = 0 => chunk_count > 0
BY DEF NextChunkCount

\* A commit adds rows of the child's feed to a table that has no others.
LEMMA CommittedRows ==
    ASSUME IInv, pc = "insert", NEW new \in SUBSET Oid
    PROVE  /\ Committed(new) \in [Oid -> 0 .. MaxFeed]
           /\ \A o \in Oid : Committed(new)[o] \in {0, plugins_feed}
           /\ \A o \in new : Committed(new)[o] # 0
           /\ \A o \in Oid : nvts[o] # 0 => Committed(new)[o] # 0
BY DEF IInv, TypeOK, VersionInv, InsertInv, Committed, Feed

LEMMA TableStep ==
    ASSUME IInv,
           \/ Truncate \/ make_nvt_from_nvti \/ insert_nvts_list
           \/ insert_nvt_preferences_list
    PROVE  IInv'
<1> USE DEF IInv, Goto
<1>1. CASE Truncate
  <2>1. NoNvts \in [Oid -> 0 .. MaxFeed] /\ \A o \in Oid : NoNvts[o] = 0
    BY DEF NoNvts
  <2>2. TypeOK'
    BY <1>1, <2>1 DEF Truncate, TypeOK
  <2>3. VersionInv' /\ EndInv'
    BY <1>1 DEF Truncate, VersionInv, EndInv
  <2>4. InsertInv'
    BY <1>1, <2>1 DEF Truncate, InsertInv, TypeOK, Oid
  <2>5. OneFeed' /\ Complete'
    BY <1>1, <2>1 DEF Truncate, OneFeed, Complete
  <2> QED
    BY <2>2, <2>3, <2>4, <2>5
<1>2. CASE make_nvt_from_nvti
  <2> DEFINE o == inserted + 1
             new == IF nvts[o] # 0 THEN pending ELSE pending \cup {o}
  <2>1. o \in Oid /\ new \in SUBSET Oid
    BY <1>2 DEF make_nvt_from_nvti, TypeOK, Oid
  <2>2. \A q \in Oid : q <= o => nvts[q] # 0 \/ q \in new
    BY <1>2 DEF make_nvt_from_nvti, TypeOK, Oid, InsertInv
  <2>3. /\ chunk_count' = NextChunkCount /\ inserted' = o
        /\ NextChunkCount = 0 => nvts' = Committed(new) /\ pending' = {}
        /\ NextChunkCount # 0 => pending' = new /\ nvts' = nvts
        /\ pc = "insert" /\ inserted' \in 0 .. NvtCount
        /\ UNCHANGED << world, pc, plugins_feed, meta, nvt_preferences, lost,
                         faults >>
    BY <1>2 DEF make_nvt_from_nvti, TypeOK
  <2>4. chunk_count' \in 0 .. ChunkSize
    BY <2>3, ChunkCount DEF TypeOK
  <2> HIDE DEF o, new
  <2>5. TypeOK'
    <3>1. nvts' \in [Oid -> 0 .. MaxFeed] /\ pending' \in SUBSET Oid
      BY <2>1, <2>3, CommittedRows DEF TypeOK
    <3>2. pending' # {} => chunk_count' > 0
      BY <2>3, <2>4
    <3> QED
      BY <2>3, <2>4, <3>1, <3>2 DEF TypeOK
  <2>6. VersionInv' /\ EndInv' /\ Complete'
    BY <2>3 DEF VersionInv, EndInv, Complete
  <2>7. InsertInv'
    BY <2>1, <2>2, <2>3, CommittedRows DEF InsertInv
  <2>8. OneFeed'
    BY <2>3, <2>7 DEF OneFeed, InsertInv
  <2> QED
    BY <2>5, <2>6, <2>7, <2>8
<1>3. CASE insert_nvts_list
  <2>1. pending \in SUBSET Oid /\ (chunk_count = 0 => pending = {})
    BY DEF TypeOK
  <2>2. \A q \in Oid : nvts[q] # 0 \/ q \in pending
    BY <1>3 DEF insert_nvts_list, InsertInv, Oid
  <2>3. \A q \in Oid : nvts'[q] = plugins_feed
    BY <1>3, <2>1, <2>2, CommittedRows DEF insert_nvts_list, InsertInv, TypeOK
  <2>4. nvts' \in [Oid -> 0 .. MaxFeed] /\ pending' = {}
    BY <1>3, <2>1, CommittedRows DEF insert_nvts_list, TypeOK
  <2>5. TypeOK'
    BY <1>3, <2>4 DEF insert_nvts_list, TypeOK
  <2>6. VersionInv' /\ InsertInv' /\ EndInv' /\ Complete'
    BY <1>3, <2>3 DEF insert_nvts_list, VersionInv, InsertInv, EndInv, Complete
  <2>7. OneFeed'
    BY <2>3 DEF OneFeed
  <2> QED
    BY <2>5, <2>6, <2>7
<1>4. CASE insert_nvt_preferences_list
  <2>1. TypeOK'
    BY <1>4 DEF insert_nvt_preferences_list, TypeOK
  <2>2. VersionInv' /\ InsertInv' /\ EndInv'
    BY <1>4 DEF insert_nvt_preferences_list, VersionInv, InsertInv, EndInv
  <2>3. OneFeed' /\ Complete'
    BY <1>4 DEF insert_nvt_preferences_list, OneFeed, Complete
  <2> QED
    BY <2>1, <2>2, <2>3
<1> QED
  BY <1>1, <1>2, <1>3, <1>4

-----------------------------------------------------------------------------
LEMMA NextInv == IInv /\ [Next]_vars => IInv'
<1> SUFFICES ASSUME IInv, [Next]_vars PROVE IInv'
  OBVIOUS
<1>1. CASE UNCHANGED vars
  <2>0. UNCHANGED << child, world, meta, tables, lost, faults >>
    BY <1>1 DEF vars
  <2>1. TypeOK'
    BY <2>0 DEF IInv, TypeOK
  <2>2. VersionInv' /\ InsertInv' /\ EndInv'
    BY <1>1 DEF IInv, VersionInv, InsertInv, EndInv, vars
  <2>3. OneFeed' /\ Complete'
    BY <1>1 DEF IInv, OneFeed, Complete, vars
  <2> QED
    BY <2>1, <2>2, <2>3 DEF IInv
<1> QED
  BY <1>1, QuietStep, EndingStep, TableStep DEF Next, ChildStep

LEMMA Invariance == Spec => []IInv
BY InitInv, NextInv, PTL DEF Spec

\* The types of the variables; a transaction is open only in insert_nvts_list,
\* and while chunk_count is not 0.
THEOREM NvtTypeCorrect == Spec => []TypeOK
<1>1. IInv => TypeOK
  BY DEF IInv
<1> QED
  BY <1>1, Invariance, PTL

\* The table nvts never holds rows of two feeds, at whatever statement of an
\* update the child or the daemon died.
THEOREM FeedsNeverMixed == Spec => []OneFeed
<1>1. IInv => OneFeed
  BY DEF IInv
<1> QED
  BY <1>1, Invariance, PTL

\* A feed version in the database, unless the update to it was cut off, stands
\* for all of its NVTs and for its preferences, whatever the number of NVTs is
\* modulo the size of a chunk of insert_nvts_list.
THEOREM UpdateComplete == Spec => []Complete
<1>1. IInv => Complete
  BY DEF IInv
<1> QED
  BY <1>1, Invariance, PTL
=============================================================================
