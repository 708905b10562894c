--------------------------- MODULE ResourcesProofs ---------------------------
(***************************************************************************)
(* Theorems about Resources, for every set of names and every number of    *)
(* resources and commands.                                                 *)
(*                                                                         *)
(* Each command is first shown to keep the types and to be a step of one   *)
(* of a few kinds (Step): a row is added or changed, a task is added or    *)
(* changed, a resource is moved to the trashcan or back, or deleted for    *)
(* good, a task is marked as trash or no longer, or removed, the trashcan  *)
(* is emptied.  The invariants are then proved from the kinds of steps and *)
(* no longer from the commands.                                            *)
(***************************************************************************)
EXTENDS Resources, WellFoundedInduction, TLAPS

LEMMA Constants == MaxNew \in Nat /\ MaxCommands \in Nat
BY ResourcesAssumption, Zenon

-----------------------------------------------------------------------------
(***************************************************************************)
(* Ids.  The ids in use are bounded, so that there is a next one.          *)
(***************************************************************************)
Bounded(S) == \E B \in Nat : \A x \in S : x \in Nat /\ x <= B

\* The highest id in use, plus one, is a new one.
LEMMA MaxBounded ==
    ASSUME NEW S, Bounded(S)
    PROVE  /\ Max(S \cup {0}) + 1 \in Id
           /\ \A x \in S : x < Max(S \cup {0}) + 1
<1>1. PICK B \in Nat : \A x \in S : x \in Nat /\ x <= B
  BY DEF Bounded
<1> DEFINE D == S \cup {0}
           T == {B - x : x \in D}
<1>2. \A x \in D : x \in Nat /\ x <= B
  BY <1>1
<1> HIDE DEF D
<1>3. \A x \in D : B - x \in Nat /\ B - x \in T
  BY <1>2
<1>4. \A y \in T : y \in Nat /\ \E x \in D : y = B - x
  BY <1>3
<1>5. 0 \in D
  BY DEF D
<1>6. B \in T
  BY <1>3, <1>5
<1> HIDE DEF T
<1>7. T \subseteq Nat /\ T # {}
  BY <1>4, <1>6
<1>8. PICK m \in T : \A y \in T : ~(<< y, m >> \in OpToRel(<, Nat))
  <2> DEFINE R == OpToRel(<, Nat)
  <2>1. IsWellFoundedOn(R, Nat)
    BY NatLessThanWellFounded
  <2> HIDE DEF R
  <2>2. \E m \in T : \A y \in T : ~(<< y, m >> \in R)
    BY <1>7, <2>1, WFMin
  <2> QED
    BY <2>2 DEF R
<1>9. \A y \in T : m <= y
  <2> SUFFICES ASSUME NEW y \in T, ~(m <= y) PROVE FALSE
    OBVIOUS
  <2>1. y \in Nat /\ m \in Nat
    BY <1>7
  <2>2. y < m
    BY <2>1
  <2>3. << y, m >> \in OpToRel(<, Nat)
    BY <2>1, <2>2 DEF OpToRel
  <2> QED
    BY <1>8, <2>3
<1>10. PICK x \in D : m = B - x
  BY <1>4
<1>11. \A y \in D : x >= y
  <2> SUFFICES ASSUME NEW y \in D PROVE x >= y
    OBVIOUS
  <2>1. m <= B - y /\ x \in Nat /\ y \in Nat
    BY <1>2, <1>3, <1>9
  <2> QED
    BY <1>10, <2>1
<1>12. Max(D) \in D /\ \A y \in D : Max(D) >= y
  BY <1>11 DEF Max
<1> DEFINE n == Max(D)
<1>13. n \in Nat /\ \A y \in D : n >= y
  BY <1>2, <1>12
<1> HIDE DEF n
<1>14. n + 1 \in Id
  BY <1>13 DEF Id
<1>15. \A y \in S : y < n + 1
  <2> TAKE y \in S
  <2>1. n >= y /\ y \in Nat
    BY <1>1, <1>13 DEF D
  <2> QED
    BY <1>13, <2>1
<1> QED
  BY <1>14, <1>15 DEF n, D

LEMMA BoundedMore ==
    ASSUME NEW S, Bounded(S), NEW n \in Nat
    PROVE  Bounded(S \cup {n})
<1>1. PICK B \in Nat : \A x \in S : x \in Nat /\ x <= B
  BY DEF Bounded
<1>2. B + n \in Nat /\ n <= B + n
  BY <1>1
<1>3. \A x \in S \cup {n} : x \in Nat /\ x <= B + n
  <2> TAKE x \in S \cup {n}
  <2>1. CASE x \in S
    BY <1>1, <2>1
  <2>2. CASE x = n
    BY <1>1, <2>2
  <2> QED
    BY <2>1, <2>2
<1> QED
  BY <1>2, <1>3 DEF Bounded

LEMMA BoundedLess ==
    ASSUME NEW S, Bounded(S), NEW R \in SUBSET S
    PROVE  Bounded(R)
BY DEF Bounded

-----------------------------------------------------------------------------
(***************************************************************************)
(* Rows.  locs is where the references of the rows may be to.              *)
(***************************************************************************)
RowOK(row, t, locs) ==
    row \in Row(t) /\ \A s \in Slots(t) : row.refs[s].loc \in locs
Subs(rows) == { rows[i].sub : i \in DOMAIN rows }
RowsOK(rows, t, locs) ==
    /\ DOMAIN rows \subseteq Id
    /\ \A i \in DOMAIN rows : RowOK(rows[i], t, locs)
    /\ Bounded(DOMAIN rows) /\ Bounded(Subs(rows))

\* The fields of a row.
LEMMA RowFields ==
    ASSUME NEW t, NEW r \in Row(t)
    PROVE  /\ r.uuid \in 1 .. MaxUuid /\ r.name \in Name \cup {NoName}
           /\ r.sub \in Nat
           /\ r.refs \in [Slots(t) -> Ref]
           /\ r.data \in [DataSlots(t) -> 0 .. MaxUuid]
           /\ DOMAIN r = {"uuid", "name", "sub", "refs", "data"}
BY DEF Row, Id

\* The fields of a reference.
LEMMA RefFields ==
    ASSUME NEW r \in Ref
    PROVE  /\ r.id \in Nat /\ r.loc \in Location /\ r.to \in 0 .. MaxUuid
           /\ DOMAIN r = {"id", "loc", "to"}
BY DEF Ref, Id

\* The id of the next row, and of the next row of login data or ranges.
LEMMA NextIds ==
    ASSUME NEW t, NEW locs, NEW rows, RowsOK(rows, t, locs)
    PROVE  /\ NextId(rows) \in Id /\ NextId(rows) \notin DOMAIN rows
           /\ NextSub(rows) \in Id
<1>1. NextId(rows) \in Id /\ \A i \in DOMAIN rows : i < NextId(rows)
  BY MaxBounded DEF RowsOK, NextId
<1>2. NextSub(rows) \in Id
  BY MaxBounded DEF RowsOK, NextSub, Subs
<1>3. NextId(rows) \notin DOMAIN rows
  <2> SUFFICES ASSUME NextId(rows) \in DOMAIN rows PROVE FALSE
    OBVIOUS
  <2> DEFINE n == NextId(rows)
  <2>1. n < n /\ n \in Nat
    BY <1>1 DEF Id
  <2> HIDE DEF n
  <2> QED
    BY <2>1
<1> QED
  BY <1>1, <1>2, <1>3

\* A row is added, changed or removed.
LEMMA ChangedRows ==
    ASSUME NEW t, NEW locs, NEW rows, RowsOK(rows, t, locs), NEW now,
           NEW id \in Id, DOMAIN now \subseteq DOMAIN rows \cup {id},
           \A i \in DOMAIN now : \/ i \in DOMAIN rows /\ now[i] = rows[i]
                                 \/ i = id /\ RowOK(now[i], t, locs)
    PROVE  RowsOK(now, t, locs)
<1>1. DOMAIN now \subseteq Id
  BY DEF RowsOK
<1>2. \A i \in DOMAIN now : RowOK(now[i], t, locs)
  BY DEF RowsOK
<1>3. Bounded(DOMAIN now)
  <2>1. Bounded(DOMAIN rows \cup {id})
    BY BoundedMore DEF RowsOK, Id
  <2> QED
    BY <2>1, BoundedLess
<1>4. Bounded(Subs(now))
  <2>1. CASE id \in DOMAIN now
    <3>1. now[id].sub \in Nat
      BY <1>2, <2>1, RowFields DEF RowOK
    <3>2. Bounded(Subs(rows) \cup {now[id].sub})
      BY <3>1, BoundedMore DEF RowsOK
    <3>3. Subs(now) \subseteq Subs(rows) \cup {now[id].sub}
      BY DEF Subs
    <3> QED
      BY <3>2, <3>3, BoundedLess
  <2>2. CASE id \notin DOMAIN now
    <3>1. Subs(now) \subseteq Subs(rows)
      BY <2>2 DEF Subs
    <3> QED
      BY <3>1, BoundedLess DEF RowsOK
  <2> QED
    BY <2>1, <2>2
<1> QED
  BY <1>1, <1>2, <1>3, <1>4 DEF RowsOK

\* The references of the rows change.
LEMMA MappedRows ==
    ASSUME NEW t, NEW locs, NEW rows, RowsOK(rows, t, locs), NEW now,
           DOMAIN now = DOMAIN rows,
           \A i \in DOMAIN now : /\ RowOK(now[i], t, locs)
                                 /\ now[i].sub = rows[i].sub
    PROVE  RowsOK(now, t, locs)
<1>1. Subs(now) = Subs(rows)
  BY DEF Subs
<1> QED
  BY <1>1 DEF RowsOK

\* A row with another reference.
LEMMA ReferringRow ==
    ASSUME NEW t, NEW r \in Row(t), NEW s \in Slots(t), NEW ref \in Ref
    PROVE  LET q == [r EXCEPT !.refs[s] = ref] IN
           /\ q \in Row(t) /\ q.sub = r.sub /\ q.uuid = r.uuid
           /\ q.name = r.name /\ q.data = r.data /\ q.refs[s] = ref
           /\ \A o \in Slots(t) \ {s} : q.refs[o] = r.refs[o]
<1>1. r.refs \in [Slots(t) -> Ref]
  BY RowFields
<1> DEFINE refs == [r.refs EXCEPT ![s] = ref]
           q == [r EXCEPT !.refs = refs]
<1>2. refs \in [Slots(t) -> Ref] /\ refs[s] = ref
      /\ \A o \in Slots(t) \ {s} : refs[o] = r.refs[o]
  BY <1>1
<1>3. [r EXCEPT !.refs[s] = ref] = q
  OBVIOUS
<1> HIDE DEF refs
<1>4. q \in Row(t) /\ q.sub = r.sub /\ q.uuid = r.uuid
      /\ q.name = r.name /\ q.data = r.data /\ q.refs = refs
  BY <1>2 DEF Row, Id
<1> QED
  BY <1>2, <1>3, <1>4

\* A reference that follows a resource.
LEMMA FollowedRef ==
    ASSUME NEW r \in Ref, NEW n, NEW loc
    PROVE  [[r EXCEPT !.id = n] EXCEPT !.loc = loc]
               = [id |-> n, loc |-> loc, to |-> r.to]
<1> DEFINE a == [[r EXCEPT !.id = n] EXCEPT !.loc = loc]
<1>1. DOMAIN r = {"id", "loc", "to"}
  BY RefFields
<1>2. DOMAIN a = {"id", "loc", "to"}
  BY <1>1
<1>3. a["id"] = n /\ a["loc"] = loc /\ a["to"] = r["to"]
  BY <1>1
<1>4. a = [x \in DOMAIN a |-> a[x]]
  OBVIOUS
<1> HIDE DEF a
<1>5. a = [id |-> n, loc |-> loc, to |-> r.to]
  BY <1>2, <1>3, <1>4
<1> QED
  BY <1>5 DEF a

\* The row whose reference follows a resource.
Followed(r, s, n, loc) == [r EXCEPT !.refs[s].id = n, !.refs[s].loc = loc]

LEMMA FollowedRow ==
    ASSUME NEW t, NEW r \in Row(t), NEW s \in Slots(t), NEW n \in Id,
           NEW loc \in Location
    PROVE  LET q == Followed(r, s, n, loc) IN
           /\ q \in Row(t) /\ q.sub = r.sub /\ q.uuid = r.uuid
           /\ q.name = r.name /\ q.data = r.data
           /\ q.refs[s] = [id |-> n, loc |-> loc, to |-> r.refs[s].to]
           /\ \A o \in Slots(t) \ {s} : q.refs[o] = r.refs[o]
<1>1. r.refs \in [Slots(t) -> Ref] /\ r.refs[s] \in Ref
  BY RowFields
<1> DEFINE ref == [id |-> n, loc |-> loc, to |-> r.refs[s].to]
           q == [r EXCEPT !.refs[s].id = n, !.refs[s].loc = loc]
<1>2. ref \in Ref
  BY <1>1, RefFields DEF Ref
<1>3. [[r.refs[s] EXCEPT !.id = n] EXCEPT !.loc = loc] = ref
  BY <1>1, FollowedRef
<1>4. [[r.refs EXCEPT ![s].id = n] EXCEPT ![s].loc = loc] = [r.refs EXCEPT ![s] = ref]
  BY <1>1, <1>3
<1>5. DOMAIN r = {"uuid", "name", "sub", "refs", "data"}
  BY RowFields
<1>6. q = [r EXCEPT !.refs = [[r.refs EXCEPT ![s].id = n] EXCEPT ![s].loc = loc]]
  BY <1>5
<1>7. q = [r EXCEPT !.refs[s] = ref]
  BY <1>4, <1>6
<1>8. Followed(r, s, n, loc) = q
  BY DEF Followed
<1> HIDE DEF q
<1>9. /\ q \in Row(t) /\ q.sub = r.sub /\ q.uuid = r.uuid
      /\ q.name = r.name /\ q.data = r.data /\ q.refs[s] = ref
      /\ \A o \in Slots(t) \ {s} : q.refs[o] = r.refs[o]
  <2> HIDE DEF ref
  <2> QED
    BY <1>2, <1>7, ReferringRow
<1> QED
  BY <1>8, <1>9

-----------------------------------------------------------------------------
(***************************************************************************)
(* Tables.                                                                 *)
(***************************************************************************)
TablesOK(tables, locs) ==
    DOMAIN tables = Type /\ \A t \in Type : RowsOK(tables[t], t, locs)
TasksOK(rows) ==
    /\ DOMAIN rows \subseteq Id /\ Bounded(DOMAIN rows)
    /\ \A k \in DOMAIN rows : rows[k] \in TaskRow
Types ==
    /\ TablesOK(table, {"table"}) /\ TablesOK(trash, Location)
    /\ TasksOK(tasks)
    /\ tag_resources \subseteq Link /\ permissions \subseteq Link
    /\ session \in Session
    /\ new \in 0 .. MaxNew /\ commands \in 0 .. MaxCommands

LEMMA TypesGiveTypeOK == Types => TypeOK
<1> SUFFICES ASSUME Types PROVE TypeOK
  OBVIOUS
<1>1. /\ DOMAIN table = Type /\ DOMAIN trash = Type
      /\ DOMAIN tasks \subseteq Id
      /\ \A k \in DOMAIN tasks : tasks[k] \in TaskRow
      /\ tag_resources \subseteq Link /\ permissions \subseteq Link
      /\ session \in Session
      /\ new \in 0 .. MaxNew /\ commands \in 0 .. MaxCommands
  BY DEF Types, TablesOK, TasksOK
<1>2. \A t \in Type :
          /\ DOMAIN table[t] \subseteq Id /\ DOMAIN trash[t] \subseteq Id
          /\ \A i \in DOMAIN table[t] :
                /\ table[t][i] \in Row(t)
                /\ \A s \in Slots(t) : table[t][i].refs[s].loc = "table"
          /\ \A i \in DOMAIN trash[t] : trash[t][i] \in Row(t)
  BY DEF Types, TablesOK, RowsOK, RowOK
<1> QED
  BY <1>1, <1>2 DEF TypeOK

\* A row of one type is added, changed or removed.
LEMMA ChangedTable ==
    ASSUME NEW locs, NEW tables, TablesOK(tables, locs), NEW t \in Type,
           NEW id \in Id, NEW changed, DOMAIN changed = Type,
           \A u \in Type \ {t} : changed[u] = tables[u],
           DOMAIN changed[t] \subseteq DOMAIN tables[t] \cup {id},
           \A i \in DOMAIN changed[t] :
               \/ i \in DOMAIN tables[t] /\ changed[t][i] = tables[t][i]
               \/ i = id /\ RowOK(changed[t][i], t, locs)
    PROVE  TablesOK(changed, locs)
<1> DEFINE rows == tables[t]
           more == changed[t]
<1>1. RowsOK(rows, t, locs)
  BY DEF TablesOK
<1>2. /\ DOMAIN more \subseteq DOMAIN rows \cup {id}
      /\ \A i \in DOMAIN more :
            \/ i \in DOMAIN rows /\ more[i] = rows[i]
            \/ i = id /\ RowOK(more[i], t, locs)
  OBVIOUS
<1> HIDE DEF rows, more
<1>3. RowsOK(more, t, locs)
  BY <1>1, <1>2, ChangedRows
<1> QED
  BY <1>3 DEF TablesOK, more

-----------------------------------------------------------------------------
(***************************************************************************)
(* Steps that add or change rows.  Each reference in the row is to         *)
(* nothing, to a row of a table, or copied from another row.               *)
(***************************************************************************)
NewRef(t, s, ref) ==
    \/ ref = NoRef
    \/ /\ ref.loc = "table" /\ ref.id \in DOMAIN table'[s]
       /\ ref.to = table'[s][ref.id].uuid
    \/ \E j \in DOMAIN table[t] : ref = table[t][j].refs[s]
NewRow(t, id, row) ==
    /\ IF id \in DOMAIN table[t] THEN row.uuid = table[t][id].uuid
       ELSE row.uuid = NewUuid /\ new > 0 /\ new' = new - 1
    /\ \/ row.name = NoName
       \/ NameFree(t, row.name, id)
       \/ id \in DOMAIN table[t] /\ row.name = table[t][id].name
    /\ \A s \in Slots(t) : NewRef(t, s, row.refs[s])
Changed(t, id) ==
    /\ DOMAIN table'[t] = DOMAIN table[t] \cup {id}
    /\ \A i \in DOMAIN table[t] \ {id} : table'[t][i] = table[t][i]
    /\ NewRow(t, id, table'[t][id])
GrowStep ==
    /\ \A t \in Type : table'[t] = table[t] \/ \E id \in Id : Changed(t, id)
    /\ new' = new \/ (new > 0 /\ new' = new - 1)
    /\ UNCHANGED << trash, tasks, permissions >>

\* No type of resource refers to itself.
LEMMA SlotsAreTypes ==
    \A t \in Type : \A s \in Slots(t) : s \in Type /\ s # t
BY DEF Slots, Type

LEMMA NewUuidType ==
    ASSUME new \in 0 .. MaxNew, new > 0
    PROVE  NewUuid \in 1 .. MaxUuid /\ new - 1 \in 0 .. MaxNew
BY Constants DEF NewUuid, MaxUuid

LEMMA NoRefType == NoRef \in Ref /\ NoRef.loc = "table" /\ NoRef.to = 0
BY Constants DEF NoRef, Ref, Location, MaxUuid, Id

\* The rows of a table, and the references that To makes.
LEMMA TableRows ==
    ASSUME Types, NEW t \in Type
    PROVE  /\ RowsOK(table[t], t, {"table"}) /\ DOMAIN table[t] \subseteq Id
           /\ NextId(table[t]) \in Id /\ NextId(table[t]) \notin DOMAIN table[t]
           /\ NextSub(table[t]) \in Nat
           /\ \A i \in DOMAIN table[t] :
                 /\ table[t][i] \in Row(t) /\ RowOK(table[t][i], t, {"table"})
                 /\ table[t][i].uuid \in 1 .. MaxUuid
<1>1. RowsOK(table[t], t, {"table"})
  BY DEF Types, TablesOK
<1>2. \A i \in DOMAIN table[t] : table[t][i] \in Row(t) /\ RowOK(table[t][i], t, {"table"})
  BY <1>1 DEF RowsOK, RowOK
<1> QED
  BY <1>1, <1>2, NextIds, RowFields DEF RowsOK, Id

LEMMA TrashRows ==
    ASSUME Types, NEW t \in Type
    PROVE  /\ RowsOK(trash[t], t, Location) /\ DOMAIN trash[t] \subseteq Id
           /\ NextId(trash[t]) \in Id /\ NextId(trash[t]) \notin DOMAIN trash[t]
           /\ NextSub(trash[t]) \in Nat
           /\ \A i \in DOMAIN trash[t] :
                 /\ trash[t][i] \in Row(t) /\ RowOK(trash[t][i], t, Location)
                 /\ trash[t][i].uuid \in 1 .. MaxUuid
<1>1. RowsOK(trash[t], t, Location)
  BY DEF Types, TablesOK
<1>2. \A i \in DOMAIN trash[t] : trash[t][i] \in Row(t) /\ RowOK(trash[t][i], t, Location)
  BY <1>1 DEF RowsOK, RowOK
<1> QED
  BY <1>1, <1>2, NextIds, RowFields DEF RowsOK, Id

LEMMA ToType ==
    ASSUME Types, NEW s \in Type, NEW id \in MayRefer(s)
    PROVE  /\ To(s, id) \in Ref /\ To(s, id).loc = "table"
           /\ To(s, id).to \in 0 .. MaxUuid
           /\ \/ To(s, id) = NoRef
              \/ /\ To(s, id).id \in DOMAIN table[s]
                 /\ To(s, id).to = table[s][To(s, id).id].uuid
<1>1. CASE id = 0
  BY <1>1, NoRefType, RefFields DEF To
<1>2. CASE id # 0
  <2>1. id \in DOMAIN table[s]
    BY <1>2 DEF MayRefer
  <2>2. To(s, id) = [id |-> id, loc |-> "table", to |-> table[s][id].uuid]
    BY <1>2 DEF To
  <2>3. id \in Id /\ table[s][id].uuid \in 1 .. MaxUuid
    BY <2>1, TableRows
  <2>4. table[s][id].uuid \in 0 .. MaxUuid
    BY <2>3, Constants DEF MaxUuid
  <2> QED
    BY <2>1, <2>2, <2>3, <2>4 DEF Ref, Location
<1> QED
  BY <1>1, <1>2

\* The table changes in one row.
TableStep(t, id) ==
    /\ DOMAIN table' = Type /\ \A u \in Type \ {t} : table'[u] = table[u]
    /\ DOMAIN table'[t] = DOMAIN table[t] \cup {id}
    /\ \A i \in DOMAIN table[t] \ {id} : table'[t][i] = table[t][i]
    /\ RowOK(table'[t][id], t, {"table"}) /\ NewRow(t, id, table'[t][id])
OthersStep ==
    /\ new' = new \/ (new > 0 /\ new' = new - 1)
    /\ UNCHANGED << trash, tasks, permissions, commands >>
    /\ tag_resources' \subseteq Link /\ session' \in Session

LEMMA RowStep ==
    ASSUME Types, NEW t \in Type, NEW id \in Id, TableStep(t, id), OthersStep
    PROVE  GrowStep /\ Types'
<1>1. Changed(t, id)
  BY DEF Changed, TableStep
<1>2. GrowStep
  BY <1>1 DEF GrowStep, TableStep, OthersStep
<1>3. TablesOK(table', {"table"})
  <2>1. TablesOK(table, {"table"})
    BY DEF Types
  <2>2. /\ DOMAIN table' = Type /\ \A u \in Type \ {t} : table'[u] = table[u]
        /\ DOMAIN table'[t] = DOMAIN table[t] \cup {id}
        /\ \A i \in DOMAIN table[t] \ {id} : table'[t][i] = table[t][i]
        /\ RowOK(table'[t][id], t, {"table"})
    BY DEF TableStep
  <2> QED
    BY <2>1, <2>2, ChangedTable
<1>4. new' \in 0 .. MaxNew
  BY NewUuidType DEF Types, OthersStep
<1>5. Types'
  BY <1>3, <1>4 DEF Types, OthersStep
<1> QED
  BY <1>2, <1>5

\* The table does not change.
LEMMA IdleStep ==
    ASSUME Types, UNCHANGED table, OthersStep
    PROVE  GrowStep /\ Types'
<1>1. new' \in 0 .. MaxNew
  BY NewUuidType DEF Types, OthersStep
<1> QED
  BY <1>1 DEF GrowStep, Types, OthersStep

\* A row is added.
LEMMA InsertStep ==
    ASSUME Types, NEW t \in Type, NEW name \in Name, NEW sub \in Nat,
           NEW refs \in [Slots(t) -> Ref],
           \A s \in Slots(t) :
              /\ refs[s].loc = "table"
              /\ \/ refs[s] = NoRef
                 \/ /\ refs[s].id \in DOMAIN table[s]
                    /\ refs[s].to = table[s][refs[s].id].uuid,
           NEW data \in [DataSlots(t) -> 0 .. MaxUuid],
           Insert(t, name, sub, refs, data),
           UNCHANGED << trash, tasks, links >>, session' \in Session
    PROVE  GrowStep /\ Types'
<1> DEFINE row == [uuid |-> NewUuid, name |-> name, sub |-> sub,
                   refs |-> refs, data |-> data]
           id == NextId(table[t])
<1>1. new > 0 /\ new' = new - 1 /\ commands' = commands
  BY DEF Insert, Make
<1>2. row \in Row(t) /\ row.uuid = NewUuid /\ row.name = name /\ row.refs = refs
  BY <1>1, NewUuidType DEF Types, Row, Id
<1>3. table' = [table EXCEPT ![t] = With(@, id, row)]
  BY DEF Insert
<1>4. id \in Id /\ id \notin DOMAIN table[t] /\ DOMAIN table[t] \subseteq Id
  BY TableRows
<1> HIDE DEF row, id
<1>5. RowOK(row, t, {"table"})
  BY <1>2 DEF RowOK
<1>6. /\ DOMAIN table' = Type /\ \A u \in Type \ {t} : table'[u] = table[u]
      /\ DOMAIN table'[t] = DOMAIN table[t] \cup {id} /\ table'[t][id] = row
      /\ \A i \in DOMAIN table[t] \ {id} : table'[t][i] = table[t][i]
  BY <1>3 DEF Types, TablesOK, With
<1>7. NameFree(t, name, id)
  <2>1. NameFree(t, name, 0)
    BY DEF Insert
  <2>2. 0 \notin DOMAIN table[t]
    BY <1>4 DEF Id
  <2> QED
    BY <2>1, <2>2 DEF NameFree
<1>8. \A s \in Slots(t) : NewRef(t, s, refs[s])
  BY <1>6, SlotsAreTypes DEF NewRef
<1>9. NewRow(t, id, row)
  BY <1>1, <1>2, <1>4, <1>7, <1>8 DEF NewRow
<1>10. TableStep(t, id)
  BY <1>5, <1>6, <1>9 DEF TableStep
<1>11. OthersStep
  BY <1>1 DEF OthersStep, Types, links
<1> QED
  BY <1>4, <1>10, <1>11, RowStep

\* A row is changed.
RowUpdated(t, i, row) ==
    /\ DOMAIN table' = Type /\ \A u \in Type \ {t} : table'[u] = table[u]
    /\ DOMAIN table'[t] = DOMAIN table[t] /\ table'[t][i] = row
    /\ \A j \in DOMAIN table[t] \ {i} : table'[t][j] = table[t][j]

LEMMA UpdateStep ==
    ASSUME Types, NEW t \in Type, NEW i \in DOMAIN table[t], NEW row,
           RowOK(row, t, {"table"}), row.uuid = table[t][i].uuid,
           \/ row.name = NoName
           \/ NameFree(t, row.name, i)
           \/ row.name = table[t][i].name,
           \A s \in Slots(t) :
              \/ row.refs[s] = NoRef
              \/ /\ row.refs[s].id \in DOMAIN table[s]
                 /\ row.refs[s].to = table[s][row.refs[s].id].uuid
              \/ \E j \in DOMAIN table[t] : row.refs[s] = table[t][j].refs[s],
           RowUpdated(t, i, row), OthersStep
    PROVE  GrowStep /\ Types'
<1>1. i \in Id
  BY TableRows
<1>2. /\ DOMAIN table' = Type /\ \A u \in Type \ {t} : table'[u] = table[u]
      /\ DOMAIN table'[t] = DOMAIN table[t] \cup {i} /\ table'[t][i] = row
      /\ \A j \in DOMAIN table[t] \ {i} : table'[t][j] = table[t][j]
  BY DEF RowUpdated
<1>3. \A s \in Slots(t) : NewRef(t, s, row.refs[s])
  BY <1>2, SlotsAreTypes DEF NewRef, RowOK
<1>4. NewRow(t, i, row)
  BY <1>3 DEF NewRow
<1>5. TableStep(t, i)
  BY <1>2, <1>4 DEF TableStep
<1> QED
  BY <1>1, <1>5, RowStep

\* The links of a copy.
LEMMA CopiedLinks ==
    ASSUME NEW set \in SUBSET Link, NEW id \in Id, NEW u \in 1 .. MaxUuid
    PROVE  \A l \in set : [l EXCEPT !.id = id, !.to = u] \in Link
BY DEF Link

\* A resource is copied.
LEMMA CopyStep ==
    ASSUME Types, NEW t \in Type, NEW i \in DOMAIN table[t],
           NEW row, RowOK(row, t, {"table"}),
           \A s \in Slots(t) : \/ row.refs[s] = NoRef
                               \/ row.refs[s] = table[t][i].refs[s],
           copy_resource(t, i, row), session' \in Session
    PROVE  GrowStep /\ Types'
<1> DEFINE id == NextId(table[t])
<1>1. new > 0 /\ new' = new - 1 /\ commands' = commands
  BY DEF copy_resource, Make
<1>2. id \in Id /\ id \notin DOMAIN table[t] /\ DOMAIN table[t] \subseteq Id
  BY TableRows
<1>3. PICK n \in Name :
          /\ NameFree(t, n, 0)
          /\ table' = [table EXCEPT ![t] =
                With(@, id, [row EXCEPT !.uuid = NewUuid, !.name = n])]
  BY DEF copy_resource
<1> DEFINE q == [row EXCEPT !.uuid = NewUuid, !.name = n]
<1>4. NewUuid \in 1 .. MaxUuid
  BY <1>1, NewUuidType DEF Types
<1>5. q \in Row(t) /\ q.uuid = NewUuid /\ q.name = n /\ q.refs = row.refs
  <2>1. row \in Row(t)
    BY DEF RowOK
  <2> QED
    BY <1>4, <2>1 DEF Row
<1>6. tag_resources' \subseteq Link
  <2>1. \A l \in tag_resources : [l EXCEPT !.id = id, !.to = NewUuid] \in Link
    BY <1>2, <1>4, CopiedLinks DEF Types
  <2>2. tag_resources' = tag_resources \cup
                { [ l EXCEPT !.id = id, !.to = NewUuid ] :
                  l \in { l \in tag_resources : l.type = t /\ l.id = i
                                                  /\ l.loc = "table" } }
    BY DEF copy_resource
  <2> QED
    BY <2>1, <2>2 DEF Types
<1> HIDE DEF q, id
<1>7. /\ DOMAIN table' = Type /\ \A u \in Type \ {t} : table'[u] = table[u]
      /\ DOMAIN table'[t] = DOMAIN table[t] \cup {id} /\ table'[t][id] = q
      /\ \A j \in DOMAIN table[t] \ {id} : table'[t][j] = table[t][j]
  BY <1>3 DEF Types, TablesOK, With, q
<1>8. NameFree(t, n, id)
  <2>1. 0 \notin DOMAIN table[t]
    BY <1>2 DEF Id
  <2> QED
    BY <1>3, <2>1 DEF NameFree
<1>9. RowOK(q, t, {"table"})
  BY <1>5 DEF RowOK
<1>10. NewRow(t, id, q)
  BY <1>1, <1>2, <1>5, <1>8 DEF NewRow, NewRef
<1>11. TableStep(t, id)
  BY <1>7, <1>9, <1>10 DEF TableStep
<1>12. OthersStep
  BY <1>1, <1>6 DEF OthersStep, copy_resource
<1> QED
  BY <1>2, <1>11, <1>12, RowStep

LEMMA SlotsOf ==
    /\ \A t \in {"port_list", "credential", "schedule", "filter"} : Slots(t) = {}
    /\ Slots("target") = {"port_list", "credential"}
    /\ Slots("scanner") = {"credential"}
    /\ Slots("config") = {"scanner"}
    /\ Slots("alert") = {"filter"}
    /\ \A t \in Type \ {"alert"} : DataSlots(t) = {}
    /\ DataSlots("alert") = {"credential", "filter"}
BY DEF Slots, DataSlots, Type

LEMMA EmptyType == \A S : Empty \in [{} -> S]
BY DEF Empty

\* A row without references is added.
LEMMA InsertPlain ==
    ASSUME Types, NEW t \in {"port_list", "credential", "schedule", "filter"},
           NEW name \in Name, NEW sub \in Nat, Insert(t, name, sub, Empty, Empty),
           UNCHANGED << trash, tasks, links, session >>
    PROVE  GrowStep /\ Types'
<1>1. t \in Type /\ Slots(t) = {} /\ DataSlots(t) = {}
  BY SlotsOf DEF Type
<1>2. Empty \in [Slots(t) -> Ref] /\ Empty \in [DataSlots(t) -> 0 .. MaxUuid]
  BY <1>1, EmptyType
<1>3. session' \in Session /\ UNCHANGED << trash, tasks, links >>
  BY DEF Types
<1> DEFINE refs == Empty
<1> HIDE DEF refs
<1>4. \A s \in Slots(t) : FALSE
  BY <1>1
<1> QED
  BY <1>1, <1>2, <1>3, <1>4, InsertStep

\* A row with one reference is added.
LEMMA InsertReferring ==
    ASSUME Types, NEW t \in {"scanner", "config", "alert"}, NEW s \in Type,
           Slots(t) = {s}, NEW name \in Name, NEW ref \in Ref,
           ref.loc = "table",
           \/ ref = NoRef
           \/ ref.id \in DOMAIN table[s] /\ ref.to = table[s][ref.id].uuid,
           NEW data \in [DataSlots(t) -> 0 .. MaxUuid],
           NEW refs, refs = [x \in {s} |-> ref], Insert(t, name, 0, refs, data),
           UNCHANGED << trash, tasks, links, session >>
    PROVE  GrowStep /\ Types'
<1>1. t \in Type
  BY DEF Type
<1>2. refs \in [Slots(t) -> Ref] /\ refs[s] = ref
  OBVIOUS
<1>3. session' \in Session /\ UNCHANGED << trash, tasks, links >>
  BY DEF Types
<1> QED
  BY <1>1, <1>2, <1>3, InsertStep

LEMMA create_credential_Grows == Types /\ create_credential => GrowStep /\ Types'
<1> SUFFICES ASSUME Types, create_credential PROVE GrowStep /\ Types'
  OBVIOUS
<1>1. PICK n \in Name : Insert("credential", n, 0, Empty, Empty)
  BY DEF create_credential
<1>2. UNCHANGED << trash, tasks, links, session >>
  BY DEF create_credential
<1> QED
  BY <1>1, <1>2, InsertPlain

LEMMA create_schedule_Grows == Types /\ create_schedule => GrowStep /\ Types'
<1> SUFFICES ASSUME Types, create_schedule PROVE GrowStep /\ Types'
  OBVIOUS
<1>1. PICK n \in Name : Insert("schedule", n, 0, Empty, Empty)
  BY DEF create_schedule
<1>2. UNCHANGED << trash, tasks, links, session >>
  BY DEF create_schedule
<1> QED
  BY <1>1, <1>2, InsertPlain

LEMMA create_filter_Grows == Types /\ create_filter => GrowStep /\ Types'
<1> SUFFICES ASSUME Types, create_filter PROVE GrowStep /\ Types'
  OBVIOUS
<1>1. PICK n \in Name : Insert("filter", n, 0, Empty, Empty)
  BY DEF create_filter
<1>2. UNCHANGED << trash, tasks, links, session >>
  BY DEF create_filter
<1> QED
  BY <1>1, <1>2, InsertPlain

LEMMA create_port_list_Grows == Types /\ create_port_list => GrowStep /\ Types'
<1> SUFFICES ASSUME Types, create_port_list PROVE GrowStep /\ Types'
  OBVIOUS
<1>1. PICK n \in Name :
          Insert("port_list", n, NextSub(table["port_list"]), Empty, Empty)
  BY DEF create_port_list
<1>2. UNCHANGED << trash, tasks, links, session >>
  BY DEF create_port_list
<1>3. NextSub(table["port_list"]) \in Nat
  BY TableRows DEF Type
<1> QED
  BY <1>1, <1>2, <1>3, InsertPlain

LEMMA create_scanner_Grows == Types /\ create_scanner => GrowStep /\ Types'
<1> SUFFICES ASSUME Types, create_scanner PROVE GrowStep /\ Types'
  OBVIOUS
<1>1. PICK n \in Name, c \in MayRefer("credential") :
          Insert("scanner", n, 0, [s \in {"credential"} |-> To(s, c)], Empty)
  BY DEF create_scanner
<1>2. UNCHANGED << trash, tasks, links, session >>
  BY DEF create_scanner
<1> DEFINE ref == To("credential", c)
           refs == [s \in {"credential"} |-> To(s, c)]
<1>3. /\ ref \in Ref /\ ref.loc = "table"
      /\ \/ ref = NoRef
         \/ /\ ref.id \in DOMAIN table["credential"]
            /\ ref.to = table["credential"][ref.id].uuid
  BY ToType DEF Type
<1>4. refs = [x \in {"credential"} |-> ref]
  OBVIOUS
<1>5. Insert("scanner", n, 0, refs, Empty)
  BY <1>1
<1> HIDE DEF ref, refs
<1>6. Empty \in [DataSlots("scanner") -> 0 .. MaxUuid]
  BY SlotsOf, EmptyType DEF Type
<1> QED
  BY <1>2, <1>3, <1>4, <1>5, <1>6, SlotsOf, InsertReferring DEF Type

LEMMA create_config_Grows == Types /\ create_config => GrowStep /\ Types'
<1> SUFFICES ASSUME Types, create_config PROVE GrowStep /\ Types'
  OBVIOUS
<1>1. PICK n \in Name :
          Insert("config", n, 0, [s \in {"scanner"} |-> NoRef], Empty)
  BY DEF create_config
<1>2. UNCHANGED << trash, tasks, links, session >>
  BY DEF create_config
<1> DEFINE refs == [s \in {"scanner"} |-> NoRef]
<1>3. Insert("config", n, 0, refs, Empty)
  BY <1>1
<1>4. refs = [x \in {"scanner"} |-> NoRef]
  OBVIOUS
<1> HIDE DEF refs
<1>5. Empty \in [DataSlots("config") -> 0 .. MaxUuid]
  BY SlotsOf, EmptyType DEF Type
<1> QED
  BY <1>2, <1>3, <1>4, <1>5, SlotsOf, NoRefType, InsertReferring DEF Type

LEMMA create_config_from_scanner_Grows ==
    Types /\ create_config_from_scanner => GrowStep /\ Types'
<1> SUFFICES ASSUME Types, create_config_from_scanner PROVE GrowStep /\ Types'
  OBVIOUS
<1>1. PICK n \in Name, c \in DOMAIN table["scanner"] :
          Insert("config", n, 0, [s \in {"scanner"} |-> To(s, c)], Empty)
  BY DEF create_config_from_scanner
<1>2. UNCHANGED << trash, tasks, links, session >>
  BY DEF create_config_from_scanner
<1> DEFINE ref == To("scanner", c)
           refs == [s \in {"scanner"} |-> To(s, c)]
<1>3. /\ ref \in Ref /\ ref.loc = "table"
      /\ \/ ref = NoRef
         \/ /\ ref.id \in DOMAIN table["scanner"]
            /\ ref.to = table["scanner"][ref.id].uuid
  <2>1. c \in MayRefer("scanner")
    BY DEF MayRefer
  <2> QED
    BY <2>1, ToType DEF Type
<1>4. refs = [x \in {"scanner"} |-> ref]
  OBVIOUS
<1>5. Insert("config", n, 0, refs, Empty)
  BY <1>1
<1> HIDE DEF ref, refs
<1>6. Empty \in [DataSlots("config") -> 0 .. MaxUuid]
  BY SlotsOf, EmptyType DEF Type
<1> QED
  BY <1>2, <1>3, <1>4, <1>5, <1>6, SlotsOf, InsertReferring DEF Type

LEMMA create_alert_Grows == Types /\ create_alert => GrowStep /\ Types'
<1> SUFFICES ASSUME Types, create_alert PROVE GrowStep /\ Types'
  OBVIOUS
<1>1. PICK n \in Name, f \in MayRefer("filter") :
          Insert("alert", n, 0, [s \in {"filter"} |-> To(s, f)],
                 [s \in DataSlots("alert") |-> 0])
  BY DEF create_alert
<1>2. UNCHANGED << trash, tasks, links, session >>
  BY DEF create_alert
<1> DEFINE ref == To("filter", f)
           refs == [s \in {"filter"} |-> To(s, f)]
           data == [s \in DataSlots("alert") |-> 0]
<1>3. /\ ref \in Ref /\ ref.loc = "table"
      /\ \/ ref = NoRef
         \/ /\ ref.id \in DOMAIN table["filter"]
            /\ ref.to = table["filter"][ref.id].uuid
  BY ToType DEF Type
<1>4. refs = [x \in {"filter"} |-> ref]
  OBVIOUS
<1>5. Insert("alert", n, 0, refs, data)
  BY <1>1
<1>6. data \in [DataSlots("alert") -> 0 .. MaxUuid]
  BY Constants DEF MaxUuid
<1> HIDE DEF ref, refs, data
<1> QED
  BY <1>2, <1>3, <1>4, <1>5, <1>6, SlotsOf, InsertReferring DEF Type

LEMMA SessionFields ==
    ASSUME session \in Session
    PROVE  /\ session.what = "create_target" => session.id \in Id
           /\ session.what = "login" => session.from \in Id /\ session.to \in Id
           /\ session.what = "set" => /\ session.task \in Id /\ session.id \in Id
                                      /\ session.slot \in TaskSlots
BY DEF Session, NoSession

LEMMA NoSessionType == NoSession \in Session
BY DEF Session

LEMMA FindForTarget_Grows == Types /\ FindForTarget => GrowStep /\ Types'
<1> SUFFICES ASSUME Types, FindForTarget PROVE GrowStep /\ Types'
  OBVIOUS
<1>1. PICK c \in DOMAIN table["credential"] :
          session' = [what |-> "create_target", id |-> c]
  BY DEF FindForTarget
<1>2. c \in Id
  BY TableRows DEF Type
<1>3. session' \in Session
  BY <1>1, <1>2 DEF Session
<1>4. OthersStep /\ UNCHANGED table
  BY <1>3 DEF FindForTarget, OthersStep, links, Types
<1> QED
  BY <1>4, IdleStep

LEMMA create_target_Grows == Types /\ create_target => GrowStep /\ Types'
<1> SUFFICES ASSUME Types, create_target PROVE GrowStep /\ Types'
  OBVIOUS
<1>1. session' \in Session /\ UNCHANGED << trash, tasks, links >>
  BY NoSessionType DEF create_target
<1>2. PICK n \in Name, p \in DOMAIN table["port_list"] :
          \/ Insert("target", n, 0,
                    [s \in Slots("target") |->
                        IF s = "port_list" THEN To(s, p) ELSE NoRef], Empty)
          \/ /\ find_resource("credential", session.id)
             /\ Insert("target", n, NextSub(table["target"]),
                    [s \in Slots("target") |->
                        To(s, IF s = "port_list" THEN p ELSE session.id)], Empty)
  BY DEF create_target
<1>3. "target" \in Type /\ "port_list" \in Type /\ "credential" \in Type
      /\ Slots("target") = {"port_list", "credential"}
  BY SlotsOf DEF Type
<1>4. Empty \in [DataSlots("target") -> 0 .. MaxUuid]
  BY SlotsOf, EmptyType DEF Type
<1>5. NextSub(table["target"]) \in Nat
  BY <1>3, TableRows
<1> DEFINE Right(s, ref) ==
              /\ ref \in Ref /\ ref.loc = "table"
              /\ \/ ref = NoRef
                 \/ ref.id \in DOMAIN table[s] /\ ref.to = table[s][ref.id].uuid
<1>6. \A s \in Type : \A c \in DOMAIN table[s] : Right(s, To(s, c))
  BY ToType DEF MayRefer
<1>7. \A s \in Type : Right(s, NoRef)
  BY NoRefType
<1>8. CASE Insert("target", n, 0,
                  [s \in Slots("target") |->
                      IF s = "port_list" THEN To(s, p) ELSE NoRef], Empty)
  <2> DEFINE refs == [s \in Slots("target") |->
                        IF s = "port_list" THEN To(s, p) ELSE NoRef]
  <2>1. DOMAIN refs = Slots("target") /\ refs["port_list"] = To("port_list", p)
        /\ refs["credential"] = NoRef /\ refs = [s \in Slots("target") |-> refs[s]]
    BY <1>3
  <2>2. Insert("target", n, 0, refs, Empty)
    BY <1>8
  <2> HIDE DEF refs, Right
  <2>3. \A s \in Slots("target") : Right(s, refs[s])
    BY <1>3, <1>6, <1>7, <2>1
  <2>4. refs \in [Slots("target") -> Ref]
    BY <2>1, <2>3 DEF Right
  <2>5. \A s \in Slots("target") :
              /\ refs[s].loc = "table"
              /\ \/ refs[s] = NoRef
                 \/ /\ refs[s].id \in DOMAIN table[s]
                    /\ refs[s].to = table[s][refs[s].id].uuid
    BY <2>3 DEF Right
  <2> QED
    BY <1>1, <1>3, <1>4, <2>2, <2>4, <2>5, InsertStep
<1>9. CASE /\ find_resource("credential", session.id)
           /\ Insert("target", n, NextSub(table["target"]),
                  [s \in Slots("target") |->
                      To(s, IF s = "port_list" THEN p ELSE session.id)], Empty)
  <2> DEFINE refs == [s \in Slots("target") |->
                        To(s, IF s = "port_list" THEN p ELSE session.id)]
  <2>1. DOMAIN refs = Slots("target") /\ refs["port_list"] = To("port_list", p)
        /\ refs["credential"] = To("credential", session.id)
        /\ refs = [s \in Slots("target") |-> refs[s]]
    BY <1>3
  <2>2. Insert("target", n, NextSub(table["target"]), refs, Empty)
    BY <1>9
  <2> HIDE DEF refs, Right
  <2>3. \A s \in Slots("target") : Right(s, refs[s])
    BY <1>3, <1>6, <1>9, <2>1 DEF find_resource
  <2>4. refs \in [Slots("target") -> Ref]
    BY <2>1, <2>3 DEF Right
  <2>5. \A s \in Slots("target") :
              /\ refs[s].loc = "table"
              /\ \/ refs[s] = NoRef
                 \/ /\ refs[s].id \in DOMAIN table[s]
                    /\ refs[s].to = table[s][refs[s].id].uuid
    BY <2>3 DEF Right
  <2> QED
    BY <1>1, <1>3, <1>4, <1>5, <2>2, <2>4, <2>5, InsertStep
<1> QED
  BY <1>2, <1>8, <1>9

LEMMA create_target_dies_Grows == Types /\ create_target_dies => GrowStep /\ Types'
<1> SUFFICES ASSUME Types, create_target_dies PROVE GrowStep /\ Types'
  OBVIOUS
<1>1. OthersStep /\ UNCHANGED table
  BY NoSessionType DEF create_target_dies, OthersStep, links, Types
<1> QED
  BY <1>1, IdleStep

LEMMA create_target_with_ports_Grows ==
    Types /\ create_target_with_ports => GrowStep /\ Types'
<1> SUFFICES ASSUME Types, create_target_with_ports PROVE GrowStep /\ Types'
  OBVIOUS
<1>1. /\ new > 0 /\ new' = new - 1
      /\ UNCHANGED << trash, tasks, tag_resources, permissions, session, commands >>
  BY DEF create_target_with_ports, Make, links
<1> DEFINE id == NextId(table["port_list"])
           next == NextId(table["target"])
           range == NextSub(table["port_list"])
           refs == [s \in Slots("target") |->
                        IF s = "port_list"
                        THEN [id |-> id, loc |-> "table", to |-> NewUuid]
                        ELSE NoRef]
<1>2. PICK n \in Name, p \in Name :
          /\ NameFree("target", n, 0) /\ NameFree("port_list", p, 0)
          /\ table' = [table EXCEPT
                !["port_list"] = With(@, id,
                    [uuid |-> NewUuid, name |-> p, sub |-> range,
                     refs |-> Empty, data |-> Empty]),
                !["target"] = With(@, next,
                    [uuid |-> NewUuid, name |-> n, sub |-> 0,
                     refs |-> refs, data |-> Empty])]
  BY DEF create_target_with_ports
<1>3. "target" \in Type /\ "port_list" \in Type
      /\ Slots("target") = {"port_list", "credential"} /\ Slots("port_list") = {}
  BY SlotsOf DEF Type
<1>4. /\ id \in Id /\ id \notin DOMAIN table["port_list"]
      /\ next \in Id /\ next \notin DOMAIN table["target"] /\ range \in Nat
      /\ DOMAIN table["target"] \subseteq Id /\ DOMAIN table["port_list"] \subseteq Id
  BY <1>3, TableRows
<1>5. NewUuid \in 1 .. MaxUuid /\ new - 1 \in 0 .. MaxNew
  BY <1>1, NewUuidType DEF Types
<1> HIDE DEF id, next, range
<1>6. refs \in [Slots("target") -> Ref]
      /\ refs["port_list"] = [id |-> id, loc |-> "table", to |-> NewUuid]
      /\ refs["credential"] = NoRef
  <2>1. NewUuid \in 0 .. MaxUuid
    BY <1>5, Constants DEF MaxUuid
  <2>2. [id |-> id, loc |-> "table", to |-> NewUuid] \in Ref
    BY <1>4, <2>1 DEF Ref, Location
  <2> QED
    BY <1>3, <2>2, NoRefType
<1> HIDE DEF refs
<1> DEFINE list == [uuid |-> NewUuid, name |-> p, sub |-> range,
                    refs |-> Empty, data |-> Empty]
           target == [uuid |-> NewUuid, name |-> n, sub |-> 0,
                      refs |-> refs, data |-> Empty]
<1>7. list \in Row("port_list") /\ list.uuid = NewUuid /\ list.name = p
  <2>1. Empty \in [Slots("port_list") -> Ref] /\ Empty \in [DataSlots("port_list") -> 0 .. MaxUuid]
    BY <1>3, SlotsOf, EmptyType
  <2> QED
    BY <1>4, <1>5, <2>1 DEF Row, Id
<1>8. /\ target \in Row("target") /\ target.uuid = NewUuid /\ target.name = n
      /\ target.refs = refs
  <2>1. Empty \in [DataSlots("target") -> 0 .. MaxUuid]
    BY <1>3, SlotsOf, EmptyType
  <2> QED
    BY <1>5, <1>6, <2>1 DEF Row
<1> HIDE DEF list, target
<1>9. /\ DOMAIN table' = Type
      /\ \A u \in Type \ {"port_list", "target"} : table'[u] = table[u]
      /\ DOMAIN table'["port_list"] = DOMAIN table["port_list"] \cup {id}
      /\ table'["port_list"][id] = list
      /\ \A i \in DOMAIN table["port_list"] \ {id} :
            table'["port_list"][i] = table["port_list"][i]
      /\ DOMAIN table'["target"] = DOMAIN table["target"] \cup {next}
      /\ table'["target"][next] = target
      /\ \A i \in DOMAIN table["target"] \ {next} :
            table'["target"][i] = table["target"][i]
  BY <1>2, <1>3 DEF Types, TablesOK, With, list, target
<1>10. NameFree("target", n, next) /\ NameFree("port_list", p, id)
  <2>1. 0 \notin DOMAIN table["target"] /\ 0 \notin DOMAIN table["port_list"]
    BY <1>4 DEF Id
  <2> QED
    BY <1>2, <2>1 DEF NameFree
<1>11. Changed("port_list", id)
  <2>1. NewRow("port_list", id, list)
    BY <1>1, <1>3, <1>4, <1>7, <1>10 DEF NewRow
  <2> QED
    BY <1>9, <2>1 DEF Changed
<1>12. Changed("target", next)
  <2>1. NewRef("target", "port_list", refs["port_list"])
    BY <1>6, <1>7, <1>9 DEF NewRef
  <2>2. NewRef("target", "credential", refs["credential"])
    BY <1>6 DEF NewRef
  <2>3. NewRow("target", next, target)
    BY <1>1, <1>3, <1>4, <1>8, <1>10, <2>1, <2>2 DEF NewRow
  <2> QED
    BY <1>9, <2>3 DEF Changed
<1>13. GrowStep
  BY <1>1, <1>4, <1>9, <1>11, <1>12 DEF GrowStep
<1>14. RowOK(list, "port_list", {"table"}) /\ RowOK(target, "target", {"table"})
  BY <1>3, <1>6, <1>7, <1>8, NoRefType DEF RowOK
<1>15. \A u \in Type : RowsOK(table'[u], u, {"table"})
  <2>1. RowsOK(table'["port_list"], "port_list", {"table"})
    <3> DEFINE rows == table["port_list"]
               more == table'["port_list"]
    <3>1. RowsOK(rows, "port_list", {"table"})
      BY <1>3, TableRows
    <3>2. DOMAIN more = DOMAIN rows \cup {id} /\ more[id] = list
          /\ \A i \in DOMAIN rows \ {id} : more[i] = rows[i]
      BY <1>9
    <3> HIDE DEF rows, more
    <3>3. RowsOK(more, "port_list", {"table"})
      BY <1>4, <1>14, <3>1, <3>2, ChangedRows
    <3> QED
      BY <3>3 DEF more
  <2>2. RowsOK(table'["target"], "target", {"table"})
    <3> DEFINE rows == table["target"]
               more == table'["target"]
    <3>1. RowsOK(rows, "target", {"table"})
      BY <1>3, TableRows
    <3>2. DOMAIN more = DOMAIN rows \cup {next} /\ more[next] = target
          /\ \A i \in DOMAIN rows \ {next} : more[i] = rows[i]
      BY <1>9
    <3> HIDE DEF rows, more
    <3>3. RowsOK(more, "target", {"table"})
      BY <1>4, <1>14, <3>1, <3>2, ChangedRows
    <3> QED
      BY <3>3 DEF more
  <2> QED
    BY <1>9, <2>1, <2>2 DEF Types, TablesOK
<1>16. Types'
  BY <1>1, <1>5, <1>9, <1>15 DEF Types, TablesOK
<1> QED
  BY <1>13, <1>16

LEMMA Copy_Grows ==
    ASSUME NEW t \in Type, Types, Copy(t)
    PROVE  GrowStep /\ Types'
<1>1. PICK i \in DOMAIN table[t] : copy_resource(t, i, table[t][i])
  BY DEF Copy
<1>2. session' \in Session
  BY DEF Copy, Types
<1>3. RowOK(table[t][i], t, {"table"})
  BY TableRows
<1> QED
  BY <1>1, <1>2, <1>3, CopyStep

LEMMA copy_port_list_Grows == Types /\ copy_port_list => GrowStep /\ Types'
<1> SUFFICES ASSUME Types, copy_port_list PROVE GrowStep /\ Types'
  OBVIOUS
<1> DEFINE n == NextSub(table["port_list"])
<1>1. PICK i \in DOMAIN table["port_list"] :
          copy_resource("port_list", i, [table["port_list"][i] EXCEPT !.sub = n])
  BY DEF copy_port_list
<1>2. session' \in Session
  BY DEF copy_port_list, Types
<1>3. "port_list" \in Type /\ Slots("port_list") = {}
  BY SlotsOf DEF Type
<1> DEFINE r == table["port_list"][i]
           q == [r EXCEPT !.sub = n]
<1>4. r \in Row("port_list") /\ n \in Nat
  BY <1>3, TableRows
<1> HIDE DEF r, n
<1>5. q \in Row("port_list")
  BY <1>4 DEF Row, Id
<1>6. copy_resource("port_list", i, q)
  BY <1>1 DEF r
<1> HIDE DEF q
<1>7. RowOK(q, "port_list", {"table"})
  BY <1>3, <1>5 DEF RowOK
<1> QED
  BY <1>2, <1>3, <1>6, <1>7, CopyStep

\* The row of a target with other login data.
SetLogin(r, n, ref) == [r EXCEPT !.sub = n, !.refs["credential"] = ref]

LEMMA LoginRow ==
    ASSUME NEW r, RowOK(r, "target", {"table"}), NEW n \in Nat,
           NEW ref \in Ref, ref.loc = "table"
    PROVE  LET q == SetLogin(r, n, ref) IN
           /\ RowOK(q, "target", {"table"}) /\ q.uuid = r.uuid /\ q.name = r.name
           /\ q.refs["credential"] = ref
           /\ q.refs["port_list"] = r.refs["port_list"]
<1> DEFINE q == SetLogin(r, n, ref)
<1>1. Slots("target") = {"port_list", "credential"}
  BY SlotsOf
<1>2. r \in Row("target") /\ r.refs \in [Slots("target") -> Ref]
  BY RowFields DEF RowOK
<1> DEFINE refs == [r.refs EXCEPT !["credential"] = ref]
<1>3. /\ refs \in [Slots("target") -> Ref] /\ refs["credential"] = ref
      /\ refs["port_list"] = r.refs["port_list"]
  BY <1>1, <1>2
<1>4. q = [[r EXCEPT !.sub = n] EXCEPT !.refs = refs]
  BY <1>2 DEF Row, SetLogin
<1> HIDE DEF refs, q
<1>5. q \in Row("target") /\ q.uuid = r.uuid /\ q.name = r.name /\ q.refs = refs
  BY <1>2, <1>3, <1>4 DEF Row, Id
<1>6. RowOK(q, "target", {"table"})
  BY <1>1, <1>3, <1>5 DEF RowOK
<1> QED
  BY <1>3, <1>5, <1>6 DEF q

LEMMA copy_target_Grows == Types /\ copy_target => GrowStep /\ Types'
<1> SUFFICES ASSUME Types, copy_target PROVE GrowStep /\ Types'
  OBVIOUS
<1>1. PICK i \in DOMAIN table["target"] :
          /\ copy_resource("target", i,
                [table["target"][i] EXCEPT !.sub = 0, !.refs["credential"] = NoRef])
          /\ session' = [what |-> "login", from |-> i,
                         to |-> NextId(table["target"])]
  BY DEF copy_target
<1>2. "target" \in Type /\ Slots("target") = {"port_list", "credential"}
  BY SlotsOf DEF Type
<1>3. session' \in Session
  BY <1>1, <1>2, TableRows DEF Session
<1> DEFINE r == table["target"][i]
           q == [r EXCEPT !.sub = 0, !.refs["credential"] = NoRef]
<1>4. RowOK(r, "target", {"table"})
  BY <1>2, TableRows
<1>5. copy_resource("target", i, q)
  BY <1>1
<1> HIDE DEF r
<1>6. q = SetLogin(r, 0, NoRef)
  BY DEF SetLogin
<1> HIDE DEF q
<1>7. /\ RowOK(q, "target", {"table"}) /\ q.refs["credential"] = NoRef
      /\ q.refs["port_list"] = r.refs["port_list"]
  BY <1>4, <1>6, NoRefType, LoginRow
<1>8. \A s \in Slots("target") : \/ q.refs[s] = NoRef
                                 \/ q.refs[s] = table["target"][i].refs[s]
  BY <1>2, <1>7 DEF r
<1> QED
  BY <1>2, <1>3, <1>5, <1>7, <1>8, CopyStep

LEMMA CopyLogin_Grows == Types /\ CopyLogin => GrowStep /\ Types'
<1> SUFFICES ASSUME Types, CopyLogin PROVE GrowStep /\ Types'
  OBVIOUS
<1>1. OthersStep
  BY NoSessionType DEF CopyLogin, OthersStep, links, Types
<1> DEFINE from == table["target"][session.from]
           r == table["target"][session.to]
           n == NextSub(table["target"])
           q == [r EXCEPT !.sub = n, !.refs["credential"] = from.refs["credential"]]
<1>2. CASE UNCHANGED table
  BY <1>1, <1>2, IdleStep
<1>3. CASE /\ session.to \in DOMAIN table["target"]
           /\ session.from \in DOMAIN table["target"]
           /\ table' = [table EXCEPT !["target"][session.to] = q]
  <2>1. "target" \in Type /\ Slots("target") = {"port_list", "credential"}
    BY SlotsOf DEF Type
  <2>2. RowOK(r, "target", {"table"}) /\ n \in Nat /\ RowOK(from, "target", {"table"})
    BY <1>3, <2>1, TableRows
  <2> DEFINE ref == from.refs["credential"]
  <2> HIDE DEF r, n, from
  <2>3. ref \in Ref /\ ref.loc = "table"
    BY <2>1, <2>2, RowFields DEF RowOK
  <2>4. q = SetLogin(r, n, ref)
    BY DEF SetLogin
  <2> HIDE DEF q, ref
  <2>5. /\ RowOK(q, "target", {"table"}) /\ q.uuid = r.uuid /\ q.name = r.name
        /\ q.refs["credential"] = ref /\ q.refs["port_list"] = r.refs["port_list"]
    BY <2>2, <2>3, <2>4, LoginRow
  <2>6. \A s \in Slots("target") :
           \E j \in DOMAIN table["target"] : q.refs[s] = table["target"][j].refs[s]
    BY <1>3, <2>1, <2>5 DEF ref, from, r
  <2>7. RowUpdated("target", session.to, q)
    BY <1>3, <2>1 DEF RowUpdated, Types, TablesOK
  <2>8. q.uuid = table["target"][session.to].uuid
        /\ q.name = table["target"][session.to].name
    BY <2>5 DEF r
  <2> QED
    BY <1>1, <1>3, <2>1, <2>5, <2>6, <2>7, <2>8, UpdateStep
<1> QED
  BY <1>2, <1>3 DEF CopyLogin

LEMMA CreateResource_Grows == Types /\ CreateResource => GrowStep /\ Types'
<1> SUFFICES ASSUME Types, CreateResource PROVE GrowStep /\ Types'
  OBVIOUS
<1>1. \A t \in Type : Copy(t) => GrowStep /\ Types'
  BY Copy_Grows
<1>2. \/ Copy("alert") \/ Copy("config") \/ Copy("credential")
      \/ Copy("filter") \/ Copy("scanner") \/ Copy("schedule")
      => GrowStep /\ Types'
  BY <1>1 DEF Type
<1> QED
  BY <1>2, create_credential_Grows, create_schedule_Grows, create_filter_Grows,
     create_port_list_Grows, create_scanner_Grows, create_config_Grows,
     create_config_from_scanner_Grows, create_alert_Grows,
     FindForTarget_Grows, create_target_Grows, create_target_dies_Grows,
     create_target_with_ports_Grows, copy_port_list_Grows,
     copy_target_Grows, CopyLogin_Grows
     DEF CreateResource, copy_alert, copy_config, copy_credential, copy_filter,
         copy_scanner, copy_schedule

\* The name of a resource is set.
LEMMA RenameStep ==
    ASSUME Types, NEW t \in Type, NEW i \in DOMAIN table[t],
           Rename(t, i) \/ Unname(t, i), OthersStep
    PROVE  GrowStep /\ Types'
<1>1. PICK n \in Name \cup {NoName} :
          /\ n = NoName \/ NameFree(t, n, i)
          /\ table' = [table EXCEPT ![t][i].name = n]
  BY DEF Rename, Unname
<1> DEFINE r == table[t][i]
           q == [r EXCEPT !.name = n]
<1>2. RowOK(r, t, {"table"})
  BY TableRows
<1>3. table' = [table EXCEPT ![t][i] = q]
  BY <1>1
<1> HIDE DEF r
<1>4. q \in Row(t) /\ q.name = n /\ q.uuid = r.uuid /\ q.refs = r.refs
  BY <1>2 DEF RowOK, Row
<1> HIDE DEF q
<1>5. RowOK(q, t, {"table"})
  BY <1>2, <1>4 DEF RowOK
<1>6. \A s \in Slots(t) : \E j \in DOMAIN table[t] : q.refs[s] = table[t][j].refs[s]
  BY <1>4 DEF r
<1>7. RowUpdated(t, i, q)
  BY <1>3 DEF RowUpdated, Types, TablesOK
<1>8. q.uuid = table[t][i].uuid
  BY <1>4 DEF r
<1> QED
  BY <1>1, <1>4, <1>5, <1>6, <1>7, <1>8, UpdateStep

\* A reference of a resource is set.
Referred(t, i, s, ref) == table' = [table EXCEPT ![t][i].refs[s] = ref]

LEMMA ReferStep ==
    ASSUME Types, NEW t \in Type, NEW i \in DOMAIN table[t], NEW s \in Slots(t),
           NEW c \in MayRefer(s), Referred(t, i, s, To(s, c)), OthersStep
    PROVE  GrowStep /\ Types'
<1> DEFINE r == table[t][i]
           ref == To(s, c)
           q == [r EXCEPT !.refs[s] = ref]
<1>1. RowOK(r, t, {"table"})
  BY TableRows
<1>2. /\ ref \in Ref /\ ref.loc = "table"
      /\ \/ ref = NoRef
         \/ ref.id \in DOMAIN table[s] /\ ref.to = table[s][ref.id].uuid
  BY SlotsAreTypes, ToType
<1> HIDE DEF ref
<1>3. table' = [table EXCEPT ![t][i] = q]
  BY DEF ref, Referred
<1> HIDE DEF r
<1>4. /\ q \in Row(t) /\ q.uuid = r.uuid /\ q.name = r.name
      /\ q.refs = [r.refs EXCEPT ![s] = ref] /\ r.refs \in [Slots(t) -> Ref]
  BY <1>1, <1>2 DEF RowOK, Row
<1> HIDE DEF q
<1>5. q.refs[s] = ref /\ \A o \in Slots(t) \ {s} : q.refs[o] = r.refs[o]
  BY <1>4
<1>6. RowOK(q, t, {"table"})
  BY <1>1, <1>2, <1>4, <1>5 DEF RowOK
<1>7. \A o \in Slots(t) :
              \/ q.refs[o] = NoRef
              \/ /\ q.refs[o].id \in DOMAIN table[o]
                 /\ q.refs[o].to = table[o][q.refs[o].id].uuid
              \/ \E j \in DOMAIN table[t] : q.refs[o] = table[t][j].refs[o]
  BY <1>2, <1>5 DEF r
<1>8. RowUpdated(t, i, q)
  BY <1>3 DEF RowUpdated, Types, TablesOK
<1>9. q.uuid = table[t][i].uuid /\ q.name = table[t][i].name
  BY <1>4 DEF r
<1> QED
  BY <1>6, <1>7, <1>8, <1>9, UpdateStep

LEMMA MakeOthers ==
    ASSUME Types, Make, UNCHANGED << trash, tasks, links, session >>
    PROVE  OthersStep
BY DEF Types, Make, links, OthersStep

LEMMA modify_credential_Grows == Types /\ modify_credential => GrowStep /\ Types'
<1> SUFFICES ASSUME Types, modify_credential PROVE GrowStep /\ Types'
  OBVIOUS
<1>1. OthersStep
  BY MakeOthers DEF modify_credential
<1>2. PICK i \in DOMAIN table["credential"] : Rename("credential", i) \/ Unname("credential", i)
  BY DEF modify_credential
<1> QED
  BY <1>1, <1>2, RenameStep DEF Type

LEMMA modify_schedule_Grows == Types /\ modify_schedule => GrowStep /\ Types'
<1> SUFFICES ASSUME Types, modify_schedule PROVE GrowStep /\ Types'
  OBVIOUS
<1>1. OthersStep
  BY MakeOthers DEF modify_schedule
<1>2. PICK i \in DOMAIN table["schedule"] : Rename("schedule", i) \/ Unname("schedule", i)
  BY DEF modify_schedule
<1> QED
  BY <1>1, <1>2, RenameStep DEF Type

LEMMA modify_port_list_Grows == Types /\ modify_port_list => GrowStep /\ Types'
<1> SUFFICES ASSUME Types, modify_port_list PROVE GrowStep /\ Types'
  OBVIOUS
<1>1. OthersStep
  BY MakeOthers DEF modify_port_list
<1>2. PICK i \in DOMAIN table["port_list"] : Rename("port_list", i) \/ Unname("port_list", i)
  BY DEF modify_port_list
<1> QED
  BY <1>1, <1>2, RenameStep DEF Type

LEMMA modify_filter_Grows == Types /\ modify_filter => GrowStep /\ Types'
<1> SUFFICES ASSUME Types, modify_filter PROVE GrowStep /\ Types'
  OBVIOUS
<1>1. OthersStep
  BY MakeOthers DEF modify_filter
<1>2. PICK i \in DOMAIN table["filter"] : Rename("filter", i) \/ Unname("filter", i)
  BY DEF modify_filter
<1> QED
  BY <1>1, <1>2, RenameStep DEF Type

LEMMA manage_set_config_Grows == Types /\ manage_set_config => GrowStep /\ Types'
<1> SUFFICES ASSUME Types, manage_set_config PROVE GrowStep /\ Types'
  OBVIOUS
<1>1. OthersStep
  BY MakeOthers DEF manage_set_config
<1>2. PICK i \in DOMAIN table["config"] :
          \/ Rename("config", i)
          \/ \E c \in DOMAIN table["scanner"] :
                Referred("config", i, "scanner", To("scanner", c))
  BY DEF manage_set_config, Referred
<1>3. "config" \in Type /\ "scanner" \in Slots("config")
  BY SlotsOf DEF Type
<1>4. CASE Rename("config", i)
  BY <1>1, <1>3, <1>4, RenameStep
<1>5. ASSUME NEW c \in DOMAIN table["scanner"],
             Referred("config", i, "scanner", To("scanner", c))
      PROVE  GrowStep /\ Types'
  <2>1. c \in MayRefer("scanner")
    BY DEF MayRefer
  <2> QED
    BY <1>1, <1>3, <1>5, <2>1, ReferStep
<1> QED
  BY <1>2, <1>4, <1>5

LEMMA modify_scanner_Grows == Types /\ modify_scanner => GrowStep /\ Types'
<1> SUFFICES ASSUME Types, modify_scanner PROVE GrowStep /\ Types'
  OBVIOUS
<1>1. OthersStep
  BY MakeOthers DEF modify_scanner
<1>2. PICK i \in DOMAIN table["scanner"] :
          \/ Rename("scanner", i)
          \/ \E c \in DOMAIN table["credential"] :
                Referred("scanner", i, "credential", To("credential", c))
  BY DEF modify_scanner, Referred
<1>3. "scanner" \in Type /\ "credential" \in Slots("scanner")
  BY SlotsOf DEF Type
<1>4. CASE Rename("scanner", i)
  BY <1>1, <1>3, <1>4, RenameStep
<1>5. ASSUME NEW c \in DOMAIN table["credential"],
             Referred("scanner", i, "credential", To("credential", c))
      PROVE  GrowStep /\ Types'
  <2>1. c \in MayRefer("credential")
    BY DEF MayRefer
  <2> QED
    BY <1>1, <1>3, <1>5, <2>1, ReferStep
<1> QED
  BY <1>2, <1>4, <1>5

LEMMA set_target_login_data_Grows ==
    ASSUME Types, OthersStep, NEW i \in DOMAIN table["target"],
           set_target_login_data(i)
    PROVE  GrowStep /\ Types'
<1> DEFINE r == table["target"][i]
           next == NextSub(table["target"])
<1>1. PICK c \in MayRefer("credential") :
          table' = [table EXCEPT !["target"][i] =
              [@ EXCEPT !.sub = CASE c = 0     -> 0
                                  [] r.sub # 0 -> r.sub
                                  [] OTHER     -> next,
                        !.refs["credential"] = To("credential", c)]]
  BY DEF set_target_login_data
<1> DEFINE ref == To("credential", c)
           n == CASE c = 0 -> 0 [] r.sub # 0 -> r.sub [] OTHER -> next
           q == SetLogin(r, n, ref)
<1>2. "target" \in Type /\ "credential" \in Type
      /\ Slots("target") = {"port_list", "credential"}
  BY SlotsOf DEF Type
<1>3. RowOK(r, "target", {"table"}) /\ r.sub \in Nat /\ next \in Nat
  BY <1>2, TableRows, RowFields
<1>4. /\ ref \in Ref /\ ref.loc = "table"
      /\ \/ ref = NoRef
         \/ /\ ref.id \in DOMAIN table["credential"]
            /\ ref.to = table["credential"][ref.id].uuid
  BY <1>2, ToType
<1> HIDE DEF next
<1>5. n \in Nat
  BY <1>3
<1> HIDE DEF ref
<1>7. table' = [table EXCEPT !["target"][i] = q]
  BY <1>1 DEF SetLogin, ref
<1> HIDE DEF r, n
<1>8. /\ RowOK(q, "target", {"table"}) /\ q.uuid = r.uuid /\ q.name = r.name
      /\ q.refs["credential"] = ref /\ q.refs["port_list"] = r.refs["port_list"]
  BY <1>3, <1>4, <1>5, LoginRow
<1> HIDE DEF q
<1>9. RowUpdated("target", i, q)
  BY <1>2, <1>7 DEF RowUpdated, Types, TablesOK
<1>10. q.uuid = table["target"][i].uuid /\ q.name = table["target"][i].name
  BY <1>8 DEF r
<1>11. \A o \in Slots("target") :
              \/ q.refs[o] = NoRef
              \/ /\ q.refs[o].id \in DOMAIN table[o]
                 /\ q.refs[o].to = table[o][q.refs[o].id].uuid
              \/ \E j \in DOMAIN table["target"] : q.refs[o] = table["target"][j].refs[o]
  BY <1>2, <1>4, <1>8 DEF r
<1> QED
  BY <1>2, <1>8, <1>9, <1>10, <1>11, UpdateStep

LEMMA modify_target_Grows == Types /\ modify_target => GrowStep /\ Types'
<1> SUFFICES ASSUME Types, modify_target PROVE GrowStep /\ Types'
  OBVIOUS
<1>1. OthersStep
  BY MakeOthers DEF modify_target
<1>2. PICK i \in DOMAIN table["target"] :
          \/ Rename("target", i) \/ ModifyPortList(i) \/ set_target_login_data(i)
  BY DEF modify_target
<1>3. "target" \in Type /\ "port_list" \in Slots("target")
  BY SlotsOf DEF Type
<1>4. CASE Rename("target", i)
  BY <1>1, <1>3, <1>4, RenameStep
<1>5. CASE ModifyPortList(i)
  <2>1. PICK p \in DOMAIN table["port_list"] :
            Referred("target", i, "port_list", To("port_list", p))
    BY <1>5 DEF ModifyPortList, Referred
  <2>2. p \in MayRefer("port_list")
    BY DEF MayRefer
  <2> QED
    BY <1>1, <1>3, <2>1, <2>2, ReferStep
<1>6. CASE set_target_login_data(i)
  BY <1>1, <1>6, set_target_login_data_Grows
<1> QED
  BY <1>2, <1>4, <1>5, <1>6

LEMMA modify_alert_Grows == Types /\ modify_alert => GrowStep /\ Types'
<1> SUFFICES ASSUME Types, modify_alert PROVE GrowStep /\ Types'
  OBVIOUS
<1>1. OthersStep
  BY MakeOthers DEF modify_alert
<1>2. PICK i \in DOMAIN table["alert"], f \in MayRefer("filter"),
           g \in MayRefer("filter"), c \in MayRefer("credential"),
           n \in Name \cup {NoName} :
          /\ n # NoName => NameFree("alert", n, i)
          /\ table' = [table EXCEPT !["alert"][i] =
                [@ EXCEPT !.name = n,
                          !.refs["filter"] = To("filter", f),
                          !.data["filter"] = To("filter", g).to,
                          !.data["credential"] = To("credential", c).to]]
  BY DEF modify_alert
<1> DEFINE r == table["alert"][i]
           ref == To("filter", f)
           a == To("filter", g).to
           b == To("credential", c).to
           q == [r EXCEPT !.name = n, !.refs["filter"] = ref,
                          !.data["filter"] = a, !.data["credential"] = b]
<1>3. "alert" \in Type /\ "filter" \in Type /\ "credential" \in Type
      /\ Slots("alert") = {"filter"} /\ DataSlots("alert") = {"credential", "filter"}
  BY SlotsOf DEF Type
<1>4. RowOK(r, "alert", {"table"})
  BY <1>3, TableRows
<1>5. /\ ref \in Ref /\ ref.loc = "table"
      /\ \/ ref = NoRef
         \/ /\ ref.id \in DOMAIN table["filter"]
            /\ ref.to = table["filter"][ref.id].uuid
  BY <1>3, ToType
<1>6. a \in 0 .. MaxUuid /\ b \in 0 .. MaxUuid
  BY <1>3, ToType
<1> HIDE DEF ref, a, b
<1>7. table' = [table EXCEPT !["alert"][i] = q]
  BY <1>2 DEF ref, a, b
<1> HIDE DEF r
<1>8. r \in Row("alert") /\ r.refs \in [{"filter"} -> Ref]
      /\ r.data \in [{"credential", "filter"} -> 0 .. MaxUuid]
  BY <1>3, <1>4, RowFields DEF RowOK
<1> DEFINE refs == [r.refs EXCEPT !["filter"] = ref]
           data == [[r.data EXCEPT !["filter"] = a] EXCEPT !["credential"] = b]
<1>9. refs \in [{"filter"} -> Ref] /\ refs["filter"] = ref
      /\ data \in [{"credential", "filter"} -> 0 .. MaxUuid]
  BY <1>5, <1>6, <1>8
<1>10. q = [[[r EXCEPT !.name = n] EXCEPT !.refs = refs] EXCEPT !.data = data]
  BY <1>8 DEF Row
<1> HIDE DEF refs, data, q
<1>11. q \in Row("alert") /\ q.uuid = r.uuid /\ q.name = n /\ q.refs = refs
  BY <1>3, <1>8, <1>9, <1>10 DEF Row
<1>12. RowOK(q, "alert", {"table"})
  BY <1>3, <1>5, <1>9, <1>11 DEF RowOK
<1>13. RowUpdated("alert", i, q)
  BY <1>3, <1>7 DEF RowUpdated, Types, TablesOK
<1>14. q.uuid = table["alert"][i].uuid
  BY <1>11 DEF r
<1>15. \A o \in Slots("alert") :
              \/ q.refs[o] = NoRef
              \/ /\ q.refs[o].id \in DOMAIN table[o]
                 /\ q.refs[o].to = table[o][q.refs[o].id].uuid
  BY <1>3, <1>5, <1>9, <1>11
<1>16. q.name = NoName \/ NameFree("alert", q.name, i)
  BY <1>2, <1>11
<1> QED
  BY <1>1, <1>3, <1>12, <1>13, <1>14, <1>15, <1>16, UpdateStep

LEMMA ModifyResource_Grows == Types /\ ModifyResource => GrowStep /\ Types'
BY modify_credential_Grows, modify_schedule_Grows, modify_port_list_Grows,
   modify_filter_Grows, manage_set_config_Grows, modify_target_Grows,
   modify_scanner_Grows, modify_alert_Grows DEF ModifyResource

-----------------------------------------------------------------------------
(***************************************************************************)
(* Steps that add or change a task.                                        *)
(***************************************************************************)
NewTaskRef(k, s, ref) ==
    \/ ref = NoRef
    \/ /\ ref.loc = "table" /\ ref.id \in DOMAIN table[s]
       /\ ref.to = table[s][ref.id].uuid
    \/ /\ k \in DOMAIN tasks /\ ref.to = 0
       /\ ref.loc \in {"table", tasks[k].refs[s].loc}
    \/ \E j \in DOMAIN tasks : /\ ref = tasks[j].refs[s]
                               /\ tasks[j].hidden = 0 \/ j = k
TaskChanged(k) ==
    /\ DOMAIN tasks' = DOMAIN tasks \cup {k}
    /\ \A j \in DOMAIN tasks \ {k} : tasks'[j] = tasks[j]
    /\ tasks'[k] \in TaskRow
    /\ IF k \in DOMAIN tasks
       THEN tasks'[k].uuid = tasks[k].uuid /\ tasks'[k].hidden = tasks[k].hidden
       ELSE /\ tasks'[k].uuid = NewUuid /\ tasks'[k].hidden = 0
            /\ new > 0 /\ new' = new - 1
    /\ \A s \in TaskSlots : NewTaskRef(k, s, tasks'[k].refs[s])
TaskStep ==
    /\ tasks' = tasks \/ \E k \in Id : TaskChanged(k)
    /\ new' = new \/ (new > 0 /\ new' = new - 1)
    /\ \A l \in permissions' :
          \/ l \in permissions
          \/ /\ l.type = "task" /\ l.loc = "table"
             /\ l.id \in DOMAIN tasks' \ DOMAIN tasks /\ l.to = tasks'[l.id].uuid
    /\ UNCHANGED << table, trash >>

LEMMA TaskRows ==
    ASSUME Types
    PROVE  /\ NextId(tasks) \in Id /\ NextId(tasks) \notin DOMAIN tasks
           /\ \A k \in DOMAIN tasks :
                 /\ k \in Id /\ tasks[k] \in TaskRow
                 /\ tasks[k].uuid \in 1 .. MaxUuid /\ tasks[k].hidden \in {0, 2}
                 /\ tasks[k].refs \in [TaskSlots -> Ref]
<1>1. DOMAIN tasks \subseteq Id /\ Bounded(DOMAIN tasks)
      /\ \A k \in DOMAIN tasks : tasks[k] \in TaskRow
  BY DEF Types, TasksOK
<1>2. NextId(tasks) \in Id /\ \A i \in DOMAIN tasks : i < NextId(tasks)
  BY <1>1, MaxBounded DEF NextId
<1>3. NextId(tasks) \notin DOMAIN tasks
  <2> SUFFICES ASSUME NextId(tasks) \in DOMAIN tasks PROVE FALSE
    OBVIOUS
  <2> DEFINE n == NextId(tasks)
  <2>1. n < n /\ n \in Nat
    BY <1>2 DEF Id
  <2> HIDE DEF n
  <2> QED
    BY <2>1
<1> QED
  BY <1>1, <1>2, <1>3 DEF TaskRow

\* The table of tasks changes in one row.
LEMMA ChangedTasks ==
    ASSUME NEW rows, TasksOK(rows), NEW more, NEW k \in Id,
           DOMAIN more \subseteq DOMAIN rows \cup {k},
           \A j \in DOMAIN more : \/ j \in DOMAIN rows /\ more[j] = rows[j]
                                  \/ j = k /\ more[j] \in TaskRow
    PROVE  TasksOK(more)
<1>1. Bounded(DOMAIN rows \cup {k})
  BY BoundedMore DEF TasksOK, Id
<1>2. Bounded(DOMAIN more)
  BY <1>1, BoundedLess
<1> QED
  BY <1>2 DEF TasksOK

LEMMA TaskStepTypes ==
    ASSUME Types, NEW k \in Id, TaskChanged(k),
           new' = new \/ (new > 0 /\ new' = new - 1),
           UNCHANGED << table, trash, commands >>,
           tag_resources' \subseteq Link, permissions' \subseteq Link,
           \A l \in permissions' :
              \/ l \in permissions
              \/ /\ l.type = "task" /\ l.loc = "table"
                 /\ l.id \in DOMAIN tasks' \ DOMAIN tasks /\ l.to = tasks'[l.id].uuid,
           session' \in Session
    PROVE  TaskStep /\ Types'
<1>1. TasksOK(tasks')
  <2>1. TasksOK(tasks)
    BY DEF Types
  <2>2. /\ DOMAIN tasks' = DOMAIN tasks \cup {k} /\ tasks'[k] \in TaskRow
        /\ \A j \in DOMAIN tasks \ {k} : tasks'[j] = tasks[j]
    BY DEF TaskChanged
  <2> QED
    BY <2>1, <2>2, ChangedTasks
<1>2. new' \in 0 .. MaxNew
  BY NewUuidType DEF Types
<1>3. Types'
  BY <1>1, <1>2 DEF Types
<1> QED
  BY <1>3 DEF TaskStep

LEMMA make_task_Tasks == Types /\ make_task => TaskStep /\ Types'
<1> SUFFICES ASSUME Types, make_task PROVE TaskStep /\ Types'
  OBVIOUS
<1> DEFINE k == NextId(tasks)
           row == [uuid |-> NewUuid, hidden |-> 0,
                   refs |-> [s \in TaskSlots |-> NoRef]]
<1>1. new > 0 /\ new' = new - 1 /\ UNCHANGED << table, trash, links, session, commands >>
  BY DEF make_task, Make
<1>2. tasks' = With(tasks, k, row)
  BY DEF make_task
<1>3. k \in Id /\ k \notin DOMAIN tasks
  BY TaskRows
<1>4. NewUuid \in 1 .. MaxUuid
  BY <1>1, NewUuidType DEF Types
<1>5. /\ row \in TaskRow /\ row.uuid = NewUuid /\ row.hidden = 0
      /\ \A s \in TaskSlots : row.refs[s] = NoRef
  BY <1>4, NoRefType DEF TaskRow
<1> HIDE DEF k, row
<1>6. /\ DOMAIN tasks' = DOMAIN tasks \cup {k} /\ tasks'[k] = row
      /\ \A j \in DOMAIN tasks \ {k} : tasks'[j] = tasks[j]
  BY <1>2 DEF With
<1>7. TaskChanged(k)
  BY <1>1, <1>3, <1>5, <1>6 DEF TaskChanged, NewTaskRef
<1>8. /\ new' = new \/ (new > 0 /\ new' = new - 1)
      /\ UNCHANGED << table, trash, commands, permissions >>
      /\ tag_resources' \subseteq Link /\ permissions' \subseteq Link
      /\ session' \in Session
  BY <1>1 DEF links, Types
<1> QED
  BY <1>3, <1>7, <1>8, TaskStepTypes

LEMMA FindForTask_Grows == Types /\ FindForTask => GrowStep /\ Types'
<1> SUFFICES ASSUME Types, FindForTask PROVE GrowStep /\ Types'
  OBVIOUS
<1>0. PICK k \in DOMAIN tasks, s \in TaskSlots :
          \E i \in DOMAIN table[s] :
              session' = [what |-> "set", task |-> k, slot |-> s, id |-> i]
  BY DEF FindForTask
<1>1. PICK i \in DOMAIN table[s] :
          session' = [what |-> "set", task |-> k, slot |-> s, id |-> i]
  BY <1>0
<1>2. k \in Id /\ s \in Type
  BY TaskRows DEF TaskSlots, Type
<1>3. i \in Id
  BY <1>2, TableRows
<1>4. session' \in Session
  BY <1>1, <1>2, <1>3 DEF Session
<1>5. UNCHANGED table /\ OthersStep
  BY <1>4 DEF FindForTask, Make, links, OthersStep, Types
<1> QED
  BY <1>5, IdleStep

\* A reference of a task is set.
SetRef(k, s, ref) == tasks' = [tasks EXCEPT ![k].refs[s] = ref]

LEMMA SetRefTasks ==
    ASSUME Types, NEW k \in DOMAIN tasks, NEW s \in TaskSlots, NEW ref \in Ref,
           NewTaskRef(k, s, ref), SetRef(k, s, ref),
           new' = new \/ (new > 0 /\ new' = new - 1),
           UNCHANGED << table, trash, links, commands >>, session' \in Session
    PROVE  TaskStep /\ Types'
<1> DEFINE r == tasks[k]
           refs == [r.refs EXCEPT ![s] = ref]
           q == [r EXCEPT !.refs = refs]
<1>1. r \in TaskRow /\ r.refs \in [TaskSlots -> Ref] /\ k \in Id
  BY TaskRows
<1>2. tasks' = [tasks EXCEPT ![k] = q]
  BY DEF SetRef
<1> HIDE DEF r
<1>3. refs \in [TaskSlots -> Ref] /\ refs[s] = ref
      /\ \A o \in TaskSlots \ {s} : refs[o] = r.refs[o]
  BY <1>1
<1> HIDE DEF refs
<1>4. q \in TaskRow /\ q.uuid = r.uuid /\ q.hidden = r.hidden /\ q.refs = refs
  BY <1>1, <1>3 DEF TaskRow
<1> HIDE DEF q
<1>5. /\ DOMAIN tasks' = DOMAIN tasks \cup {k} /\ tasks'[k] = q
      /\ \A j \in DOMAIN tasks \ {k} : tasks'[j] = tasks[j]
  BY <1>2
<1>6. \A o \in TaskSlots : NewTaskRef(k, o, q.refs[o])
  <2> TAKE o \in TaskSlots
  <2>1. CASE o = s
    BY <1>3, <1>4, <2>1
  <2>2. CASE o # s
    BY <1>3, <1>4, <2>2 DEF NewTaskRef, r
  <2> QED
    BY <2>1, <2>2
<1>7. TaskChanged(k)
  BY <1>4, <1>5, <1>6 DEF TaskChanged, r
<1>8. /\ UNCHANGED << table, trash, commands, permissions >>
      /\ tag_resources' \subseteq Link /\ permissions' \subseteq Link
  BY DEF links, Types
<1> QED
  BY <1>1, <1>7, <1>8, TaskStepTypes

\* The task has gone.
LEMMA IdleTasks ==
    ASSUME Types, UNCHANGED << table, trash, tasks, links, new, commands >>,
           session' \in Session
    PROVE  TaskStep /\ Types'
BY DEF TaskStep, Types, links

LEMMA MeantType ==
    ASSUME Types, NEW s \in Type, NEW id, NEW loc
    PROVE  /\ Meant(s, id, loc) \in 0 .. MaxUuid
           /\ \/ Meant(s, id, loc) = 0
              \/ /\ loc = "table" /\ id \in DOMAIN table[s]
                 /\ Meant(s, id, loc) = table[s][id].uuid
<1>1. CASE loc = "table" /\ id \in DOMAIN table[s]
  <2>1. table[s][id].uuid \in 1 .. MaxUuid
    BY <1>1, TableRows
  <2>2. table[s][id].uuid \in 0 .. MaxUuid
    BY <2>1, Constants DEF MaxUuid
  <2> QED
    BY <1>1, <2>2 DEF Meant, find_resource
<1>2. CASE ~(loc = "table" /\ id \in DOMAIN table[s])
  <2>1. Meant(s, id, loc) = 0
    BY <1>2 DEF Meant, find_resource
  <2> QED
    BY <2>1, Constants DEF MaxUuid
<1> QED
  BY <1>1, <1>2

LEMMA set_task_ref_Tasks == Types /\ set_task_ref => TaskStep /\ Types'
<1> SUFFICES ASSUME Types, set_task_ref PROVE TaskStep /\ Types'
  OBVIOUS
<1> DEFINE k == session.task
           s == session.slot
           loc == tasks[k].refs[s].loc
           ref == [id |-> session.id, loc |-> loc, to |-> Meant(s, session.id, loc)]
<1>1. /\ session' \in Session /\ new' = new
      /\ UNCHANGED << table, trash, links, new, commands >>
  BY NoSessionType DEF set_task_ref
<1>2. k \in Id /\ session.id \in Id /\ s \in TaskSlots
  BY SessionFields DEF set_task_ref, Types
<1>3. CASE tasks' = tasks
  BY <1>1, <1>3, IdleTasks
<1>4. CASE k \in DOMAIN tasks /\ SetRef(k, s, ref)
  <2>1. s \in Type
    BY <1>2 DEF TaskSlots, Type
  <2>2. loc \in Location
    BY <1>2, <1>4, TaskRows, RefFields
  <2> HIDE DEF k, s, loc
  <2>3. /\ Meant(s, session.id, loc) \in 0 .. MaxUuid
        /\ \/ Meant(s, session.id, loc) = 0
           \/ /\ loc = "table" /\ session.id \in DOMAIN table[s]
              /\ Meant(s, session.id, loc) = table[s][session.id].uuid
    BY <2>1, MeantType
  <2>4. ref \in Ref
    BY <1>2, <2>2, <2>3 DEF Ref
  <2>5. ref.id = session.id /\ ref.loc = loc /\ ref.to = Meant(s, session.id, loc)
    OBVIOUS
  <2> HIDE DEF ref
  <2>6. NewTaskRef(k, s, ref)
    BY <1>4, <2>3, <2>5 DEF NewTaskRef, loc
  <2> QED
    BY <1>1, <1>2, <1>4, <2>4, <2>6, SetRefTasks
<1>5. tasks' = IF k \notin DOMAIN tasks THEN tasks
               ELSE [tasks EXCEPT ![k].refs[s] = ref]
  BY DEF set_task_ref
<1> HIDE DEF ref
<1> QED
  BY <1>3, <1>4, <1>5 DEF SetRef

LEMMA add_task_alert_Tasks == Types /\ add_task_alert => TaskStep /\ Types'
<1> SUFFICES ASSUME Types, add_task_alert PROVE TaskStep /\ Types'
  OBVIOUS
<1> DEFINE k == session.task
           ref == [id |-> session.id, loc |-> "table",
                   to |-> Meant("alert", session.id, "table")]
<1>1. /\ session' \in Session /\ new' = new
      /\ UNCHANGED << table, trash, links, new, commands >>
  BY NoSessionType DEF add_task_alert
<1>2. k \in Id /\ session.id \in Id
  BY SessionFields DEF add_task_alert, Types
<1>3. CASE tasks' = tasks
  BY <1>1, <1>3, IdleTasks
<1>4. CASE k \in DOMAIN tasks /\ SetRef(k, "alert", ref)
  <2>1. "alert" \in Type /\ "alert" \in TaskSlots
    BY DEF TaskSlots, Type
  <2> HIDE DEF k
  <2>3. /\ Meant("alert", session.id, "table") \in 0 .. MaxUuid
        /\ \/ Meant("alert", session.id, "table") = 0
           \/ /\ session.id \in DOMAIN table["alert"]
              /\ Meant("alert", session.id, "table") = table["alert"][session.id].uuid
    BY <2>1, MeantType
  <2>4. ref \in Ref
    BY <1>2, <2>3 DEF Ref, Location
  <2>5. ref.id = session.id /\ ref.loc = "table"
        /\ ref.to = Meant("alert", session.id, "table")
    OBVIOUS
  <2> HIDE DEF ref
  <2>6. NewTaskRef(k, "alert", ref)
    BY <1>4, <2>3, <2>5 DEF NewTaskRef
  <2> QED
    BY <1>1, <1>2, <1>4, <2>1, <2>4, <2>6, SetRefTasks
<1>5. tasks' = IF k \notin DOMAIN tasks THEN tasks
               ELSE [tasks EXCEPT ![k].refs["alert"] = ref]
  BY DEF add_task_alert
<1> HIDE DEF ref
<1> QED
  BY <1>3, <1>4, <1>5 DEF SetRef

LEMMA set_task_alerts_Tasks == Types /\ set_task_alerts => TaskStep /\ Types'
<1> SUFFICES ASSUME Types, set_task_alerts PROVE TaskStep /\ Types'
  OBVIOUS
<1>1. /\ session' \in Session /\ new > 0 /\ new' = new - 1
      /\ UNCHANGED << table, trash, links, commands >>
  BY DEF set_task_alerts, Make, Types
<1>2. PICK k \in DOMAIN tasks, i \in MayRefer("alert") :
          SetRef(k, "alert", To("alert", i))
  BY DEF set_task_alerts, SetRef
<1> DEFINE ref == To("alert", i)
<1>3. "alert" \in Type /\ "alert" \in TaskSlots
  BY DEF TaskSlots, Type
<1>4. /\ ref \in Ref /\ ref.loc = "table"
      /\ \/ ref = NoRef
         \/ /\ ref.id \in DOMAIN table["alert"]
            /\ ref.to = table["alert"][ref.id].uuid
  BY <1>3, ToType
<1>5. NewTaskRef(k, "alert", ref)
  <2> HIDE DEF ref
  <2> QED
    BY <1>4 DEF NewTaskRef
<1> HIDE DEF ref
<1>6. SetRef(k, "alert", ref)
  BY <1>2 DEF ref
<1> QED
  BY <1>1, <1>3, <1>4, <1>5, <1>6, SetRefTasks

LEMMA copy_task_Tasks == Types /\ copy_task => TaskStep /\ Types'
<1> SUFFICES ASSUME Types, copy_task PROVE TaskStep /\ Types'
  OBVIOUS
<1> DEFINE id == NextId(tasks)
           Copies(set, k) == { [l EXCEPT !.id = id, !.to = NewUuid] :
                               l \in { l \in set : l.type = "task" /\ l.id = k
                                                     /\ l.loc = "table" } }
<1>1. new > 0 /\ new' = new - 1 /\ UNCHANGED << table, trash, session, commands >>
  BY DEF copy_task, Make
<1>2. PICK k \in DOMAIN tasks :
          /\ tasks[k].hidden = 0
          /\ tasks' = With(tasks, id, [tasks[k] EXCEPT !.uuid = NewUuid])
          /\ tag_resources' = tag_resources \cup Copies(tag_resources, k)
          /\ permissions' = permissions \cup Copies(permissions, k)
  BY DEF copy_task
<1>3. id \in Id /\ id \notin DOMAIN tasks /\ tasks[k] \in TaskRow
  BY TaskRows
<1>4. NewUuid \in 1 .. MaxUuid
  BY <1>1, NewUuidType DEF Types
<1> DEFINE r == tasks[k]
           q == [r EXCEPT !.uuid = NewUuid]
<1> HIDE DEF r, id
<1>5. q \in TaskRow /\ q.uuid = NewUuid /\ q.hidden = r.hidden /\ q.refs = r.refs
  BY <1>3, <1>4 DEF TaskRow, r
<1> HIDE DEF q
<1>6. /\ DOMAIN tasks' = DOMAIN tasks \cup {id} /\ tasks'[id] = q
      /\ \A j \in DOMAIN tasks \ {id} : tasks'[j] = tasks[j]
  BY <1>2 DEF With, r, q
<1>7. TaskChanged(id)
  <2>1. \A s \in TaskSlots : NewTaskRef(id, s, q.refs[s])
    BY <1>2, <1>5 DEF NewTaskRef, r
  <2> QED
    BY <1>1, <1>2, <1>3, <1>5, <1>6, <2>1 DEF TaskChanged, r
<1>8. \A set \in SUBSET Link : \A l \in Copies(set, k) :
          /\ l \in Link /\ l.type = "task" /\ l.loc = "table"
          /\ l.id = id /\ l.to = NewUuid
  <2> TAKE set \in SUBSET Link
  <2> TAKE l \in Copies(set, k)
  <2>1. PICK m \in set : m.type = "task" /\ m.loc = "table"
                         /\ l = [m EXCEPT !.id = id, !.to = NewUuid]
    OBVIOUS
  <2>2. m \in Link
    OBVIOUS
  <2> QED
    BY <1>3, <1>4, <2>1, <2>2 DEF Link
<1> HIDE DEF Copies
<1>9. tag_resources \in SUBSET Link /\ permissions \in SUBSET Link
  BY DEF Types
<1>10. tag_resources' \subseteq Link /\ permissions' \subseteq Link
  BY <1>2, <1>8, <1>9
<1>11. \A l \in permissions' :
              \/ l \in permissions
              \/ /\ l.type = "task" /\ l.loc = "table"
                 /\ l.id \in DOMAIN tasks' \ DOMAIN tasks /\ l.to = tasks'[l.id].uuid
  BY <1>2, <1>3, <1>5, <1>6, <1>8, <1>9
<1>12. session' \in Session /\ UNCHANGED << table, trash, commands >>
  BY <1>1 DEF Types
<1> QED
  BY <1>1, <1>3, <1>7, <1>10, <1>11, <1>12, TaskStepTypes

LEMMA TaskCommand_Tasks ==
    Types /\ TaskCommand => (GrowStep \/ TaskStep) /\ Types'
BY make_task_Tasks, FindForTask_Grows, set_task_ref_Tasks, add_task_alert_Tasks,
   set_task_alerts_Tasks, copy_task_Tasks DEF TaskCommand

-----------------------------------------------------------------------------
(***************************************************************************)
(* Steps that move a resource to the trashcan (loc is "trash") or back to  *)
(* the table (loc is "table"), where it gets the id.                       *)
(***************************************************************************)
FollowRef(ref, i, id, loc) ==
    IF ref.id = i /\ ref.loc = Other(loc)
    THEN [id |-> id, loc |-> loc, to |-> ref.to] ELSE ref
RowFollows(old, row, u, t, i, id, loc) ==
    /\ row.uuid = old.uuid
    /\ \A s \in Slots(u) : row.refs[s].to = old.refs[s].to
    /\ \A s \in Slots(u) \ {"scanner"} :
          row.refs[s] = IF s = t THEN FollowRef(old.refs[s], i, id, loc)
                        ELSE old.refs[s]
TasksFollow(t, i, id, loc) ==
    /\ DOMAIN tasks' = DOMAIN tasks
    /\ \A k \in DOMAIN tasks :
          /\ tasks'[k].uuid = tasks[k].uuid /\ tasks'[k].hidden = tasks[k].hidden
          /\ \A s \in TaskSlots :
                /\ tasks'[k].refs[s].to = tasks[k].refs[s].to
                /\ s # t => tasks'[k].refs[s] = tasks[k].refs[s]
                /\ s = t /\ t # "target" =>
                      tasks'[k].refs[s] = FollowRef(tasks[k].refs[s], i, id, loc)
                /\ tasks[k].hidden = 0 /\ tasks[k].refs[s].loc = "table" =>
                      tasks'[k].refs[s].loc = "table"
LinkFollows(m, l, t, i, id, loc) ==
    /\ l.type = m.type /\ l.to = m.to
    /\ IF m.type = t /\ m.id = i /\ m.loc = Other(loc)
       THEN l.id = id /\ l.loc = loc ELSE l.id = m.id /\ l.loc = m.loc
PermissionsFollow(t, i, id, loc) ==
    \A l \in permissions' : l.type # "target" =>
        \E m \in permissions : LinkFollows(m, l, t, i, id, loc)

ToTrashStep(t, i, id) ==
    /\ t \in Type /\ i \in DOMAIN table[t] /\ id \in Id \ DOMAIN trash[t]
    /\ \A u \in Type :
          /\ DOMAIN table'[u] = DOMAIN table[u] \ (IF u = t THEN {i} ELSE {})
          /\ \A j \in DOMAIN table'[u] : table'[u][j] = table[u][j]
          /\ DOMAIN trash'[u] = DOMAIN trash[u] \cup (IF u = t THEN {id} ELSE {})
          /\ \A j \in DOMAIN trash[u] :
                RowFollows(trash[u][j], trash'[u][j], u, t, i, id, "trash")
          /\ t \in Slots(u) \ {"scanner"} =>
                \A j \in DOMAIN table[u] : table[u][j].refs[t].id # i
    /\ trash'[t][id].uuid = table[t][i].uuid /\ trash'[t][id].refs = table[t][i].refs
    /\ TasksFollow(t, i, id, "trash")
    /\ PermissionsFollow(t, i, id, "trash")
    /\ UNCHANGED new

ToTableStep(t, i, id) ==
    /\ t \in Type /\ i \in DOMAIN trash[t] /\ id \in Id \ DOMAIN table[t]
    /\ \A u \in Type :
          /\ DOMAIN trash'[u] = DOMAIN trash[u] \ (IF u = t THEN {i} ELSE {})
          /\ \A j \in DOMAIN trash'[u] :
                RowFollows(trash[u][j], trash'[u][j], u, t, i, id, "table")
          /\ DOMAIN table'[u] = DOMAIN table[u] \cup (IF u = t THEN {id} ELSE {})
          /\ \A j \in DOMAIN table[u] : table'[u][j] = table[u][j]
    /\ table'[t][id].uuid = trash[t][i].uuid /\ table'[t][id].refs = trash[t][i].refs
    /\ table'[t][id].name = trash[t][i].name
    /\ NameFree(t, trash[t][i].name, 0)
    /\ TasksFollow(t, i, id, "table")
    /\ PermissionsFollow(t, i, id, "table")
    /\ UNCHANGED new

\* The trash tables after the rows there have followed.
TrashFollows(others, t, i, id, loc) ==
    /\ TablesOK(others, Location) /\ others[t] = trash[t]
    /\ \A u \in Type :
          /\ DOMAIN others[u] = DOMAIN trash[u]
          /\ \A j \in DOMAIN trash[u] :
                RowFollows(trash[u][j], others[u][j], u, t, i, id, loc)

\* Only configs, which are left out, refer to these.
LEMMA NothingFollows ==
    ASSUME Types, NEW t \in {"target", "config", "schedule", "alert", "scanner"},
           NEW i, NEW id, NEW loc
    PROVE  TrashFollows(trash, t, i, id, loc)
<1>1. \A u \in Type : \A s \in Slots(u) \ {"scanner"} : s # t
  BY DEF Type, Slots
<1> QED
  BY <1>1 DEF TrashFollows, Types, RowFollows

\* The rows of one type follow.
LEMMA FollowedRows ==
    ASSUME NEW rows, NEW u, RowsOK(rows, u, Location), NEW t \in Slots(u),
           NEW i, NEW id \in Id, NEW loc \in Location
    PROVE  LET more == Follow(rows, t, i, id, loc) IN
           /\ RowsOK(more, u, Location) /\ DOMAIN more = DOMAIN rows
           /\ \A j \in DOMAIN rows : RowFollows(rows[j], more[j], u, t, i, id, loc)
<1> DEFINE more == Follow(rows, t, i, id, loc)
<1>1. DOMAIN more = DOMAIN rows
  BY DEF Follow
<1>2. ASSUME NEW j \in DOMAIN rows
      PROVE  /\ RowOK(more[j], u, Location) /\ more[j].sub = rows[j].sub
             /\ RowFollows(rows[j], more[j], u, t, i, id, loc)
  <2> DEFINE r == rows[j]
             q == Followed(r, t, id, loc)
  <2>1. RowOK(r, u, Location)
    BY DEF RowsOK
  <2>2. more[j] = IF r.refs[t].id = i /\ r.refs[t].loc = Other(loc) THEN q ELSE r
    BY DEF Follow, Followed
  <2> HIDE DEF r, more
  <2>3. CASE ~(r.refs[t].id = i /\ r.refs[t].loc = Other(loc))
    <3>1. more[j] = r
      BY <2>2, <2>3
    <3>2. \A s \in Slots(u) : s = t => FollowRef(r.refs[s], i, id, loc) = r.refs[s]
      BY <2>3 DEF FollowRef
    <3>3. RowFollows(r, more[j], u, t, i, id, loc)
      BY <3>1, <3>2 DEF RowFollows
    <3> QED
      BY <2>1, <3>1, <3>3 DEF r
  <2>4. CASE r.refs[t].id = i /\ r.refs[t].loc = Other(loc)
    <3> DEFINE ref == [id |-> id, loc |-> loc, to |-> r.refs[t].to]
    <3>1. r \in Row(u)
      BY <2>1 DEF RowOK
    <3>2. /\ q \in Row(u) /\ q.sub = r.sub /\ q.uuid = r.uuid
          /\ q.name = r.name /\ q.data = r.data /\ q.refs[t] = ref
          /\ \A o \in Slots(u) \ {t} : q.refs[o] = r.refs[o]
      BY <3>1, FollowedRow
    <3>3. more[j] = q
      BY <2>2, <2>4
    <3> HIDE DEF q
    <3>4. ref.loc = loc /\ ref.to = r.refs[t].to /\ FollowRef(r.refs[t], i, id, loc) = ref
      BY <2>4 DEF FollowRef
    <3> HIDE DEF ref
    <3>5. RowOK(q, u, Location)
      BY <2>1, <3>2, <3>4 DEF RowOK
    <3>6. RowFollows(r, q, u, t, i, id, loc)
      BY <3>2, <3>4 DEF RowFollows
    <3> QED
      BY <3>2, <3>3, <3>5, <3>6 DEF r
  <2> QED
    BY <2>3, <2>4
<1> HIDE DEF more
<1>3. RowsOK(more, u, Location)
  BY <1>1, <1>2, MappedRows
<1> QED
  BY <1>1, <1>2, <1>3 DEF more

LEMMA FollowInTrash ==
    ASSUME Types, NEW t \in Type, NEW types, types = {u \in Type : t \in Slots(u)},
           NEW i, NEW id \in Id, NEW loc \in Location
    PROVE  TrashFollows(FollowIn(types, t, i, id, loc), t, i, id, loc)
<1> DEFINE others == FollowIn(types, t, i, id, loc)
<1>1. DOMAIN others = Type
  BY DEF FollowIn
<1>2. ASSUME NEW u \in Type
      PROVE  /\ RowsOK(others[u], u, Location) /\ DOMAIN others[u] = DOMAIN trash[u]
             /\ \A j \in DOMAIN trash[u] :
                   RowFollows(trash[u][j], others[u][j], u, t, i, id, loc)
             /\ u = t => others[u] = trash[u]
  <2>1. RowsOK(trash[u], u, Location)
    BY TrashRows
  <2>2. CASE u \in types
    <3> DEFINE rows == trash[u]
               more == Follow(rows, t, i, id, loc)
    <3>1. others[u] = more
      BY <2>2 DEF FollowIn
    <3>2. t \in Slots(u) /\ u # t
      BY <2>2, SlotsAreTypes
    <3>3. RowsOK(rows, u, Location)
      BY <2>1
    <3> HIDE DEF others, rows
    <3>4. /\ RowsOK(more, u, Location) /\ DOMAIN more = DOMAIN rows
          /\ \A j \in DOMAIN rows : RowFollows(rows[j], more[j], u, t, i, id, loc)
      BY <3>2, <3>3, FollowedRows
    <3> HIDE DEF more
    <3> QED
      BY <3>1, <3>2, <3>4 DEF rows
  <2>3. CASE u \notin types
    <3>1. others[u] = trash[u] /\ t \notin Slots(u)
      BY <2>3 DEF FollowIn
    <3> HIDE DEF others
    <3> QED
      BY <2>1, <3>1 DEF RowFollows
  <2> QED
    BY <2>2, <2>3
<1> HIDE DEF others
<1>3. TrashFollows(others, t, i, id, loc)
  BY <1>1, <1>2 DEF TrashFollows, TablesOK
<1> QED
  BY <1>3 DEF others

LEMMA ConfigsFollowInTrash ==
    ASSUME Types, NEW i, NEW id \in Id
    PROVE  TrashFollows(ConfigsFollow(i, id), "scanner", i, id, "trash")
<1> DEFINE others == ConfigsFollow(i, id)
           rows == trash["config"]
<1>1. /\ "config" \in Type /\ Slots("config") = {"scanner"} /\ "trash" \in Location
      /\ DOMAIN trash = Type
  BY SlotsOf DEF Type, Location, Types, TablesOK
<1>2. /\ DOMAIN others = Type /\ \A u \in Type \ {"config"} : others[u] = trash[u]
      /\ DOMAIN others["config"] = DOMAIN rows
      /\ \A c \in DOMAIN rows :
            others["config"][c] = IF rows[c].refs["scanner"].id = i
                                  THEN Followed(rows[c], "scanner", id, "trash")
                                  ELSE rows[c]
  BY <1>1 DEF ConfigsFollow, Followed
<1>3. RowsOK(rows, "config", Location)
  BY <1>1, TrashRows
<1> DEFINE more == others["config"]
<1> HIDE DEF others, rows
<1>4. ASSUME NEW c \in DOMAIN rows
      PROVE  /\ RowOK(more[c], "config", Location) /\ more[c].sub = rows[c].sub
             /\ RowFollows(rows[c], more[c], "config", "scanner", i, id, "trash")
  <2> DEFINE r == rows[c]
             q == Followed(r, "scanner", id, "trash")
             ref == [id |-> id, loc |-> "trash", to |-> r.refs["scanner"].to]
  <2>1. RowOK(r, "config", Location)
    BY <1>3 DEF RowsOK
  <2>2. more[c] = r \/ more[c] = q
    BY <1>2
  <2> HIDE DEF r, more
  <2>3. r \in Row("config")
    BY <2>1 DEF RowOK
  <2>4. /\ q \in Row("config") /\ q.sub = r.sub /\ q.uuid = r.uuid
        /\ q.refs["scanner"] = ref
    BY <1>1, <2>3, FollowedRow
  <2> HIDE DEF q
  <2>5. ref.loc = "trash" /\ ref.to = r.refs["scanner"].to
    OBVIOUS
  <2> HIDE DEF ref
  <2>6. RowOK(q, "config", Location)
    BY <1>1, <2>4, <2>5 DEF RowOK
  <2>7. RowFollows(r, q, "config", "scanner", i, id, "trash")
        /\ RowFollows(r, r, "config", "scanner", i, id, "trash")
    BY <1>1, <2>4, <2>5 DEF RowFollows
  <2> QED
    BY <2>1, <2>2, <2>4, <2>6, <2>7 DEF r
<1>5. DOMAIN more = DOMAIN rows
  BY <1>2
<1> HIDE DEF more
<1>6. RowsOK(more, "config", Location)
  BY <1>3, <1>4, <1>5, MappedRows
<1>7. \A u \in Type \ {"config"} :
          /\ RowsOK(others[u], u, Location) /\ DOMAIN others[u] = DOMAIN trash[u]
          /\ \A j \in DOMAIN trash[u] :
                RowFollows(trash[u][j], others[u][j], u, "scanner", i, id, "trash")
  BY <1>2 DEF RowFollows, Types, TablesOK
<1>8. \A u \in Type :
          /\ RowsOK(others[u], u, Location) /\ DOMAIN others[u] = DOMAIN trash[u]
          /\ \A j \in DOMAIN trash[u] :
                RowFollows(trash[u][j], others[u][j], u, "scanner", i, id, "trash")
  BY <1>4, <1>5, <1>6, <1>7 DEF more, rows
<1>9. TrashFollows(others, "scanner", i, id, "trash")
  BY <1>2, <1>8 DEF TrashFollows, TablesOK, Type
<1> QED
  BY <1>9 DEF others

\* The links follow.
LEMMA LinkSets ==
    ASSUME NEW set \in SUBSET Link, NEW t, NEW i, NEW id \in Id, NEW loc \in Location
    PROVE  \A l \in set_locations(set, t, i, id, loc) :
              l \in Link /\ \E m \in set : LinkFollows(m, l, t, i, id, loc)
<1> TAKE l \in set_locations(set, t, i, id, loc)
<1>1. PICK m \in set : l = IF m.type = t /\ m.id = i /\ m.loc = Other(loc)
                           THEN [m EXCEPT !.id = id, !.loc = loc] ELSE m
  BY DEF set_locations
<1>2. m \in Link
  OBVIOUS
<1>3. CASE m.type = t /\ m.id = i /\ m.loc = Other(loc)
  <2>1. l = [m EXCEPT !.id = id, !.loc = loc]
    BY <1>1, <1>3
  <2>2. l \in Link /\ l.type = m.type /\ l.to = m.to /\ l.id = id /\ l.loc = loc
    BY <1>2, <2>1 DEF Link
  <2> QED
    BY <1>3, <2>2 DEF LinkFollows
<1>4. CASE ~(m.type = t /\ m.id = i /\ m.loc = Other(loc))
  BY <1>1, <1>2, <1>4 DEF LinkFollows
<1> QED
  BY <1>3, <1>4

LEMMA PermissionsFollowSet ==
    ASSUME Types, NEW t, NEW i, NEW id \in Id, NEW loc \in Location,
           permissions_set_locations(t, i, id, loc)
    PROVE  PermissionsFollow(t, i, id, loc) /\ permissions' \subseteq Link
<1>1. permissions \in SUBSET Link
  BY DEF Types
<1>2. permissions' = set_locations(permissions, t, i, id, loc)
  BY DEF permissions_set_locations
<1> QED
  BY <1>1, <1>2, LinkSets DEF PermissionsFollow

LEMMA TagsFollowSet ==
    ASSUME Types, NEW t, NEW i, NEW id \in Id, NEW loc \in Location,
           tags_set_locations(t, i, id, loc)
    PROVE  tag_resources' \subseteq Link
<1>1. tag_resources \in SUBSET Link
  BY DEF Types
<1>2. tag_resources' = set_locations(tag_resources, t, i, id, loc)
  BY DEF tags_set_locations
<1> QED
  BY <1>1, <1>2, LinkSets

\* The tasks follow.
LEMMA FollowedTasks ==
    ASSUME Types, NEW t \in TaskSlots, NEW i, NEW id \in Id, NEW loc \in Location,
           tasks' = Follow(tasks, t, i, id, loc),
           loc = "trash" => ~LiveRefers(t, i)
    PROVE  /\ TasksOK(tasks') /\ DOMAIN tasks' = DOMAIN tasks
           /\ \A k \in DOMAIN tasks :
                 /\ tasks'[k].uuid = tasks[k].uuid
                 /\ tasks'[k].hidden = tasks[k].hidden
                 /\ \A s \in TaskSlots :
                       tasks'[k].refs[s] =
                           IF s = t THEN FollowRef(tasks[k].refs[s], i, id, loc)
                           ELSE tasks[k].refs[s]
                 /\ \A s \in TaskSlots :
                       /\ tasks'[k].refs[s].to = tasks[k].refs[s].to
                       /\ tasks[k].hidden = 0 /\ tasks[k].refs[s].loc = "table" =>
                             tasks'[k].refs[s].loc = "table"
<1>1. DOMAIN tasks' = DOMAIN tasks
  BY DEF Follow
<1>2. ASSUME NEW k \in DOMAIN tasks
      PROVE  /\ tasks'[k] \in TaskRow /\ tasks'[k].uuid = tasks[k].uuid
             /\ tasks'[k].hidden = tasks[k].hidden
             /\ \A s \in TaskSlots :
                   tasks'[k].refs[s] =
                       IF s = t THEN FollowRef(tasks[k].refs[s], i, id, loc)
                       ELSE tasks[k].refs[s]
  <2> DEFINE r == tasks[k]
             ref == [id |-> id, loc |-> loc, to |-> r.refs[t].to]
             refs == [r.refs EXCEPT ![t] = ref]
  <2>1. r \in TaskRow /\ r.refs \in [TaskSlots -> Ref] /\ r.refs[t] \in Ref
    BY TaskRows
  <2>2. tasks'[k] = IF r.refs[t].id = i /\ r.refs[t].loc = Other(loc)
                    THEN Followed(r, t, id, loc) ELSE r
    BY DEF Follow, Followed
  <2> HIDE DEF r
  <2>3. CASE ~(r.refs[t].id = i /\ r.refs[t].loc = Other(loc))
    <3>1. tasks'[k] = r
      BY <2>2, <2>3
    <3>2. FollowRef(r.refs[t], i, id, loc) = r.refs[t]
      BY <2>3 DEF FollowRef
    <3> QED
      BY <2>1, <3>1, <3>2 DEF r
  <2>4. CASE r.refs[t].id = i /\ r.refs[t].loc = Other(loc)
    <3>1. ref \in Ref /\ FollowRef(r.refs[t], i, id, loc) = ref
      BY <2>1, <2>4, RefFields DEF Ref, FollowRef
    <3>2. [[r.refs[t] EXCEPT !.id = id] EXCEPT !.loc = loc] = ref
      BY <2>1, FollowedRef
    <3>3. [[r.refs EXCEPT ![t].id = id] EXCEPT ![t].loc = loc] = refs
      BY <2>1, <3>2
    <3>4. Followed(r, t, id, loc)
            = [r EXCEPT !.refs = [[r.refs EXCEPT ![t].id = id] EXCEPT ![t].loc = loc]]
      BY <2>1 DEF Followed, TaskRow
    <3>5. tasks'[k] = [r EXCEPT !.refs = refs]
      BY <2>2, <2>4, <3>3, <3>4
    <3> HIDE DEF ref
    <3>6. refs \in [TaskSlots -> Ref] /\ refs[t] = ref
          /\ \A s \in TaskSlots \ {t} : refs[s] = r.refs[s]
      BY <2>1, <3>1
    <3> HIDE DEF refs
    <3>7. /\ tasks'[k] \in TaskRow /\ tasks'[k].uuid = r.uuid
          /\ tasks'[k].hidden = r.hidden /\ tasks'[k].refs = refs
      BY <2>1, <3>5, <3>6 DEF TaskRow
    <3> QED
      BY <3>1, <3>6, <3>7 DEF r
  <2> QED
    BY <2>3, <2>4
<1>3. TasksOK(tasks')
  BY <1>1, <1>2 DEF TasksOK, Types
<1>4. ASSUME NEW k \in DOMAIN tasks, NEW s \in TaskSlots
      PROVE  /\ tasks'[k].refs[s].to = tasks[k].refs[s].to
             /\ tasks[k].hidden = 0 /\ tasks[k].refs[s].loc = "table" =>
                   tasks'[k].refs[s].loc = "table"
  <2> DEFINE ref == tasks[k].refs[s]
             new_ref == tasks'[k].refs[s]
  <2>1. s # t => new_ref = ref
    BY <1>2
  <2>2. s = t => new_ref = FollowRef(ref, i, id, loc)
    BY <1>2
  <2>3. s = t /\ loc = "trash" /\ tasks[k].hidden = 0 =>
            ~(ref.id = i /\ ref.loc = "table")
    BY DEF LiveRefers
  <2>4. Other("trash") = "table" /\ loc \in {"table", "trash"}
    BY DEF Other, Location
  <2> HIDE DEF ref, new_ref
  <2>5. /\ new_ref.to = ref.to
        /\ tasks[k].hidden = 0 /\ ref.loc = "table" => new_ref.loc = "table"
    BY <2>1, <2>2, <2>3, <2>4 DEF FollowRef
  <2> QED
    BY <2>5 DEF ref, new_ref
<1> QED
  BY <1>1, <1>2, <1>3, <1>4

LEMMA TasksFollowSet ==
    ASSUME Types, NEW t \in TaskSlots, NEW i, NEW id \in Id, NEW loc \in Location,
           tasks' = Follow(tasks, t, i, id, loc),
           loc = "trash" => ~LiveRefers(t, i)
    PROVE  /\ TasksOK(tasks') /\ TasksFollow(t, i, id, loc)
           /\ t = "target" => \A other \in Id : TasksFollow(t, i, other, loc)
<1>1. /\ TasksOK(tasks') /\ DOMAIN tasks' = DOMAIN tasks
      /\ \A k \in DOMAIN tasks :
                 /\ tasks'[k].uuid = tasks[k].uuid
                 /\ tasks'[k].hidden = tasks[k].hidden
                 /\ \A s \in TaskSlots :
                       tasks'[k].refs[s] =
                           IF s = t THEN FollowRef(tasks[k].refs[s], i, id, loc)
                           ELSE tasks[k].refs[s]
                 /\ \A s \in TaskSlots :
                       /\ tasks'[k].refs[s].to = tasks[k].refs[s].to
                       /\ tasks[k].hidden = 0 /\ tasks[k].refs[s].loc = "table" =>
                             tasks'[k].refs[s].loc = "table"
  BY FollowedTasks
<1> QED
  BY <1>1 DEF TasksFollow

LEMMA TasksStay ==
    ASSUME Types, NEW t \in Type \ TaskSlots, NEW i, NEW id, NEW loc, UNCHANGED tasks
    PROVE  TasksOK(tasks') /\ TasksFollow(t, i, id, loc)
BY DEF TasksFollow, Types

LEMMA TrashStep ==
    ASSUME Types, NEW t \in Type, NEW i \in DOMAIN table[t], NEW sub \in Nat,
           NEW others, NEW id, id = NextId(trash[t]),
           TrashFollows(others, t, i, id, "trash"), MoveToTrash(t, i, sub, others),
           \A u \in Type : t \in Slots(u) \ {"scanner"} =>
              \A j \in DOMAIN table[u] : table[u][j].refs[t].id # i,
           TasksOK(tasks'), TasksFollow(t, i, id, "trash"),
           PermissionsFollow(t, i, id, "trash"),
           permissions' \subseteq Link, tag_resources' \subseteq Link,
           Command, UNCHANGED session
    PROVE  ToTrashStep(t, i, id) /\ Types'
<1> DEFINE row == [table[t][i] EXCEPT !.sub = sub]
<1>1. id \in Id /\ id \notin DOMAIN trash[t]
  BY TrashRows
<1>2. i \in Id /\ RowOK(table[t][i], t, {"table"})
  BY TableRows
<1>3. /\ RowOK(row, t, Location) /\ row.uuid = table[t][i].uuid
      /\ row.refs = table[t][i].refs
  <2> DEFINE r == table[t][i]
  <2>1. RowOK(r, t, {"table"})
    BY <1>2
  <2> HIDE DEF r
  <2> DEFINE q == [r EXCEPT !.sub = sub]
  <2>2. q \in Row(t) /\ q.uuid = r.uuid /\ q.refs = r.refs
    BY <2>1 DEF RowOK, Row, Id
  <2>3. row = q
    BY DEF r
  <2> HIDE DEF q, row
  <2>4. RowOK(q, t, Location)
    BY <2>1, <2>2 DEF RowOK, Location
  <2> QED
    BY <2>2, <2>3, <2>4 DEF r
<1>4. others[t] = trash[t] /\ TablesOK(others, Location) /\ DOMAIN others = Type
  BY DEF TrashFollows, TablesOK
<1>5. table' = [table EXCEPT ![t] = Without(@, i)]
  BY DEF MoveToTrash
<1>6. trash' = [others EXCEPT ![t] = With(@, id, row)]
  BY <1>4 DEF MoveToTrash
<1> HIDE DEF row
<1>7. /\ DOMAIN table' = Type /\ \A u \in Type \ {t} : table'[u] = table[u]
      /\ DOMAIN table'[t] = DOMAIN table[t] \ {i}
      /\ \A j \in DOMAIN table'[t] : table'[t][j] = table[t][j]
  BY <1>5 DEF Without, Types, TablesOK
<1>8. /\ DOMAIN trash' = Type /\ \A u \in Type \ {t} : trash'[u] = others[u]
      /\ DOMAIN trash'[t] = DOMAIN trash[t] \cup {id} /\ trash'[t][id] = row
      /\ \A j \in DOMAIN trash[t] : trash'[t][j] = others[t][j]
  BY <1>1, <1>4, <1>6 DEF With
<1>9. TablesOK(table', {"table"})
  <2>1. TablesOK(table, {"table"})
    BY DEF Types
  <2> QED
    BY <1>2, <1>7, <2>1, ChangedTable
<1>10. TablesOK(trash', Location)
  BY <1>1, <1>3, <1>4, <1>8, ChangedTable
<1>11. Types'
  <2>1. new' = new /\ commands' \in 0 .. MaxCommands
    BY Constants DEF Types, Command
  <2> QED
    BY <1>9, <1>10, <2>1 DEF Types
<1>12. ASSUME NEW u \in Type
       PROVE  /\ DOMAIN table'[u] = DOMAIN table[u] \ (IF u = t THEN {i} ELSE {})
              /\ \A j \in DOMAIN table'[u] : table'[u][j] = table[u][j]
              /\ DOMAIN trash'[u] = DOMAIN trash[u] \cup (IF u = t THEN {id} ELSE {})
              /\ \A j \in DOMAIN trash[u] : trash'[u][j] = others[u][j]
  <2>1. DOMAIN others[u] = DOMAIN trash[u]
    BY DEF TrashFollows
  <2> QED
    BY <1>7, <1>8, <2>1
<1>13. \A u \in Type : \A j \in DOMAIN trash[u] :
          RowFollows(trash[u][j], trash'[u][j], u, t, i, id, "trash")
  BY <1>12 DEF TrashFollows
<1>14. ToTrashStep(t, i, id)
  BY <1>1, <1>3, <1>8, <1>12, <1>13 DEF ToTrashStep, Command
<1> QED
  BY <1>11, <1>14

LEMMA TableStepBack ==
    ASSUME Types, NEW t \in Type, NEW i \in DOMAIN trash[t], NEW sub \in Nat,
           NEW others, NEW id, id = NextId(table[t]),
           TrashFollows(others, t, i, id, "table"), MoveToTable(t, i, sub, others),
           TasksOK(tasks'), TasksFollow(t, i, id, "table"),
           PermissionsFollow(t, i, id, "table"),
           permissions' \subseteq Link, tag_resources' \subseteq Link,
           Command, UNCHANGED session
    PROVE  ToTableStep(t, i, id) /\ Types'
<1> DEFINE row == [trash[t][i] EXCEPT !.sub = sub]
<1>1. id \in Id /\ id \notin DOMAIN table[t]
  BY TableRows
<1>2. i \in Id /\ RowOK(trash[t][i], t, Location)
  BY TrashRows
<1>3. /\ RowOK(row, t, {"table"}) /\ row.uuid = trash[t][i].uuid
      /\ row.refs = trash[t][i].refs /\ row.name = trash[t][i].name
  <2> DEFINE r == trash[t][i]
  <2>1. RowOK(r, t, Location) /\ \A s \in Slots(t) : r.refs[s].loc # "trash"
    BY <1>2 DEF MoveToTable
  <2> HIDE DEF r
  <2> DEFINE q == [r EXCEPT !.sub = sub]
  <2>2. q \in Row(t) /\ q.uuid = r.uuid /\ q.refs = r.refs /\ q.name = r.name
    BY <2>1 DEF RowOK, Row, Id
  <2>3. row = q
    BY DEF r
  <2> HIDE DEF q, row
  <2>4. RowOK(q, t, {"table"})
    BY <2>1, <2>2 DEF RowOK, Location
  <2> QED
    BY <2>2, <2>3, <2>4 DEF r
<1>4. others[t] = trash[t] /\ TablesOK(others, Location) /\ DOMAIN others = Type
  BY DEF TrashFollows, TablesOK
<1>5. trash' = [others EXCEPT ![t] = Without(@, i)]
  BY DEF MoveToTable
<1>6. table' = [table EXCEPT ![t] = With(@, id, row)]
  BY DEF MoveToTable
<1> HIDE DEF row
<1>7. /\ DOMAIN trash' = Type /\ \A u \in Type \ {t} : trash'[u] = others[u]
      /\ DOMAIN trash'[t] = DOMAIN trash[t] \ {i}
      /\ \A j \in DOMAIN trash'[t] : trash'[t][j] = others[t][j]
  BY <1>4, <1>5 DEF Without
<1>8. /\ DOMAIN table' = Type /\ \A u \in Type \ {t} : table'[u] = table[u]
      /\ DOMAIN table'[t] = DOMAIN table[t] \cup {id} /\ table'[t][id] = row
      /\ \A j \in DOMAIN table[t] : table'[t][j] = table[t][j]
  BY <1>1, <1>6 DEF With, Types, TablesOK
<1>9. TablesOK(table', {"table"})
  <2>1. TablesOK(table, {"table"})
    BY DEF Types
  <2> QED
    BY <1>1, <1>3, <1>8, <2>1, ChangedTable
<1>10. TablesOK(trash', Location)
  BY <1>2, <1>4, <1>7, ChangedTable
<1>11. Types'
  <2>1. new' = new /\ commands' \in 0 .. MaxCommands
    BY Constants DEF Types, Command
  <2> QED
    BY <1>9, <1>10, <2>1 DEF Types
<1>12. ASSUME NEW u \in Type
       PROVE  /\ DOMAIN trash'[u] = DOMAIN trash[u] \ (IF u = t THEN {i} ELSE {})
              /\ \A j \in DOMAIN trash'[u] :
                    RowFollows(trash[u][j], trash'[u][j], u, t, i, id, "table")
              /\ DOMAIN table'[u] = DOMAIN table[u] \cup (IF u = t THEN {id} ELSE {})
              /\ \A j \in DOMAIN table[u] : table'[u][j] = table[u][j]
  <2>1. /\ DOMAIN others[u] = DOMAIN trash[u]
        /\ \A j \in DOMAIN trash[u] :
              RowFollows(trash[u][j], others[u][j], u, t, i, id, "table")
    BY DEF TrashFollows
  <2>2. DOMAIN trash'[u] = DOMAIN trash[u] \ (IF u = t THEN {i} ELSE {})
        /\ \A j \in DOMAIN trash'[u] : trash'[u][j] = others[u][j]
    BY <1>7, <2>1
  <2>3. /\ DOMAIN table'[u] = DOMAIN table[u] \cup (IF u = t THEN {id} ELSE {})
        /\ \A j \in DOMAIN table[u] : table'[u][j] = table[u][j]
    BY <1>8
  <2> QED
    BY <2>1, <2>2, <2>3
<1>13. NameFree(t, trash[t][i].name, 0)
  BY DEF MoveToTable
<1>14. ToTableStep(t, i, id)
  BY <1>1, <1>3, <1>8, <1>12, <1>13 DEF ToTableStep, Command
<1> QED
  BY <1>11, <1>14

-----------------------------------------------------------------------------
(***************************************************************************)
(* Steps that delete a resource for good.                                  *)
(***************************************************************************)
PermissionsLeft(t, i, loc) ==
    \A l \in permissions' :
        l.id = -1 \/ (l \in permissions /\ ~(l.type = t /\ l.id = i /\ l.loc = loc))
FromTableStep(t, i) ==
    /\ t \in Type /\ i \in DOMAIN table[t]
    /\ \A u \in Type :
          /\ DOMAIN table'[u] = DOMAIN table[u] \ (IF u = t THEN {i} ELSE {})
          /\ \A j \in DOMAIN table'[u] : table'[u][j] = table[u][j]
    /\ t \in {"config", "schedule", "alert"} => ~Refers(tasks, t, i, "table")
    /\ PermissionsLeft(t, i, "table")
    /\ UNCHANGED << trash, tasks, new >>
FromTrashStep(t, i) ==
    /\ t \in Type /\ i \in DOMAIN trash[t]
    /\ \A u \in Type :
          /\ DOMAIN trash'[u] = DOMAIN trash[u] \ (IF u = t THEN {i} ELSE {})
          /\ \A j \in DOMAIN trash'[u] : trash'[u][j] = trash[u][j]
    /\ t \in {"config", "schedule", "alert"} => ~Refers(tasks, t, i, "trash")
    /\ PermissionsLeft(t, i, "trash")
    /\ UNCHANGED << table, tasks, new >>

LEMMA OrphanLinks ==
    ASSUME Types, NEW t, NEW i, NEW loc, permissions_set_orphans(t, i, loc)
    PROVE  PermissionsLeft(t, i, loc) /\ permissions' \subseteq Link
<1>1. permissions \subseteq Link
  BY DEF Types
<1>2. ASSUME NEW l \in permissions'
      PROVE  /\ l \in Link
             /\ l.id = -1 \/ (l \in permissions /\ ~(l.type = t /\ l.id = i /\ l.loc = loc))
  <2>1. PICK m \in permissions :
            l = IF m.type = t /\ m.id = i /\ m.loc = loc
                THEN [m EXCEPT !.id = -1] ELSE m
    BY DEF permissions_set_orphans
  <2>2. m \in Link
    BY <1>1
  <2>3. CASE m.type = t /\ m.id = i /\ m.loc = loc
    <3>1. l = [m EXCEPT !.id = -1]
      BY <2>1, <2>3
    <3> QED
      BY <2>2, <3>1 DEF Link
  <2>4. CASE ~(m.type = t /\ m.id = i /\ m.loc = loc)
    <3>1. l = m
      BY <2>1, <2>4
    <3> QED
      BY <2>2, <2>4, <3>1
  <2> QED
    BY <2>3, <2>4
<1> QED
  BY <1>2 DEF PermissionsLeft

LEMMA DeletedFromTable ==
    ASSUME Types, NEW t \in Type, NEW i \in DOMAIN table[t], DeleteFromTable(t, i),
           t \in {"config", "schedule", "alert"} => ~Refers(tasks, t, i, "table"),
           Command, UNCHANGED session
    PROVE  FromTableStep(t, i) /\ Types'
<1>1. i \in Id
  BY TableRows
<1>2. /\ DOMAIN table' = Type /\ \A u \in Type \ {t} : table'[u] = table[u]
      /\ DOMAIN table'[t] = DOMAIN table[t] \ {i}
      /\ \A j \in DOMAIN table'[t] : table'[t][j] = table[t][j]
  BY DEF DeleteFromTable, Without, Types, TablesOK
<1>3. TablesOK(table', {"table"})
  <2>1. TablesOK(table, {"table"})
    BY DEF Types
  <2> QED
    BY <1>1, <1>2, <2>1, ChangedTable
<1>4. PermissionsLeft(t, i, "table") /\ permissions' \subseteq Link
  BY OrphanLinks DEF DeleteFromTable
<1>5. tag_resources' \subseteq Link
  BY DEF DeleteFromTable, tags_remove_resource, Types
<1>6. /\ UNCHANGED << trash, tasks, new >> /\ commands' \in 0 .. MaxCommands
  BY Constants DEF Types, Command, DeleteFromTable
<1>7. Types'
  BY <1>3, <1>4, <1>5, <1>6 DEF Types
<1>8. \A u \in Type :
          /\ DOMAIN table'[u] = DOMAIN table[u] \ (IF u = t THEN {i} ELSE {})
          /\ \A j \in DOMAIN table'[u] : table'[u][j] = table[u][j]
  BY <1>2
<1> QED
  BY <1>4, <1>6, <1>7, <1>8 DEF FromTableStep

LEMMA DeletedFromTrash ==
    ASSUME Types, NEW t \in Type, NEW i \in DOMAIN trash[t], DeleteFromTrash(t, i),
           t \in {"config", "schedule", "alert"} => ~Refers(tasks, t, i, "trash"),
           Command, UNCHANGED session
    PROVE  FromTrashStep(t, i) /\ Types'
<1>1. i \in Id
  BY TrashRows
<1>2. /\ DOMAIN trash' = Type /\ \A u \in Type \ {t} : trash'[u] = trash[u]
      /\ DOMAIN trash'[t] = DOMAIN trash[t] \ {i}
      /\ \A j \in DOMAIN trash'[t] : trash'[t][j] = trash[t][j]
  BY DEF DeleteFromTrash, Without, Types, TablesOK
<1>3. TablesOK(trash', Location)
  <2>1. TablesOK(trash, Location)
    BY DEF Types
  <2> QED
    BY <1>1, <1>2, <2>1, ChangedTable
<1>4. PermissionsLeft(t, i, "trash") /\ permissions' \subseteq Link
  BY OrphanLinks DEF DeleteFromTrash
<1>5. tag_resources' \subseteq Link
  BY DEF DeleteFromTrash, tags_remove_resource, Types
<1>6. /\ UNCHANGED << table, tasks, new >> /\ commands' \in 0 .. MaxCommands
  BY Constants DEF Types, Command, DeleteFromTrash
<1>7. Types'
  BY <1>3, <1>4, <1>5, <1>6 DEF Types
<1>8. \A u \in Type :
          /\ DOMAIN trash'[u] = DOMAIN trash[u] \ (IF u = t THEN {i} ELSE {})
          /\ \A j \in DOMAIN trash'[u] : trash'[u][j] = trash[u][j]
  BY <1>2
<1> QED
  BY <1>4, <1>6, <1>7, <1>8 DEF FromTrashStep

-----------------------------------------------------------------------------
(***************************************************************************)
(* The commands that delete and restore resources.                         *)
(***************************************************************************)
DeleteStep ==
    \/ \E t \in Type : \E i, id \in Id : ToTrashStep(t, i, id)
    \/ \E t \in Type : \E i \in Id : FromTableStep(t, i)
    \/ \E t \in Type : \E i \in Id : FromTrashStep(t, i)
RestoreStep == \E t \in Type : \E i, id \in Id : ToTableStep(t, i, id)

LEMMA StepIds ==
    ASSUME Types, NEW t \in Type, NEW i, NEW id
    PROVE  /\ ToTrashStep(t, i, id) => DeleteStep
           /\ FromTableStep(t, i) => DeleteStep
           /\ FromTrashStep(t, i) => DeleteStep
           /\ ToTableStep(t, i, id) => RestoreStep
<1>1. DOMAIN table[t] \subseteq Id /\ DOMAIN trash[t] \subseteq Id
  BY TableRows, TrashRows
<1>2. ToTrashStep(t, i, id) => i \in Id /\ id \in Id
  BY <1>1 DEF ToTrashStep
<1>3. FromTableStep(t, i) => i \in Id
  BY <1>1 DEF FromTableStep
<1>4. FromTrashStep(t, i) => i \in Id
  BY <1>1 DEF FromTrashStep
<1>5. ToTableStep(t, i, id) => i \in Id /\ id \in Id
  BY <1>1 DEF ToTableStep
<1> QED
  BY <1>2, <1>3, <1>4, <1>5 DEF DeleteStep, RestoreStep

\* The rows of a table refer to rows of tables.
LEMMA NotReferred ==
    ASSUME Types, NEW u \in Type, NEW t \in Slots(u), NEW i,
           ~Refers(table[u], t, i, "table")
    PROVE  \A j \in DOMAIN table[u] : table[u][j].refs[t].id # i
<1>1. \A j \in DOMAIN table[u] : RowOK(table[u][j], u, {"table"})
  BY TableRows
<1>2. \A j \in DOMAIN table[u] : table[u][j].refs[t].loc = "table"
  BY <1>1 DEF RowOK
<1> QED
  BY <1>2 DEF Refers

LEMMA LinksFollowSet ==
    ASSUME Types, NEW t, NEW i, NEW id \in Id, NEW loc \in Location,
           LinksFollow(t, i, id, loc)
    PROVE  /\ PermissionsFollow(t, i, id, loc)
           /\ t = "target" => \A other \in Id : PermissionsFollow(t, i, other, loc)
           /\ permissions' \subseteq Link /\ tag_resources' \subseteq Link
<1>1. PermissionsFollow(t, i, id, loc) /\ permissions' \subseteq Link
  BY PermissionsFollowSet DEF LinksFollow
<1>2. tag_resources' \subseteq Link
  BY TagsFollowSet DEF LinksFollow
<1>3. ASSUME t = "target", NEW other \in Id PROVE PermissionsFollow(t, i, other, loc)
  BY <1>1, <1>3 DEF PermissionsFollow, LinkFollows
<1> QED
  BY <1>1, <1>2, <1>3

\* What refers to the resources of a type.
LEMMA Referring ==
    /\ {u \in Type : "port_list" \in Slots(u)} = {"target"}
    /\ {u \in Type : "credential" \in Slots(u)} = {"target", "scanner"}
    /\ {u \in Type : "filter" \in Slots(u)} = {"alert"}
    /\ {u \in Type : "scanner" \in Slots(u)} = {"config"}
    /\ \A t \in {"target", "config", "schedule", "alert", "scanner"} :
          \A u \in Type : t \notin Slots(u) \ {"scanner"}
BY DEF Type, Slots

LEMMA Locations == "table" \in Location /\ "trash" \in Location
BY DEF Location

LEMMA delete_target_Deletes == Types /\ delete_target => DeleteStep /\ Types'
<1> SUFFICES ASSUME Types, delete_target PROVE DeleteStep /\ Types'
  OBVIOUS
<1> DEFINE id == NextId(trash["target"])
<1>1. Command /\ UNCHANGED session /\ "target" \in Type /\ "target" \in TaskSlots
  BY DEF delete_target, Type, TaskSlots
<1>2. id \in Id
  BY <1>1, TrashRows
<1>3. ASSUME NEW i \in DOMAIN table["target"], NEW login, NEW last,
             login = (IF table["target"][i].sub = 0 THEN 0 ELSE NextSub(trash["target"])),
             last = (IF login = 0 THEN id ELSE login),
             ~LiveRefers("target", i), MoveToTrash("target", i, login, trash),
             tasks' = Follow(tasks, "target", i, last, "trash"),
             LinksFollow("target", i, last, "trash")
      PROVE  DeleteStep /\ Types'
  <2>1. login \in Nat /\ last \in Id
    BY <1>1, <1>2, <1>3, TrashRows DEF Id
  <2>2. TrashFollows(trash, "target", i, id, "trash")
    BY NothingFollows
  <2>3. TasksOK(tasks') /\ TasksFollow("target", i, id, "trash")
    BY <1>1, <1>2, <1>3, <2>1, Locations, TasksFollowSet
  <2>4. /\ PermissionsFollow("target", i, id, "trash")
        /\ permissions' \subseteq Link /\ tag_resources' \subseteq Link
    BY <1>2, <1>3, <2>1, Locations, LinksFollowSet
  <2>5. \A u \in Type : "target" \in Slots(u) \ {"scanner"} =>
            \A j \in DOMAIN table[u] : table[u][j].refs["target"].id # i
    BY Referring
  <2> QED
    BY <1>1, <1>3, <2>1, <2>2, <2>3, <2>4, <2>5, TrashStep, StepIds
<1>4. ASSUME NEW i \in DOMAIN table["target"],
             DeleteFromTable("target", i)
      PROVE  DeleteStep /\ Types'
  BY <1>1, <1>4, DeletedFromTable, StepIds
<1>5. ASSUME NEW i \in DOMAIN trash["target"],
             DeleteFromTrash("target", i)
      PROVE  DeleteStep /\ Types'
  BY <1>1, <1>5, DeletedFromTrash, StepIds
<1> QED
  BY <1>3, <1>4, <1>5 DEF delete_target

LEMMA delete_scanner_Deletes == Types /\ delete_scanner => DeleteStep /\ Types'
<1> SUFFICES ASSUME Types, delete_scanner PROVE DeleteStep /\ Types'
  OBVIOUS
<1> DEFINE id == NextId(trash["scanner"])
<1>1. Command /\ UNCHANGED session /\ "scanner" \in Type /\ "scanner" \in TaskSlots
  BY DEF delete_scanner, Type, TaskSlots
<1>2. id \in Id
  BY <1>1, TrashRows
<1>3. ASSUME NEW i \in DOMAIN table["scanner"],
             ~LiveRefers("scanner", i), MoveToTrash("scanner", i, 0, ConfigsFollow(i, id)),
             tasks' = Follow(tasks, "scanner", i, id, "trash"),
             LinksFollow("scanner", i, id, "trash")
      PROVE  DeleteStep /\ Types'
  <2>1. TrashFollows(ConfigsFollow(i, id), "scanner", i, id, "trash")
    BY <1>2, ConfigsFollowInTrash
  <2>2. TasksOK(tasks') /\ TasksFollow("scanner", i, id, "trash")
    BY <1>1, <1>2, <1>3, Locations, TasksFollowSet
  <2>3. /\ PermissionsFollow("scanner", i, id, "trash")
        /\ permissions' \subseteq Link /\ tag_resources' \subseteq Link
    BY <1>2, <1>3, Locations, LinksFollowSet
  <2>4. \A u \in Type : "scanner" \in Slots(u) \ {"scanner"} =>
            \A j \in DOMAIN table[u] : table[u][j].refs["scanner"].id # i
    BY Referring
  <2> QED
    BY <1>1, <1>3, <2>1, <2>2, <2>3, <2>4, TrashStep, StepIds
<1>4. ASSUME NEW i \in DOMAIN table["scanner"],
             DeleteFromTable("scanner", i)
      PROVE  DeleteStep /\ Types'
  BY <1>1, <1>4, DeletedFromTable, StepIds
<1>5. ASSUME NEW i \in DOMAIN trash["scanner"],
             DeleteFromTrash("scanner", i)
      PROVE  DeleteStep /\ Types'
  BY <1>1, <1>5, DeletedFromTrash, StepIds
<1> QED
  BY <1>3, <1>4, <1>5 DEF delete_scanner

LEMMA delete_config_Deletes == Types /\ delete_config => DeleteStep /\ Types'
<1> SUFFICES ASSUME Types, delete_config PROVE DeleteStep /\ Types'
  OBVIOUS
<1> DEFINE id == NextId(trash["config"])
<1>1. Command /\ UNCHANGED session /\ "config" \in Type /\ "config" \in TaskSlots
  BY DEF delete_config, Type, TaskSlots
<1>2. id \in Id
  BY <1>1, TrashRows
<1>3. ASSUME NEW i \in DOMAIN table["config"],
             ~LiveRefers("config", i), MoveToTrash("config", i, 0, trash),
             tasks' = Follow(tasks, "config", i, id, "trash"),
             LinksFollow("config", i, id, "trash")
      PROVE  DeleteStep /\ Types'
  <2>1. TrashFollows(trash, "config", i, id, "trash")
    BY <1>2, NothingFollows
  <2>2. TasksOK(tasks') /\ TasksFollow("config", i, id, "trash")
    BY <1>1, <1>2, <1>3, Locations, TasksFollowSet
  <2>3. /\ PermissionsFollow("config", i, id, "trash")
        /\ permissions' \subseteq Link /\ tag_resources' \subseteq Link
    BY <1>2, <1>3, Locations, LinksFollowSet
  <2>4. \A u \in Type : "config" \in Slots(u) \ {"scanner"} =>
            \A j \in DOMAIN table[u] : table[u][j].refs["config"].id # i
    BY Referring
  <2> QED
    BY <1>1, <1>3, <2>1, <2>2, <2>3, <2>4, TrashStep, StepIds
<1>4. ASSUME NEW i \in DOMAIN table["config"],
             ~Refers(tasks, "config", i, "table"), DeleteFromTable("config", i)
      PROVE  DeleteStep /\ Types'
  BY <1>1, <1>4, DeletedFromTable, StepIds
<1>5. ASSUME NEW i \in DOMAIN trash["config"],
             ~Refers(tasks, "config", i, "trash"), DeleteFromTrash("config", i)
      PROVE  DeleteStep /\ Types'
  BY <1>1, <1>5, DeletedFromTrash, StepIds
<1> QED
  BY <1>3, <1>4, <1>5 DEF delete_config

LEMMA delete_schedule_Deletes == Types /\ delete_schedule => DeleteStep /\ Types'
<1> SUFFICES ASSUME Types, delete_schedule PROVE DeleteStep /\ Types'
  OBVIOUS
<1> DEFINE id == NextId(trash["schedule"])
<1>1. Command /\ UNCHANGED session /\ "schedule" \in Type /\ "schedule" \in TaskSlots
  BY DEF delete_schedule, Type, TaskSlots
<1>2. id \in Id
  BY <1>1, TrashRows
<1>3. ASSUME NEW i \in DOMAIN table["schedule"],
             ~LiveRefers("schedule", i), MoveToTrash("schedule", i, 0, trash),
             tasks' = Follow(tasks, "schedule", i, id, "trash"),
             LinksFollow("schedule", i, id, "trash")
      PROVE  DeleteStep /\ Types'
  <2>1. TrashFollows(trash, "schedule", i, id, "trash")
    BY <1>2, NothingFollows
  <2>2. TasksOK(tasks') /\ TasksFollow("schedule", i, id, "trash")
    BY <1>1, <1>2, <1>3, Locations, TasksFollowSet
  <2>3. /\ PermissionsFollow("schedule", i, id, "trash")
        /\ permissions' \subseteq Link /\ tag_resources' \subseteq Link
    BY <1>2, <1>3, Locations, LinksFollowSet
  <2>4. \A u \in Type : "schedule" \in Slots(u) \ {"scanner"} =>
            \A j \in DOMAIN table[u] : table[u][j].refs["schedule"].id # i
    BY Referring
  <2> QED
    BY <1>1, <1>3, <2>1, <2>2, <2>3, <2>4, TrashStep, StepIds
<1>4. ASSUME NEW i \in DOMAIN table["schedule"],
             ~Refers(tasks, "schedule", i, "table"), DeleteFromTable("schedule", i)
      PROVE  DeleteStep /\ Types'
  BY <1>1, <1>4, DeletedFromTable, StepIds
<1>5. ASSUME NEW i \in DOMAIN trash["schedule"],
             ~Refers(tasks, "schedule", i, "trash"), DeleteFromTrash("schedule", i)
      PROVE  DeleteStep /\ Types'
  BY <1>1, <1>5, DeletedFromTrash, StepIds
<1> QED
  BY <1>3, <1>4, <1>5 DEF delete_schedule

LEMMA delete_alert_Deletes == Types /\ delete_alert => DeleteStep /\ Types'
<1> SUFFICES ASSUME Types, delete_alert PROVE DeleteStep /\ Types'
  OBVIOUS
<1> DEFINE id == NextId(trash["alert"])
<1>1. Command /\ UNCHANGED session /\ "alert" \in Type /\ "alert" \in TaskSlots
  BY DEF delete_alert, Type, TaskSlots
<1>2. id \in Id
  BY <1>1, TrashRows
<1>3. ASSUME NEW i \in DOMAIN table["alert"],
             ~LiveRefers("alert", i), MoveToTrash("alert", i, 0, trash),
             tasks' = Follow(tasks, "alert", i, id, "trash"),
             LinksFollow("alert", i, id, "trash")
      PROVE  DeleteStep /\ Types'
  <2>1. TrashFollows(trash, "alert", i, id, "trash")
    BY <1>2, NothingFollows
  <2>2. TasksOK(tasks') /\ TasksFollow("alert", i, id, "trash")
    BY <1>1, <1>2, <1>3, Locations, TasksFollowSet
  <2>3. /\ PermissionsFollow("alert", i, id, "trash")
        /\ permissions' \subseteq Link /\ tag_resources' \subseteq Link
    BY <1>2, <1>3, Locations, LinksFollowSet
  <2>4. \A u \in Type : "alert" \in Slots(u) \ {"scanner"} =>
            \A j \in DOMAIN table[u] : table[u][j].refs["alert"].id # i
    BY Referring
  <2> QED
    BY <1>1, <1>3, <2>1, <2>2, <2>3, <2>4, TrashStep, StepIds
<1>4. ASSUME NEW i \in DOMAIN table["alert"],
             ~Refers(tasks, "alert", i, "table"), DeleteFromTable("alert", i)
      PROVE  DeleteStep /\ Types'
  BY <1>1, <1>4, DeletedFromTable, StepIds
<1>5. ASSUME NEW i \in DOMAIN trash["alert"],
             ~Refers(tasks, "alert", i, "trash"), DeleteFromTrash("alert", i)
      PROVE  DeleteStep /\ Types'
  BY <1>1, <1>5, DeletedFromTrash, StepIds
<1> QED
  BY <1>3, <1>4, <1>5 DEF delete_alert

LEMMA delete_port_list_Deletes == Types /\ delete_port_list => DeleteStep /\ Types'
<1> SUFFICES ASSUME Types, delete_port_list PROVE DeleteStep /\ Types'
  OBVIOUS
<1> DEFINE id == NextId(trash["port_list"])
<1>1. Command /\ UNCHANGED session /\ "port_list" \in Type /\ "port_list" \in Type \ TaskSlots
  BY DEF delete_port_list, Type, TaskSlots
<1>2. id \in Id /\ NextSub(trash["port_list"]) \in Nat
  BY <1>1, TrashRows
<1>3. ASSUME NEW i \in DOMAIN table["port_list"],
             ~Refers(table["target"], "port_list", i, "table"),
             MoveToTrash("port_list", i, NextSub(trash["port_list"]), FollowIn({"target"}, "port_list", i, id, "trash")),
             LinksFollow("port_list", i, id, "trash"), UNCHANGED tasks
      PROVE  DeleteStep /\ Types'
  <2> DEFINE types == {"target"}
  <2>1. types = {u \in Type : "port_list" \in Slots(u)}
    BY Referring
  <2> HIDE DEF types
  <2>2. TrashFollows(FollowIn(types, "port_list", i, id, "trash"), "port_list", i, id, "trash")
    BY <1>1, <1>2, <2>1, Locations, FollowInTrash
  <2>3. TasksOK(tasks') /\ TasksFollow("port_list", i, id, "trash")
    BY <1>1, <1>3, TasksStay
  <2>4. /\ PermissionsFollow("port_list", i, id, "trash")
        /\ permissions' \subseteq Link /\ tag_resources' \subseteq Link
    BY <1>2, <1>3, Locations, LinksFollowSet
  <2>5. \A u \in Type : "port_list" \in Slots(u) \ {"scanner"} =>
            \A j \in DOMAIN table[u] : table[u][j].refs["port_list"].id # i
    <3> TAKE u \in Type
    <3> HAVE "port_list" \in Slots(u) \ {"scanner"}
    <3>1. u \in {"target"}
      BY Referring
    <3>2. ~Refers(table[u], "port_list", i, "table")
      BY <1>3, <3>1
    <3> QED
      BY <3>2, NotReferred
  <2>6. MoveToTrash("port_list", i, NextSub(trash["port_list"]), FollowIn(types, "port_list", i, id, "trash"))
    BY <1>3 DEF types
  <2> QED
    BY <1>1, <1>2, <1>3, <2>2, <2>3, <2>4, <2>5, <2>6, TrashStep, StepIds
<1>4. ASSUME NEW i \in DOMAIN table["port_list"], DeleteFromTable("port_list", i)
      PROVE  DeleteStep /\ Types'
  BY <1>1, <1>4, DeletedFromTable, StepIds
<1>5. ASSUME NEW i \in DOMAIN trash["port_list"], DeleteFromTrash("port_list", i)
      PROVE  DeleteStep /\ Types'
  BY <1>1, <1>5, DeletedFromTrash, StepIds
<1> QED
  BY <1>3, <1>4, <1>5 DEF delete_port_list

LEMMA delete_credential_Deletes == Types /\ delete_credential => DeleteStep /\ Types'
<1> SUFFICES ASSUME Types, delete_credential PROVE DeleteStep /\ Types'
  OBVIOUS
<1> DEFINE id == NextId(trash["credential"])
<1>1. Command /\ UNCHANGED session /\ "credential" \in Type /\ "credential" \in Type \ TaskSlots
  BY DEF delete_credential, Type, TaskSlots
<1>2. id \in Id /\ NextSub(trash["credential"]) \in Nat
  BY <1>1, TrashRows
<1>3. ASSUME NEW i \in DOMAIN table["credential"],
             ~Refers(table["target"], "credential", i, "table"),
             ~Refers(table["scanner"], "credential", i, "table"),
             MoveToTrash("credential", i, 0, FollowIn({"target", "scanner"}, "credential", i, id, "trash")),
             LinksFollow("credential", i, id, "trash"), UNCHANGED tasks
      PROVE  DeleteStep /\ Types'
  <2> DEFINE types == {"target", "scanner"}
  <2>1. types = {u \in Type : "credential" \in Slots(u)}
    BY Referring
  <2> HIDE DEF types
  <2>2. TrashFollows(FollowIn(types, "credential", i, id, "trash"), "credential", i, id, "trash")
    BY <1>1, <1>2, <2>1, Locations, FollowInTrash
  <2>3. TasksOK(tasks') /\ TasksFollow("credential", i, id, "trash")
    BY <1>1, <1>3, TasksStay
  <2>4. /\ PermissionsFollow("credential", i, id, "trash")
        /\ permissions' \subseteq Link /\ tag_resources' \subseteq Link
    BY <1>2, <1>3, Locations, LinksFollowSet
  <2>5. \A u \in Type : "credential" \in Slots(u) \ {"scanner"} =>
            \A j \in DOMAIN table[u] : table[u][j].refs["credential"].id # i
    <3> TAKE u \in Type
    <3> HAVE "credential" \in Slots(u) \ {"scanner"}
    <3>1. u \in {"target", "scanner"}
      BY Referring
    <3>2. ~Refers(table[u], "credential", i, "table")
      BY <1>3, <3>1
    <3> QED
      BY <3>2, NotReferred
  <2>6. MoveToTrash("credential", i, 0, FollowIn(types, "credential", i, id, "trash"))
    BY <1>3 DEF types
  <2> QED
    BY <1>1, <1>2, <1>3, <2>2, <2>3, <2>4, <2>5, <2>6, TrashStep, StepIds
<1>4. ASSUME NEW i \in DOMAIN table["credential"], DeleteFromTable("credential", i)
      PROVE  DeleteStep /\ Types'
  BY <1>1, <1>4, DeletedFromTable, StepIds
<1>5. ASSUME NEW i \in DOMAIN trash["credential"], DeleteFromTrash("credential", i)
      PROVE  DeleteStep /\ Types'
  BY <1>1, <1>5, DeletedFromTrash, StepIds
<1> QED
  BY <1>3, <1>4, <1>5 DEF delete_credential, credential_in_use

LEMMA delete_filter_Deletes == Types /\ delete_filter => DeleteStep /\ Types'
<1> SUFFICES ASSUME Types, delete_filter PROVE DeleteStep /\ Types'
  OBVIOUS
<1> DEFINE id == NextId(trash["filter"])
<1>1. Command /\ UNCHANGED session /\ "filter" \in Type /\ "filter" \in Type \ TaskSlots
  BY DEF delete_filter, Type, TaskSlots
<1>2. id \in Id /\ NextSub(trash["filter"]) \in Nat
  BY <1>1, TrashRows
<1>3. ASSUME NEW i \in DOMAIN table["filter"],
             ~Refers(table["alert"], "filter", i, "table"),
             MoveToTrash("filter", i, 0, FollowIn({"alert"}, "filter", i, id, "trash")),
             LinksFollow("filter", i, id, "trash"), UNCHANGED tasks
      PROVE  DeleteStep /\ Types'
  <2> DEFINE types == {"alert"}
  <2>1. types = {u \in Type : "filter" \in Slots(u)}
    BY Referring
  <2> HIDE DEF types
  <2>2. TrashFollows(FollowIn(types, "filter", i, id, "trash"), "filter", i, id, "trash")
    BY <1>1, <1>2, <2>1, Locations, FollowInTrash
  <2>3. TasksOK(tasks') /\ TasksFollow("filter", i, id, "trash")
    BY <1>1, <1>3, TasksStay
  <2>4. /\ PermissionsFollow("filter", i, id, "trash")
        /\ permissions' \subseteq Link /\ tag_resources' \subseteq Link
    BY <1>2, <1>3, Locations, LinksFollowSet
  <2>5. \A u \in Type : "filter" \in Slots(u) \ {"scanner"} =>
            \A j \in DOMAIN table[u] : table[u][j].refs["filter"].id # i
    <3> TAKE u \in Type
    <3> HAVE "filter" \in Slots(u) \ {"scanner"}
    <3>1. u \in {"alert"}
      BY Referring
    <3>2. ~Refers(table[u], "filter", i, "table")
      BY <1>3, <3>1
    <3> QED
      BY <3>2, NotReferred
  <2>6. MoveToTrash("filter", i, 0, FollowIn(types, "filter", i, id, "trash"))
    BY <1>3 DEF types
  <2> QED
    BY <1>1, <1>2, <1>3, <2>2, <2>3, <2>4, <2>5, <2>6, TrashStep, StepIds
<1>4. ASSUME NEW i \in DOMAIN table["filter"], DeleteFromTable("filter", i)
      PROVE  DeleteStep /\ Types'
  BY <1>1, <1>4, DeletedFromTable, StepIds
<1>5. ASSUME NEW i \in DOMAIN trash["filter"], DeleteFromTrash("filter", i)
      PROVE  DeleteStep /\ Types'
  BY <1>1, <1>5, DeletedFromTrash, StepIds
<1> QED
  BY <1>3, <1>4, <1>5 DEF delete_filter, filter_in_use

LEMMA restore_config_Restores == Types /\ restore_config => RestoreStep /\ Types'
<1> SUFFICES ASSUME Types, restore_config PROVE RestoreStep /\ Types'
  OBVIOUS
<1> DEFINE id == NextId(table["config"])
<1>1. Command /\ UNCHANGED session /\ "config" \in Type /\ "config" \in TaskSlots
  BY DEF restore_config, Type, TaskSlots
<1>2. id \in Id
  BY <1>1, TableRows
<1>3. ASSUME NEW i \in DOMAIN trash["config"],
             MoveToTable("config", i, 0, trash),
             tasks' = Follow(tasks, "config", i, id, "table"),
             LinksFollow("config", i, id, "table")
      PROVE  RestoreStep /\ Types'
  <2>2. MoveToTable("config", i, 0, trash)
    BY <1>3
  <2>3. TrashFollows(trash, "config", i, id, "table")
    BY NothingFollows
  <2>4. TasksOK(tasks') /\ TasksFollow("config", i, id, "table")
    BY <1>1, <1>2, <1>3, Locations, TasksFollowSet
  <2>5. /\ PermissionsFollow("config", i, id, "table")
        /\ permissions' \subseteq Link /\ tag_resources' \subseteq Link
    BY <1>2, <1>3, Locations, LinksFollowSet
  <2> QED
    BY <1>1, <1>3, <2>2, <2>3, <2>4, <2>5, TableStepBack, StepIds
<1> QED
  BY <1>3 DEF restore_config

LEMMA restore_alert_Restores == Types /\ restore_alert => RestoreStep /\ Types'
<1> SUFFICES ASSUME Types, restore_alert PROVE RestoreStep /\ Types'
  OBVIOUS
<1> DEFINE id == NextId(table["alert"])
<1>1. Command /\ UNCHANGED session /\ "alert" \in Type /\ "alert" \in TaskSlots
  BY DEF restore_alert, Type, TaskSlots
<1>2. id \in Id
  BY <1>1, TableRows
<1>3. ASSUME NEW i \in DOMAIN trash["alert"],
             MoveToTable("alert", i, 0, trash),
             tasks' = Follow(tasks, "alert", i, id, "table"),
             LinksFollow("alert", i, id, "table")
      PROVE  RestoreStep /\ Types'
  <2>2. MoveToTable("alert", i, 0, trash)
    BY <1>3
  <2>3. TrashFollows(trash, "alert", i, id, "table")
    BY NothingFollows
  <2>4. TasksOK(tasks') /\ TasksFollow("alert", i, id, "table")
    BY <1>1, <1>2, <1>3, Locations, TasksFollowSet
  <2>5. /\ PermissionsFollow("alert", i, id, "table")
        /\ permissions' \subseteq Link /\ tag_resources' \subseteq Link
    BY <1>2, <1>3, Locations, LinksFollowSet
  <2> QED
    BY <1>1, <1>3, <2>2, <2>3, <2>4, <2>5, TableStepBack, StepIds
<1> QED
  BY <1>3 DEF restore_alert

LEMMA restore_scanner_Restores == Types /\ restore_scanner => RestoreStep /\ Types'
<1> SUFFICES ASSUME Types, restore_scanner PROVE RestoreStep /\ Types'
  OBVIOUS
<1> DEFINE id == NextId(table["scanner"])
<1>1. Command /\ UNCHANGED session /\ "scanner" \in Type /\ "scanner" \in TaskSlots
  BY DEF restore_scanner, Type, TaskSlots
<1>2. id \in Id
  BY <1>1, TableRows
<1>3. ASSUME NEW i \in DOMAIN trash["scanner"],
             MoveToTable("scanner", i, 0, FollowIn({"config"}, "scanner", i, id, "table")),
             tasks' = Follow(tasks, "scanner", i, id, "table"),
             LinksFollow("scanner", i, id, "table")
      PROVE  RestoreStep /\ Types'
  <2> DEFINE types == {"config"}
  <2>1. types = {u \in Type : "scanner" \in Slots(u)}
    BY Referring
  <2>2. MoveToTable("scanner", i, 0, FollowIn(types, "scanner", i, id, "table"))
    BY <1>3
  <2> HIDE DEF types
  <2>3. TrashFollows(FollowIn(types, "scanner", i, id, "table"), "scanner", i, id, "table")
    BY <1>1, <1>2, <2>1, Locations, FollowInTrash
  <2>4. TasksOK(tasks') /\ TasksFollow("scanner", i, id, "table")
    BY <1>1, <1>2, <1>3, Locations, TasksFollowSet
  <2>5. /\ PermissionsFollow("scanner", i, id, "table")
        /\ permissions' \subseteq Link /\ tag_resources' \subseteq Link
    BY <1>2, <1>3, Locations, LinksFollowSet
  <2> QED
    BY <1>1, <1>3, <2>2, <2>3, <2>4, <2>5, TableStepBack, StepIds
<1> QED
  BY <1>3 DEF restore_scanner

LEMMA restore_schedule_Restores == Types /\ restore_schedule => RestoreStep /\ Types'
<1> SUFFICES ASSUME Types, restore_schedule PROVE RestoreStep /\ Types'
  OBVIOUS
<1> DEFINE id == NextId(table["schedule"])
<1>1. Command /\ UNCHANGED session /\ "schedule" \in Type /\ "schedule" \in TaskSlots
  BY DEF restore_schedule, Type, TaskSlots
<1>2. id \in Id
  BY <1>1, TableRows
<1>3. ASSUME NEW i \in DOMAIN trash["schedule"],
             MoveToTable("schedule", i, 0, trash),
             tasks' = Follow(tasks, "schedule", i, id, "table"),
             LinksFollow("schedule", i, id, "table")
      PROVE  RestoreStep /\ Types'
  <2>2. MoveToTable("schedule", i, 0, trash)
    BY <1>3
  <2>3. TrashFollows(trash, "schedule", i, id, "table")
    BY NothingFollows
  <2>4. TasksOK(tasks') /\ TasksFollow("schedule", i, id, "table")
    BY <1>1, <1>2, <1>3, Locations, TasksFollowSet
  <2>5. /\ PermissionsFollow("schedule", i, id, "table")
        /\ permissions' \subseteq Link /\ tag_resources' \subseteq Link
    BY <1>2, <1>3, Locations, LinksFollowSet
  <2> QED
    BY <1>1, <1>3, <2>2, <2>3, <2>4, <2>5, TableStepBack, StepIds
<1> QED
  BY <1>3 DEF restore_schedule

LEMMA restore_target_Restores == Types /\ restore_target => RestoreStep /\ Types'
<1> SUFFICES ASSUME Types, restore_target PROVE RestoreStep /\ Types'
  OBVIOUS
<1> DEFINE id == NextId(table["target"])
<1>1. Command /\ UNCHANGED session /\ "target" \in Type /\ "target" \in TaskSlots
  BY DEF restore_target, Type, TaskSlots
<1>2. id \in Id
  BY <1>1, TableRows
<1>3. ASSUME NEW i \in DOMAIN trash["target"], NEW login, NEW last,
             login = (IF trash["target"][i].sub = 0 THEN 0 ELSE NextSub(table["target"])),
             last = (IF login = 0 THEN id ELSE login),
             MoveToTable("target", i, login, trash),
             tasks' = Follow(tasks, "target", i, id, "table"),
             LinksFollow("target", i, last, "table")
      PROVE  RestoreStep /\ Types'
  <2>1. login \in Nat /\ last \in Id
    BY <1>1, <1>2, <1>3, TableRows DEF Id
  <2>2. TrashFollows(trash, "target", i, id, "table")
    BY NothingFollows
  <2>3. TasksOK(tasks') /\ TasksFollow("target", i, id, "table")
    BY <1>1, <1>2, <1>3, <2>1, Locations, TasksFollowSet
  <2>4. /\ PermissionsFollow("target", i, id, "table")
        /\ permissions' \subseteq Link /\ tag_resources' \subseteq Link
    BY <1>2, <1>3, <2>1, Locations, LinksFollowSet
  <2> QED
    BY <1>1, <1>3, <2>1, <2>2, <2>3, <2>4, TableStepBack, StepIds
<1> QED
  BY <1>3 DEF restore_target

LEMMA restore_filter_Restores == Types /\ restore_filter => RestoreStep /\ Types'
<1> SUFFICES ASSUME Types, restore_filter PROVE RestoreStep /\ Types'
  OBVIOUS
<1> DEFINE id == NextId(table["filter"])
<1>1. Command /\ UNCHANGED session /\ "filter" \in Type /\ "filter" \in Type \ TaskSlots
  BY DEF restore_filter, Type, TaskSlots
<1>2. id \in Id /\ NextSub(table["filter"]) \in Id /\ NextSub(table["filter"]) \in Nat
  BY <1>1, TableRows, NextIds
<1>3. ASSUME NEW i \in DOMAIN trash["filter"],
             MoveToTable("filter", i, 0, FollowIn({"alert"}, "filter", i, id, "table")),
             LinksFollow("filter", i, id, "table"),
             UNCHANGED tasks
      PROVE  RestoreStep /\ Types'
  <2> DEFINE types == {"alert"}
  <2>1. types = {u \in Type : "filter" \in Slots(u)}
    BY Referring
  <2>2. MoveToTable("filter", i, 0, FollowIn(types, "filter", i, id, "table"))
    BY <1>3
  <2> HIDE DEF types
  <2>3. TrashFollows(FollowIn(types, "filter", i, id, "table"), "filter", i, id, "table")
    BY <1>1, <1>2, <2>1, Locations, FollowInTrash
  <2>4. TasksOK(tasks') /\ TasksFollow("filter", i, id, "table")
    BY <1>1, <1>3, TasksStay
  <2>5. /\ PermissionsFollow("filter", i, id, "table")
        /\ permissions' \subseteq Link /\ tag_resources' \subseteq Link
    BY <1>2, <1>3, Locations, LinksFollowSet
  <2> QED
    BY <1>1, <1>2, <2>2, <2>3, <2>4, <2>5, TableStepBack, StepIds
<1> QED
  BY <1>3 DEF restore_filter

LEMMA restore_credential_Restores == Types /\ restore_credential => RestoreStep /\ Types'
<1> SUFFICES ASSUME Types, restore_credential PROVE RestoreStep /\ Types'
  OBVIOUS
<1> DEFINE id == NextId(table["credential"])
<1>1. Command /\ UNCHANGED session /\ "credential" \in Type /\ "credential" \in Type \ TaskSlots
  BY DEF restore_credential, Type, TaskSlots
<1>2. id \in Id /\ NextSub(table["credential"]) \in Id /\ NextSub(table["credential"]) \in Nat
  BY <1>1, TableRows, NextIds
<1>3. ASSUME NEW i \in DOMAIN trash["credential"],
             MoveToTable("credential", i, 0, FollowIn({"target", "scanner"}, "credential", i, id, "table")),
             LinksFollow("credential", i, id, "table"),
             UNCHANGED tasks
      PROVE  RestoreStep /\ Types'
  <2> DEFINE types == {"target", "scanner"}
  <2>1. types = {u \in Type : "credential" \in Slots(u)}
    BY Referring
  <2>2. MoveToTable("credential", i, 0, FollowIn(types, "credential", i, id, "table"))
    BY <1>3
  <2> HIDE DEF types
  <2>3. TrashFollows(FollowIn(types, "credential", i, id, "table"), "credential", i, id, "table")
    BY <1>1, <1>2, <2>1, Locations, FollowInTrash
  <2>4. TasksOK(tasks') /\ TasksFollow("credential", i, id, "table")
    BY <1>1, <1>3, TasksStay
  <2>5. /\ PermissionsFollow("credential", i, id, "table")
        /\ permissions' \subseteq Link /\ tag_resources' \subseteq Link
    BY <1>2, <1>3, Locations, LinksFollowSet
  <2> QED
    BY <1>1, <1>2, <2>2, <2>3, <2>4, <2>5, TableStepBack, StepIds
<1> QED
  BY <1>3 DEF restore_credential

LEMMA restore_port_list_Restores == Types /\ restore_port_list => RestoreStep /\ Types'
<1> SUFFICES ASSUME Types, restore_port_list PROVE RestoreStep /\ Types'
  OBVIOUS
<1> DEFINE id == NextId(table["port_list"])
<1>1. Command /\ UNCHANGED session /\ "port_list" \in Type /\ "port_list" \in Type \ TaskSlots
  BY DEF restore_port_list, Type, TaskSlots
<1>2. id \in Id /\ NextSub(table["port_list"]) \in Id /\ NextSub(table["port_list"]) \in Nat
  BY <1>1, TableRows, NextIds
<1>3. ASSUME NEW i \in DOMAIN trash["port_list"],
             MoveToTable("port_list", i, NextSub(table["port_list"]), FollowIn({"target"}, "port_list", i, id, "table")),
             permissions_set_locations("port_list", i, id, "table"),
             tags_set_locations("port_list", i, NextSub(table["port_list"]), "table"),
             UNCHANGED tasks
      PROVE  RestoreStep /\ Types'
  <2> DEFINE types == {"target"}
  <2>1. types = {u \in Type : "port_list" \in Slots(u)}
    BY Referring
  <2>2. MoveToTable("port_list", i, NextSub(table["port_list"]), FollowIn(types, "port_list", i, id, "table"))
    BY <1>3
  <2> HIDE DEF types
  <2>3. TrashFollows(FollowIn(types, "port_list", i, id, "table"), "port_list", i, id, "table")
    BY <1>1, <1>2, <2>1, Locations, FollowInTrash
  <2>4. TasksOK(tasks') /\ TasksFollow("port_list", i, id, "table")
    BY <1>1, <1>3, TasksStay
  <2>5. /\ PermissionsFollow("port_list", i, id, "table")
        /\ permissions' \subseteq Link /\ tag_resources' \subseteq Link
    BY <1>2, <1>3, Locations, PermissionsFollowSet, TagsFollowSet
  <2> QED
    BY <1>1, <1>2, <2>2, <2>3, <2>4, <2>5, TableStepBack, StepIds
<1> QED
  BY <1>3 DEF restore_port_list
-----------------------------------------------------------------------------
(***************************************************************************)
(* Steps that delete and restore a task, and that empty the trashcan.      *)
(***************************************************************************)
HideStep(k, hidden) ==
    /\ k \in DOMAIN tasks /\ DOMAIN tasks' = DOMAIN tasks
    /\ \A j \in DOMAIN tasks \ {k} : tasks'[j] = tasks[j]
    /\ tasks'[k].uuid = tasks[k].uuid /\ tasks'[k].refs = tasks[k].refs
    /\ tasks[k].hidden # hidden /\ tasks'[k].hidden = hidden
    /\ hidden = 0 => \A s \in TaskSlots : tasks[k].refs[s].loc = "table"
    /\ \A l \in permissions' : \E m \in permissions :
          LinkFollows(m, l, "task", k, k, IF hidden = 0 THEN "table" ELSE "trash")
    /\ UNCHANGED << table, trash, new >>
DropStep(k) ==
    /\ k \in DOMAIN tasks /\ DOMAIN tasks' = DOMAIN tasks \ {k}
    /\ \A j \in DOMAIN tasks' : tasks'[j] = tasks[j]
    /\ PermissionsLeft("task", k, IF tasks[k].hidden = 0 THEN "table" ELSE "trash")
    /\ UNCHANGED << table, trash, new >>
EmptyStep ==
    /\ \A t \in Type : DOMAIN trash'[t] = {}
    /\ DOMAIN tasks' = {k \in DOMAIN tasks : tasks[k].hidden = 0}
    /\ \A k \in DOMAIN tasks' : tasks'[k] = tasks[k]
    /\ \A l \in permissions' : l.id = -1 \/ (l \in permissions /\ l.loc = "table")
    /\ UNCHANGED << table, new >>
TrashTaskStep ==
    \/ \E k \in Id, hidden \in {0, 2} : HideStep(k, hidden)
    \/ \E k \in Id : DropStep(k)

LEMMA PermissionsOfTask ==
    ASSUME Types, NEW k \in Id, NEW loc \in Location, LinksFollow("task", k, k, loc)
    PROVE  /\ \A l \in permissions' : \E m \in permissions :
                 LinkFollows(m, l, "task", k, k, loc)
           /\ permissions' \subseteq Link /\ tag_resources' \subseteq Link
<1>1. permissions \in SUBSET Link
  BY DEF Types
<1>2. permissions' = set_locations(permissions, "task", k, k, loc)
  BY DEF LinksFollow, permissions_set_locations
<1>3. tag_resources' \subseteq Link
  BY TagsFollowSet DEF LinksFollow
<1> QED
  BY <1>1, <1>2, <1>3, LinkSets

\* A task is marked as trash, or no longer.
SetHidden(k, hidden) == tasks' = [tasks EXCEPT ![k].hidden = hidden]

LEMMA Hidden ==
    ASSUME Types, NEW k \in DOMAIN tasks, NEW hidden \in {0, 2},
           tasks[k].hidden # hidden,
           hidden = 0 => \A s \in TaskSlots : tasks[k].refs[s].loc # "trash",
           SetHidden(k, hidden), NEW loc,
           loc = (IF hidden = 0 THEN "table" ELSE "trash"),
           LinksFollow("task", k, k, loc), Command,
           UNCHANGED << table, trash, session >>
    PROVE  TrashTaskStep /\ Types'
<1> DEFINE r == tasks[k]
           q == [r EXCEPT !.hidden = hidden]
<1>1. r \in TaskRow /\ k \in Id /\ r.refs \in [TaskSlots -> Ref]
  BY TaskRows
<1>2. tasks' = [tasks EXCEPT ![k] = q]
  BY DEF SetHidden
<1> HIDE DEF r
<1>3. q \in TaskRow /\ q.uuid = r.uuid /\ q.refs = r.refs /\ q.hidden = hidden
  BY <1>1 DEF TaskRow
<1> HIDE DEF q
<1>4. /\ DOMAIN tasks' = DOMAIN tasks /\ tasks'[k] = q
      /\ \A j \in DOMAIN tasks \ {k} : tasks'[j] = tasks[j]
  BY <1>2
<1>5. TasksOK(tasks')
  <2>1. TasksOK(tasks)
    BY DEF Types
  <2> QED
    BY <1>1, <1>3, <1>4, <2>1, ChangedTasks
<1>6. loc \in Location
  BY DEF Location
<1>7. /\ \A l \in permissions' : \E m \in permissions :
            LinkFollows(m, l, "task", k, k, loc)
      /\ permissions' \subseteq Link /\ tag_resources' \subseteq Link
  BY <1>1, <1>6, PermissionsOfTask
<1>8. new' = new /\ commands' \in 0 .. MaxCommands
  BY Constants DEF Types, Command
<1>9. Types'
  BY <1>5, <1>7, <1>8 DEF Types
<1>10. hidden = 0 => \A s \in TaskSlots : tasks[k].refs[s].loc = "table"
  BY <1>1, RefFields DEF Location, r
<1>11. HideStep(k, hidden)
  BY <1>3, <1>4, <1>7, <1>8, <1>10 DEF HideStep, r
<1> QED
  BY <1>1, <1>9, <1>11 DEF TrashTaskStep

LEMMA Dropped ==
    ASSUME Types, NEW k \in DOMAIN tasks, NEW loc,
           loc = (IF tasks[k].hidden = 0 THEN "table" ELSE "trash"),
           DeleteTask(k, loc), Command, UNCHANGED << table, trash, session >>
    PROVE  TrashTaskStep /\ Types'
<1>1. k \in Id
  BY TaskRows
<1>2. DOMAIN tasks' = DOMAIN tasks \ {k} /\ \A j \in DOMAIN tasks' : tasks'[j] = tasks[j]
  BY DEF DeleteTask, Without
<1>3. TasksOK(tasks')
  <2>1. TasksOK(tasks)
    BY DEF Types
  <2> QED
    BY <1>1, <1>2, <2>1, ChangedTasks
<1>4. PermissionsLeft("task", k, loc) /\ permissions' \subseteq Link
  BY OrphanLinks DEF DeleteTask
<1>5. tag_resources' \subseteq Link
  BY DEF DeleteTask, tags_remove_resource, Types
<1>6. new' = new /\ commands' \in 0 .. MaxCommands
  BY Constants DEF Types, Command
<1>7. Types'
  BY <1>3, <1>4, <1>5, <1>6 DEF Types
<1>8. DropStep(k)
  BY <1>2, <1>4, <1>6 DEF DropStep
<1> QED
  BY <1>1, <1>7, <1>8 DEF TrashTaskStep

LEMMA request_delete_task_uuid_Hides ==
    Types /\ request_delete_task_uuid => TrashTaskStep /\ Types'
<1> SUFFICES ASSUME Types, request_delete_task_uuid PROVE TrashTaskStep /\ Types'
  OBVIOUS
<1>1. Command /\ UNCHANGED << table, trash, session >>
  BY DEF request_delete_task_uuid
<1>2. PICK k \in DOMAIN tasks :
          IF tasks[k].hidden = 0
          THEN \/ SetHidden(k, 2) /\ LinksFollow("task", k, k, "trash")
               \/ DeleteTask(k, "table")
          ELSE DeleteTask(k, "trash")
  BY DEF request_delete_task_uuid, SetHidden
<1>3. CASE /\ tasks[k].hidden = 0 /\ SetHidden(k, 2)
           /\ LinksFollow("task", k, k, "trash")
  BY <1>1, <1>3, Hidden
<1>4. CASE DeleteTask(k, IF tasks[k].hidden = 0 THEN "table" ELSE "trash")
  BY <1>1, <1>4, Dropped
<1> QED
  BY <1>2, <1>3, <1>4

LEMMA restore_task_Hides == Types /\ restore_task => TrashTaskStep /\ Types'
<1> SUFFICES ASSUME Types, restore_task PROVE TrashTaskStep /\ Types'
  OBVIOUS
<1>1. Command /\ UNCHANGED << table, trash, session >>
  BY DEF restore_task
<1>2. PICK k \in DOMAIN tasks :
          /\ tasks[k].hidden = 2
          /\ \A s \in TaskSlots : tasks[k].refs[s].loc # "trash"
          /\ SetHidden(k, 0)
          /\ LinksFollow("task", k, k, "table")
  BY DEF restore_task, SetHidden
<1> QED
  BY <1>1, <1>2, Hidden

LEMMA manage_empty_trashcan_Empties ==
    Types /\ manage_empty_trashcan => EmptyStep /\ Types'
<1> SUFFICES ASSUME Types, manage_empty_trashcan PROVE EmptyStep /\ Types'
  OBVIOUS
<1>1. new' = new /\ commands' \in 0 .. MaxCommands
      /\ UNCHANGED << table, tag_resources, session >>
  BY Constants DEF Types, Command, manage_empty_trashcan
<1>2. DOMAIN trash' = Type /\ \A t \in Type : DOMAIN trash'[t] = {}
  BY DEF manage_empty_trashcan, NoRows
<1>3. /\ DOMAIN tasks' = {k \in DOMAIN tasks : tasks[k].hidden = 0}
      /\ \A k \in DOMAIN tasks' : tasks'[k] = tasks[k]
  BY DEF manage_empty_trashcan
<1>4. TablesOK(trash', Location)
  <2>1. Bounded({})
    BY DEF Bounded
  <2>2. \A t \in Type : Subs(trash'[t]) = {}
    BY <1>2 DEF Subs
  <2> QED
    BY <1>2, <2>1, <2>2 DEF TablesOK, RowsOK
<1>5. TasksOK(tasks')
  <2>1. DOMAIN tasks' \subseteq DOMAIN tasks
    BY <1>3
  <2>2. Bounded(DOMAIN tasks')
    BY <2>1, BoundedLess DEF Types, TasksOK
  <2> QED
    BY <1>3, <2>1, <2>2 DEF Types, TasksOK
<1>6. ASSUME NEW l \in permissions'
      PROVE  l \in Link /\ (l.id = -1 \/ (l \in permissions /\ l.loc = "table"))
  <2>1. PICK m \in permissions :
            l = IF m.id > 0 /\ m.loc = "trash" THEN [m EXCEPT !.id = -1] ELSE m
    BY DEF manage_empty_trashcan
  <2>2. m \in Link
    BY DEF Types
  <2>3. m.id = -1 \/ m.id \in Id
    BY <2>2 DEF Link
  <2>4. m.loc \in Location
    BY <2>2 DEF Link
  <2>5. CASE m.id > 0 /\ m.loc = "trash"
    <3>1. l = [m EXCEPT !.id = -1]
      BY <2>1, <2>5
    <3> QED
      BY <2>2, <3>1 DEF Link
  <2>6. CASE ~(m.id > 0 /\ m.loc = "trash")
    <3>1. l = m
      BY <2>1, <2>6
    <3>2. m.id \in Id => m.id > 0
      BY DEF Id
    <3>3. m.id = -1 \/ m.loc = "table"
      BY <2>3, <2>4, <2>6, <3>2 DEF Location
    <3> QED
      BY <2>2, <3>1, <3>3
  <2> QED
    BY <2>5, <2>6
<1>7. Types'
  BY <1>1, <1>4, <1>5, <1>6 DEF Types
<1>8. EmptyStep
  BY <1>1, <1>2, <1>3, <1>6 DEF EmptyStep
<1> QED
  BY <1>7, <1>8

-----------------------------------------------------------------------------
(***************************************************************************)
(* Every step is one of these, and keeps the types.                        *)
(***************************************************************************)
Step ==
    \/ GrowStep \/ TaskStep \/ DeleteStep \/ RestoreStep
    \/ TrashTaskStep \/ EmptyStep

LEMMA NextStep == Types /\ Next => Step /\ Types'
<1> SUFFICES ASSUME Types, Next PROVE Step /\ Types'
  OBVIOUS
<1>1. CASE CreateResource \/ ModifyResource
  BY <1>1, CreateResource_Grows, ModifyResource_Grows DEF Step
<1>2. CASE TaskCommand
  BY <1>2, TaskCommand_Tasks DEF Step
<1>3. CASE DeleteResource
  BY <1>3, delete_target_Deletes, delete_port_list_Deletes,
     delete_credential_Deletes, delete_scanner_Deletes, delete_config_Deletes,
     delete_schedule_Deletes, delete_alert_Deletes, delete_filter_Deletes,
     request_delete_task_uuid_Hides, manage_empty_trashcan_Empties
     DEF DeleteResource, Step
<1>4. CASE manage_restore
  BY <1>4, restore_config_Restores, restore_alert_Restores, restore_filter_Restores,
     restore_credential_Restores, restore_port_list_Restores,
     restore_scanner_Restores, restore_schedule_Restores,
     restore_target_Restores, restore_task_Hides DEF manage_restore, Step
<1> QED
  BY <1>1, <1>2, <1>3, <1>4 DEF Next

\* A step that changes nothing is a step of the first kind.
LEMMA Stutter == Types /\ UNCHANGED vars => GrowStep /\ Types'
<1> SUFFICES ASSUME Types, UNCHANGED vars PROVE GrowStep /\ Types'
  OBVIOUS
<1>1. UNCHANGED << table, trash, tasks, tag_resources, permissions, session, new,
                   commands >>
  BY DEF vars
<1> QED
  BY <1>1 DEF GrowStep, Types

LEMMA InitTypes == Init => Types
<1> SUFFICES ASSUME Init PROVE Types
  OBVIOUS
<1>1. Bounded({1}) /\ Bounded({})
  <2>1. \A x \in {1} : x \in Nat /\ x <= 1
    OBVIOUS
  <2> QED
    BY <2>1 DEF Bounded
<1>2. 1 \in 1 .. MaxUuid /\ 1 \in 0 .. MaxUuid /\ 1 \in Id /\ 0 \in Nat
  BY Constants DEF MaxUuid, Id
<1>3. \A s : First(s) \in Ref /\ First(s).loc = "table"
  BY <1>2 DEF First, Ref, Location
<1>4. ASSUME NEW t \in Type PROVE RowsOK(table[t], t, {"table"})
  <2> DEFINE row == [ uuid |-> 1, name |-> CHOOSE n \in Name : TRUE,
                sub |-> IF t \in {"target", "port_list"} THEN 1 ELSE 0,
                refs |-> [ s \in Slots(t) |-> First(s) ],
                data |-> [ s \in DataSlots(t) |-> 1 ] ]
  <2>1. table[t] = [i \in {1} |-> row]
    BY DEF Init
  <2>2. (CHOOSE n \in Name : TRUE) \in Name
    <3>1. \E n \in Name : TRUE
      BY ResourcesAssumption, Zenon
    <3> QED
      BY <3>1
  <2>3. [s \in Slots(t) |-> First(s)] \in [Slots(t) -> Ref]
        /\ [s \in DataSlots(t) |-> 1] \in [DataSlots(t) -> 0 .. MaxUuid]
    BY <1>2, <1>3
  <2>4. row \in Row(t) /\ row.refs = [s \in Slots(t) |-> First(s)]
        /\ row.sub \in {0, 1}
    BY <1>2, <2>2, <2>3 DEF Row
  <2> HIDE DEF row
  <2>5. RowOK(row, t, {"table"})
    BY <1>3, <2>4 DEF RowOK
  <2>6. Bounded(Subs(table[t]))
    <3>1. Subs(table[t]) = {row.sub}
      BY <2>1 DEF Subs
    <3>2. \A x \in {row.sub} : x \in Nat /\ x <= 1
      BY <2>4
    <3> QED
      BY <3>1, <3>2 DEF Bounded
  <2> QED
    BY <1>1, <1>2, <2>1, <2>5, <2>6 DEF RowsOK
<1>5. TablesOK(table, {"table"})
  BY <1>4 DEF TablesOK, Init
<1>6. TablesOK(trash, Location)
  <2>1. DOMAIN trash = Type /\ \A t \in Type : DOMAIN trash[t] = {}
    BY DEF Init, NoRows
  <2>2. \A t \in Type : Subs(trash[t]) = {}
    BY <2>1 DEF Subs
  <2> QED
    BY <1>1, <2>1, <2>2 DEF TablesOK, RowsOK
<1>7. TasksOK(tasks)
  <2>1. tasks = [k \in {1} |-> [uuid |-> 1, hidden |-> 0,
                               refs |-> [s \in TaskSlots |-> First(s)]]]
    BY DEF Init
  <2>2. [s \in TaskSlots |-> First(s)] \in [TaskSlots -> Ref]
    BY <1>3
  <2>3. [uuid |-> 1, hidden |-> 0, refs |-> [s \in TaskSlots |-> First(s)]] \in TaskRow
    BY <1>2, <2>2 DEF TaskRow
  <2> QED
    BY <1>1, <1>2, <2>1, <2>3 DEF TasksOK
<1>8. AllLinks \subseteq Link
  BY <1>2 DEF AllLinks, Link, Location
<1>9. new \in 0 .. MaxNew /\ commands \in 0 .. MaxCommands
  BY Constants DEF Init
<1>10. tag_resources = AllLinks /\ permissions = AllLinks /\ session = NoSession
  BY DEF Init
<1> QED
  BY <1>5, <1>6, <1>7, <1>8, <1>9, <1>10, NoSessionType DEF Types

\* The invariant of the types, of every specification with this Next.
LEMMA TypesInvariant == Spec => []Types
<1>1. Types /\ [Next]_vars => Types'
  BY NextStep, Stutter
<1> QED
  BY <1>1, InitTypes, PTL DEF Spec

(***************************************************************************)
(* The ids that the commands store, in the rows of a table or a trash      *)
(* table, in tasks, tags, permissions and sessions, are ids, and the       *)
(* resources in a table never refer to the trashcan, however often they    *)
(* are deleted and restored (delete_target ... manage_restore).            *)
(***************************************************************************)
THEOREM ResourcesTypeCorrect == Spec => []TypeOK
BY TypesInvariant, TypesGiveTypeOK, PTL

-----------------------------------------------------------------------------
(***************************************************************************)
(* Names.                                                                  *)
(***************************************************************************)
\* A row is added or changed, and its name is free.
LEMMA ChangedNames ==
    ASSUME UniqueNames, NEW t \in Type, NEW id, Changed(t, id)
    PROVE  \A i, j \in DOMAIN table'[t] :
              table'[t][i].name = table'[t][j].name /\ table'[t][i].name # NoName
                  => i = j
<1>1. \A i \in DOMAIN table[t] \ {id} :
          \/ table'[t][id].name = NoName
          \/ table'[t][i].name # table'[t][id].name
  <2> TAKE i \in DOMAIN table[t] \ {id}
  <2>1. table'[t][i] = table[t][i]
    BY DEF Changed
  <2>2. CASE NameFree(t, table'[t][id].name, id)
    BY <2>1, <2>2 DEF NameFree
  <2>3. CASE id \in DOMAIN table[t] /\ table'[t][id].name = table[t][id].name
    BY <2>1, <2>3 DEF UniqueNames
  <2> QED
    BY <2>2, <2>3 DEF Changed, NewRow
<1>2. \A i, j \in DOMAIN table[t] \ {id} :
          table'[t][i].name = table'[t][j].name /\ table'[t][i].name # NoName => i = j
  BY DEF Changed, UniqueNames
<1>3. DOMAIN table'[t] = DOMAIN table[t] \cup {id}
  BY DEF Changed
<1> QED
  BY <1>1, <1>2, <1>3

LEMMA NamesStep == Types /\ UniqueNames /\ Step => UniqueNames'
<1> SUFFICES ASSUME Types, UniqueNames, Step PROVE UniqueNames'
  OBVIOUS
<1>1. ASSUME \A t \in Type :
                /\ DOMAIN table'[t] \subseteq DOMAIN table[t]
                /\ \A i \in DOMAIN table'[t] : table'[t][i] = table[t][i]
      PROVE  UniqueNames'
  BY <1>1 DEF UniqueNames
<1>2. CASE GrowStep
  <2> SUFFICES ASSUME NEW t \in Type
               PROVE  \A i, j \in DOMAIN table'[t] :
                         table'[t][i].name = table'[t][j].name
                             /\ table'[t][i].name # NoName => i = j
    BY DEF UniqueNames
  <2>1. CASE table'[t] = table[t]
    BY <2>1 DEF UniqueNames
  <2>2. CASE \E id \in Id : Changed(t, id)
    BY <2>2, ChangedNames
  <2> QED
    BY <1>2, <2>1, <2>2 DEF GrowStep
<1>3. CASE TaskStep \/ TrashTaskStep \/ EmptyStep
  <2>1. table' = table
    BY <1>3 DEF TaskStep, TrashTaskStep, HideStep, DropStep, EmptyStep
  <2> QED
    BY <1>1, <2>1
<1>4. CASE DeleteStep
  <2>1. ASSUME NEW t, NEW i, NEW id, ToTrashStep(t, i, id) PROVE UniqueNames'
    BY <1>1, <2>1 DEF ToTrashStep
  <2>2. ASSUME NEW t, NEW i, FromTableStep(t, i) PROVE UniqueNames'
    BY <1>1, <2>2 DEF FromTableStep
  <2>3. ASSUME NEW t, NEW i, FromTrashStep(t, i) PROVE UniqueNames'
    BY <1>1, <2>3 DEF FromTrashStep
  <2> QED
    BY <1>4, <2>1, <2>2, <2>3 DEF DeleteStep
<1>5. CASE RestoreStep
  <2>1. PICK t \in Type, b \in Id, id \in Id : ToTableStep(t, b, id)
    BY <1>5 DEF RestoreStep
  <2>2. /\ \A u \in Type \ {t} : DOMAIN table'[u] = DOMAIN table[u]
        /\ DOMAIN table'[t] = DOMAIN table[t] \cup {id} /\ id \notin DOMAIN table[t]
        /\ \A u \in Type : \A j \in DOMAIN table[u] : table'[u][j] = table[u][j]
    BY <2>1 DEF ToTableStep
  <2>3. \A j \in DOMAIN table[t] : table[t][j].name # table'[t][id].name
    <3>1. 0 \notin DOMAIN table[t]
      BY TableRows DEF Id
    <3> QED
      BY <2>1, <3>1 DEF ToTableStep, NameFree
  <2> QED
    BY <2>2, <2>3 DEF UniqueNames
<1> QED
  BY <1>2, <1>3, <1>4, <1>5 DEF Step

(***************************************************************************)
(* Two resources of a type never have the same name, unless it is the      *)
(* empty one: neither when a resource is made, copied or renamed, nor when *)
(* one comes back from the trashcan after its name has been given again    *)
(* (resource_with_name_exists, manage_restore).                            *)
(***************************************************************************)
THEOREM NamesStayUnique == Spec => []UniqueNames
<1>1. Init => UniqueNames
  <2> SUFFICES ASSUME Init PROVE UniqueNames
    OBVIOUS
  <2>1. \A t \in Type : DOMAIN table[t] = {1}
    BY DEF Init
  <2> QED
    BY <2>1 DEF UniqueNames
<1>2. Types /\ UniqueNames /\ [Next]_vars => UniqueNames'
  BY NextStep, Stutter, NamesStep DEF Step
<1> QED
  BY <1>1, <1>2, TypesInvariant, PTL DEF Spec

-----------------------------------------------------------------------------
(***************************************************************************)
(* Permissions.  A permission for a task has its location.                 *)
(***************************************************************************)
TaskPermissions ==
    \A l \in permissions : l.type = "task" /\ l.id > 0 =>
        /\ l.id \in DOMAIN tasks /\ tasks[l.id].uuid = l.to
        /\ l.loc = IF tasks[l.id].hidden = 0 THEN "table" ELSE "trash"

\* A permission for a resource finds it in the tables.
FindsIn(tables, trashes, t, ref) ==
    LET rows == IF ref.loc = "table" THEN tables[t] ELSE trashes[t]
    IN ref.id \in DOMAIN rows /\ rows[ref.id].uuid = ref.to
ResourcePermissions ==
    \A l \in permissions : l.type \notin {"target", "task"} /\ l.id > 0 =>
        FindsIn(table, trash, l.type, l)
PermissionsInv == TaskPermissions /\ ResourcePermissions

LEMMA PermissionsInvKept == PermissionsInv => PermissionsKept
BY DEF PermissionsInv, TaskPermissions, ResourcePermissions, PermissionsKept,
       Finds, FindsIn

LEMMA LinkFields ==
    ASSUME NEW l \in Link
    PROVE  /\ l.type \in Type \cup {"task"} /\ l.loc \in {"table", "trash"}
           /\ l.id > 0 => l.id \in Id
           /\ l.id > 0 => l.id # -1
           /\ l.id = -1 => ~(l.id > 0)
BY DEF Link, Location, Id

\* The tables keep the UUIDs of their rows.
LEMMA GrowFinds ==
    ASSUME GrowStep, NEW t \in Type, NEW ref, FindsIn(table, trash, t, ref)
    PROVE  FindsIn(table', trash', t, ref)
<1>1. /\ DOMAIN table[t] \subseteq DOMAIN table'[t] /\ trash' = trash
      /\ \A i \in DOMAIN table[t] : table'[t][i].uuid = table[t][i].uuid
  BY DEF GrowStep, Changed, NewRow
<1> QED
  BY <1>1 DEF FindsIn

\* What a reference or a permission finds before a move, it finds after it.
LEMMA ToTrashFinds ==
    ASSUME NEW t, NEW i, NEW id, ToTrashStep(t, i, id), NEW s \in Type, NEW ref,
           ref.loc \in {"table", "trash"}, FindsIn(table, trash, s, ref),
           NEW moved, moved.to = ref.to,
           IF s = t /\ ref.id = i /\ ref.loc = "table"
           THEN moved.id = id /\ moved.loc = "trash"
           ELSE moved.id = ref.id /\ moved.loc = ref.loc
    PROVE  FindsIn(table', trash', s, moved)
<1>1. /\ DOMAIN table'[s] = DOMAIN table[s] \ (IF s = t THEN {i} ELSE {})
      /\ \A j \in DOMAIN table'[s] : table'[s][j] = table[s][j]
      /\ DOMAIN trash'[s] = DOMAIN trash[s] \cup (IF s = t THEN {id} ELSE {})
      /\ \A j \in DOMAIN trash[s] : trash'[s][j].uuid = trash[s][j].uuid
      /\ trash'[t][id].uuid = table[t][i].uuid
  BY DEF ToTrashStep, RowFollows
<1> QED
  BY <1>1 DEF FindsIn

LEMMA ToTableFinds ==
    ASSUME NEW t, NEW i, NEW id, ToTableStep(t, i, id), NEW s \in Type, NEW ref,
           ref.loc \in {"table", "trash"}, FindsIn(table, trash, s, ref),
           NEW moved, moved.to = ref.to,
           IF s = t /\ ref.id = i /\ ref.loc = "trash"
           THEN moved.id = id /\ moved.loc = "table"
           ELSE moved.id = ref.id /\ moved.loc = ref.loc
    PROVE  FindsIn(table', trash', s, moved)
<1>1. /\ DOMAIN trash'[s] = DOMAIN trash[s] \ (IF s = t THEN {i} ELSE {})
      /\ \A j \in DOMAIN trash'[s] : trash'[s][j].uuid = trash[s][j].uuid
      /\ DOMAIN table'[s] = DOMAIN table[s] \cup (IF s = t THEN {id} ELSE {})
      /\ \A j \in DOMAIN table[s] : table'[s][j] = table[s][j]
      /\ table'[t][id].uuid = trash[t][i].uuid
  BY DEF ToTableStep, RowFollows
<1> QED
  BY <1>1 DEF FindsIn

LEMMA FromTableFinds ==
    ASSUME NEW t, NEW i, FromTableStep(t, i), NEW s \in Type, NEW ref,
           FindsIn(table, trash, s, ref),
           ~(s = t /\ ref.id = i /\ ref.loc = "table")
    PROVE  FindsIn(table', trash', s, ref)
<1>1. /\ DOMAIN table'[s] = DOMAIN table[s] \ (IF s = t THEN {i} ELSE {})
      /\ \A j \in DOMAIN table'[s] : table'[s][j] = table[s][j] /\ trash' = trash
  BY DEF FromTableStep
<1>2. trash' = trash
  BY DEF FromTableStep
<1> QED
  BY <1>1, <1>2 DEF FindsIn

LEMMA FromTrashFinds ==
    ASSUME NEW t, NEW i, FromTrashStep(t, i), NEW s \in Type, NEW ref,
           FindsIn(table, trash, s, ref), ref.loc \in {"table", "trash"},
           ~(s = t /\ ref.id = i /\ ref.loc = "trash")
    PROVE  FindsIn(table', trash', s, ref)
<1>1. /\ DOMAIN trash'[s] = DOMAIN trash[s] \ (IF s = t THEN {i} ELSE {})
      /\ \A j \in DOMAIN trash'[s] : trash'[s][j] = trash[s][j]
  BY DEF FromTrashStep
<1>2. table' = table
  BY DEF FromTrashStep
<1> QED
  BY <1>1, <1>2 DEF FindsIn

LEMMA ResourcePermissionsStep ==
    Types /\ ResourcePermissions /\ Step => ResourcePermissions'
<1> SUFFICES ASSUME Types, ResourcePermissions, Step,
                    NEW l \in permissions', l.type \notin {"target", "task"}, l.id > 0
             PROVE  FindsIn(table', trash', l.type, l)
  BY DEF ResourcePermissions
<1> DEFINE s == l.type
<1>1. \A m \in permissions : m.type = s /\ m.id > 0 =>
          s \in Type /\ m.loc \in {"table", "trash"} /\ FindsIn(table, trash, s, m)
  BY LinkFields DEF Types, ResourcePermissions
<1>2. l.id # -1 /\ s # "task"
  OBVIOUS
<1> HIDE DEF s
<1>3. CASE GrowStep
  BY <1>1, <1>3, GrowFinds DEF GrowStep, s
<1>4. CASE TaskStep
  <2>1. l \in permissions /\ table' = table /\ trash' = trash
    BY <1>2, <1>4 DEF TaskStep, s
  <2> QED
    BY <1>1, <2>1 DEF s
<1>5. CASE DeleteStep
  <2>1. ASSUME NEW t \in Type, NEW i \in Id, NEW id \in Id, ToTrashStep(t, i, id)
        PROVE  FindsIn(table', trash', s, l)
    <3>1. PICK m \in permissions : LinkFollows(m, l, t, i, id, "trash")
      BY <2>1 DEF ToTrashStep, PermissionsFollow
    <3>2. /\ m.type = s /\ l.to = m.to
          /\ IF s = t /\ m.id = i /\ m.loc = "table"
             THEN l.id = id /\ l.loc = "trash" ELSE l.id = m.id /\ l.loc = m.loc
      BY <3>1 DEF LinkFollows, Other, s
    <3>3. m.id > 0
      BY <3>2 DEF Id
    <3> QED
      BY <1>1, <2>1, <3>2, <3>3, ToTrashFinds
  <2>2. ASSUME NEW t \in Type, NEW i \in Id, FromTableStep(t, i)
        PROVE  FindsIn(table', trash', s, l)
    <3>1. l \in permissions /\ ~(s = t /\ l.id = i /\ l.loc = "table")
      BY <1>2, <2>2 DEF FromTableStep, PermissionsLeft, s
    <3>2. s \in Type /\ FindsIn(table, trash, s, l)
      BY <1>1, <3>1 DEF s
    <3> QED
      BY <2>2, <3>1, <3>2, FromTableFinds
  <2>3. ASSUME NEW t \in Type, NEW i \in Id, FromTrashStep(t, i)
        PROVE  FindsIn(table', trash', s, l)
    <3>1. l \in permissions /\ ~(s = t /\ l.id = i /\ l.loc = "trash")
      BY <1>2, <2>3 DEF FromTrashStep, PermissionsLeft, s
    <3>2. s \in Type /\ FindsIn(table, trash, s, l) /\ l.loc \in {"table", "trash"}
      BY <1>1, <3>1 DEF s
    <3> QED
      BY <2>3, <3>1, <3>2, FromTrashFinds
  <2> QED
    BY <1>5, <2>1, <2>2, <2>3 DEF DeleteStep, s
<1>6. CASE RestoreStep
  <2>1. PICK t \in Type, i \in Id, id \in Id : ToTableStep(t, i, id)
    BY <1>6 DEF RestoreStep
  <2>2. PICK m \in permissions : LinkFollows(m, l, t, i, id, "table")
    BY <2>1 DEF ToTableStep, PermissionsFollow
  <2>3. /\ m.type = s /\ l.to = m.to
        /\ IF s = t /\ m.id = i /\ m.loc = "trash"
           THEN l.id = id /\ l.loc = "table" ELSE l.id = m.id /\ l.loc = m.loc
    BY <2>2 DEF LinkFollows, Other, s
  <2>4. m.id > 0
    BY <2>3 DEF Id
  <2>5. FindsIn(table', trash', s, l)
    BY <1>1, <2>1, <2>3, <2>4, ToTableFinds
  <2> QED
    BY <2>5 DEF s
<1>7. CASE TrashTaskStep
  <2>1. table' = table /\ trash' = trash
    BY <1>7 DEF TrashTaskStep, HideStep, DropStep
  <2>2. ASSUME NEW k, NEW hidden, HideStep(k, hidden) PROVE FindsIn(table, trash, s, l)
    <3>1. PICK m \in permissions :
              LinkFollows(m, l, "task", k, k, IF hidden = 0 THEN "table" ELSE "trash")
      BY <2>2 DEF HideStep
    <3>2. m.type = s /\ l.to = m.to /\ l.id = m.id /\ l.loc = m.loc
      BY <1>2, <3>1 DEF LinkFollows, s
    <3>3. FindsIn(table, trash, s, m)
      BY <1>1, <3>2
    <3> QED
      BY <3>2, <3>3 DEF FindsIn
  <2>3. ASSUME NEW k, DropStep(k) PROVE FindsIn(table, trash, s, l)
    BY <1>1, <1>2, <2>3 DEF DropStep, PermissionsLeft, s
  <2> QED
    BY <1>7, <2>1, <2>2, <2>3 DEF TrashTaskStep, s
<1>8. CASE EmptyStep
  <2>1. l \in permissions /\ l.loc = "table" /\ table' = table
    BY <1>2, <1>8 DEF EmptyStep
  <2>2. FindsIn(table, trash, s, l)
    BY <1>1, <2>1 DEF s
  <2> QED
    BY <2>1, <2>2 DEF FindsIn, s
<1> QED
  BY <1>3, <1>4, <1>5, <1>6, <1>7, <1>8 DEF Step

\* The tasks keep their UUIDs and are not moved.
LEMMA TaskPermissionsKept ==
    ASSUME TaskPermissions, NEW l, NEW m \in permissions,
           l.type = "task", l.id > 0,
           m.type = l.type /\ m.to = l.to /\ m.id = l.id /\ m.loc = l.loc,
           l.id \in DOMAIN tasks => l.id \in DOMAIN tasks',
           \A k \in DOMAIN tasks \cap DOMAIN tasks' :
               tasks'[k].uuid = tasks[k].uuid /\ tasks'[k].hidden = tasks[k].hidden
    PROVE  /\ l.id \in DOMAIN tasks' /\ tasks'[l.id].uuid = l.to
           /\ l.loc = IF tasks'[l.id].hidden = 0 THEN "table" ELSE "trash"
<1>1. /\ l.id \in DOMAIN tasks /\ tasks[l.id].uuid = l.to
      /\ l.loc = IF tasks[l.id].hidden = 0 THEN "table" ELSE "trash"
  BY DEF TaskPermissions
<1> QED
  BY <1>1

LEMMA TaskPermissionsStep == Types /\ TaskPermissions /\ Step => TaskPermissions'
<1> SUFFICES ASSUME Types, TaskPermissions, Step,
                    NEW l \in permissions', l.type = "task", l.id > 0
             PROVE  /\ l.id \in DOMAIN tasks' /\ tasks'[l.id].uuid = l.to
                    /\ l.loc = IF tasks'[l.id].hidden = 0 THEN "table" ELSE "trash"
  BY DEF TaskPermissions
<1>1. l.id # -1 /\ l.type \notin Type
  BY DEF Type
<1>2. CASE GrowStep
  BY <1>2, TaskPermissionsKept DEF GrowStep
<1>3. CASE TaskStep
  <2>1. /\ DOMAIN tasks \subseteq DOMAIN tasks'
        /\ \A k \in DOMAIN tasks :
              tasks'[k].uuid = tasks[k].uuid /\ tasks'[k].hidden = tasks[k].hidden
        /\ \A k \in DOMAIN tasks' \ DOMAIN tasks : tasks'[k].hidden = 0
    BY <1>3 DEF TaskStep, TaskChanged
  <2>2. CASE l \in permissions
    BY <2>1, <2>2, TaskPermissionsKept
  <2>3. CASE l \notin permissions
    BY <1>3, <2>1, <2>3 DEF TaskStep
  <2> QED
    BY <2>2, <2>3
<1>4. CASE DeleteStep \/ RestoreStep
  <2>1. ASSUME NEW t, NEW i, NEW id, NEW loc, PermissionsFollow(t, i, id, loc),
               t \in Type, TasksFollow(t, i, id, loc)
        PROVE  /\ l.id \in DOMAIN tasks' /\ tasks'[l.id].uuid = l.to
               /\ l.loc = IF tasks'[l.id].hidden = 0 THEN "table" ELSE "trash"
    <3>1. PICK m \in permissions : LinkFollows(m, l, t, i, id, loc)
      BY <2>1 DEF PermissionsFollow
    <3>2. m.type = l.type /\ m.to = l.to /\ m.id = l.id /\ m.loc = l.loc
      BY <1>1, <2>1, <3>1 DEF LinkFollows
    <3> QED
      BY <2>1, <3>2, TaskPermissionsKept DEF TasksFollow
  <2>2. ASSUME NEW t, NEW i, NEW loc, PermissionsLeft(t, i, loc), tasks' = tasks
        PROVE  /\ l.id \in DOMAIN tasks' /\ tasks'[l.id].uuid = l.to
               /\ l.loc = IF tasks'[l.id].hidden = 0 THEN "table" ELSE "trash"
    BY <1>1, <2>2, TaskPermissionsKept DEF PermissionsLeft
  <2>3. CASE \E t \in Type : \E i, id \in Id : ToTrashStep(t, i, id)
    BY <2>1, <2>3 DEF ToTrashStep
  <2>4. CASE \E t \in Type : \E i \in Id : FromTableStep(t, i)
    BY <2>2, <2>4 DEF FromTableStep
  <2>5. CASE \E t \in Type : \E i \in Id : FromTrashStep(t, i)
    BY <2>2, <2>5 DEF FromTrashStep
  <2>6. CASE RestoreStep
    BY <2>1, <2>6 DEF RestoreStep, ToTableStep
  <2> QED
    BY <1>4, <2>3, <2>4, <2>5, <2>6 DEF DeleteStep
<1>5. CASE \E k \in Id, hidden \in {0, 2} : HideStep(k, hidden)
  <2>1. PICK k \in Id, hidden \in {0, 2} : HideStep(k, hidden)
    BY <1>5
  <2> DEFINE loc == IF hidden = 0 THEN "table" ELSE "trash"
  <2>2. PICK m \in permissions : LinkFollows(m, l, "task", k, k, loc)
    BY <2>1 DEF HideStep
  <2>3. /\ m.type = "task" /\ m.to = l.to /\ m.id = l.id
        /\ l.loc = IF m.id = k /\ m.loc = Other(loc) THEN loc ELSE m.loc
    BY <2>2 DEF LinkFollows
  <2>4. /\ l.id \in DOMAIN tasks /\ tasks[l.id].uuid = l.to
        /\ m.loc = IF tasks[l.id].hidden = 0 THEN "table" ELSE "trash"
    BY <2>3 DEF TaskPermissions
  <2>5. \A j \in DOMAIN tasks : tasks[j].hidden \in {0, 2}
    BY TaskRows
  <2>6. /\ DOMAIN tasks' = DOMAIN tasks
        /\ \A j \in DOMAIN tasks \ {k} : tasks'[j] = tasks[j]
        /\ tasks'[k].uuid = tasks[k].uuid
        /\ tasks[k].hidden # hidden /\ tasks'[k].hidden = hidden
    BY <2>1 DEF HideStep
  <2>7. CASE l.id = k
    <3>1. m.loc = Other(loc)
      BY <2>4, <2>5, <2>6, <2>7 DEF Other
    <3> QED
      BY <2>3, <2>4, <2>6, <2>7, <3>1
  <2>8. CASE l.id # k
    BY <2>3, <2>4, <2>6, <2>8
  <2> QED
    BY <2>7, <2>8
<1>6. CASE \E k \in Id : DropStep(k)
  <2>1. PICK k \in Id : DropStep(k)
    BY <1>6
  <2>2. l \in permissions
        /\ ~(l.id = k /\ l.loc = IF tasks[k].hidden = 0 THEN "table" ELSE "trash")
    BY <1>1, <2>1 DEF DropStep, PermissionsLeft
  <2>3. l.id # k
    BY <2>2 DEF TaskPermissions
  <2> QED
    BY <2>1, <2>2, <2>3, TaskPermissionsKept DEF DropStep
<1>7. CASE EmptyStep
  <2>1. l \in permissions /\ l.loc = "table"
    BY <1>1, <1>7 DEF EmptyStep
  <2>2. l.id \in DOMAIN tasks /\ tasks[l.id].hidden = 0
    BY <2>1 DEF TaskPermissions
  <2> QED
    BY <1>7, <2>1, <2>2, TaskPermissionsKept DEF EmptyStep
<1> QED
  BY <1>2, <1>3, <1>4, <1>5, <1>6, <1>7 DEF Step, TrashTaskStep

(***************************************************************************)
(* A permission applies to the very resource that it was given for, or to  *)
(* none, although an id that has been deleted is given out again: it       *)
(* follows the resource to the trashcan and back, and is made an orphan    *)
(* when the resource goes for good (permissions_set_locations,             *)
(* permissions_set_orphans, manage_empty_trashcan).  PermissionsKept       *)
(* leaves the permissions for targets out.                                 *)
(***************************************************************************)
THEOREM PermissionsApply == Spec => []PermissionsKept
<1>1. Init => PermissionsInv
  <2> SUFFICES ASSUME Init, NEW l \in permissions, l.type # "target"
               PROVE  /\ l.id = 1 /\ l.to = 1 /\ l.loc = "table"
                      /\ l.type \in Type \cup {"task"}
                      /\ \A t \in Type : DOMAIN table[t] = {1} /\ table[t][1].uuid = 1
                      /\ DOMAIN tasks = {1} /\ tasks[1].uuid = 1 /\ tasks[1].hidden = 0
    BY DEF PermissionsInv, TaskPermissions, ResourcePermissions, FindsIn
  <2>1. l \in AllLinks
    BY DEF Init
  <2>2. l.id = 1 /\ l.to = 1 /\ l.loc = "table" /\ l.type \in Type \cup {"task"}
    BY <2>1 DEF AllLinks
  <2>3. \A t \in Type : DOMAIN table[t] = {1} /\ table[t][1].uuid = 1
    BY DEF Init
  <2>4. DOMAIN tasks = {1} /\ tasks[1].uuid = 1 /\ tasks[1].hidden = 0
    BY DEF Init
  <2> QED
    BY <2>2, <2>3, <2>4
<1>2. Types /\ PermissionsInv /\ [Next]_vars => PermissionsInv'
  BY NextStep, Stutter, TaskPermissionsStep, ResourcePermissionsStep
     DEF Step, PermissionsInv
<1> QED
  BY <1>1, <1>2, TypesInvariant, PermissionsInvKept, PTL DEF Spec

-----------------------------------------------------------------------------
(***************************************************************************)
(* References.  A reference keeps to its resource when the resource is     *)
(* moved, for its id is then changed with it.  What has gone stays so,     *)
(* since the UUID of a new resource is above all those in use, and a       *)
(* resource that is deleted for good has gone, since no other one has its  *)
(* UUID.                                                                   *)
(***************************************************************************)
FreshUuids ==
    \A t \in Type :
        /\ \A i \in DOMAIN table[t] : table[t][i].uuid \in 1 .. NewUuid - 1
        /\ \A i \in DOMAIN trash[t] : trash[t][i].uuid \in 1 .. NewUuid - 1
UniqueUuids ==
    \A t \in Type :
        /\ \A i, j \in DOMAIN table[t] : table[t][i].uuid = table[t][j].uuid => i = j
        /\ \A i, j \in DOMAIN trash[t] : trash[t][i].uuid = trash[t][j].uuid => i = j
        /\ \A i \in DOMAIN table[t] : \A j \in DOMAIN trash[t] :
              table[t][i].uuid # trash[t][j].uuid

GoneIn(tables, trashes, t, uuid) ==
    /\ \A i \in DOMAIN tables[t] : tables[t][i].uuid # uuid
    /\ \A i \in DOMAIN trashes[t] : trashes[t][i].uuid # uuid
KeptIn(tables, trashes, n, t, ref) ==
    /\ ref.to \in 0 .. n - 1
    /\ \/ ref.to = 0
       \/ FindsIn(tables, trashes, t, ref)
       \/ GoneIn(tables, trashes, t, ref.to)

RowsInv ==
    \A t \in Type : \A s \in Slots(t) \ {"scanner"} :
        /\ \A i \in DOMAIN table[t] :
              KeptIn(table, trash, NewUuid, s, table[t][i].refs[s])
        /\ \A i \in DOMAIN trash[t] :
              KeptIn(table, trash, NewUuid, s, trash[t][i].refs[s])
\* Only the tasks in the trashcan refer to it.
LiveInTable ==
    \A k \in DOMAIN tasks : tasks[k].hidden = 0 =>
        \A s \in TaskSlots : tasks[k].refs[s].loc = "table"
TaskRefsInv ==
    \A k \in DOMAIN tasks :
        /\ \A s \in {"config", "schedule", "alert"} : tasks[k].refs[s].to # 0 =>
              FindsIn(table, trash, s, tasks[k].refs[s])
        /\ KeptIn(table, trash, NewUuid, "scanner", tasks[k].refs["scanner"])
UuidsInv == FreshUuids /\ UniqueUuids

LEMMA KeptInTables ==
    ASSUME NEW t, NEW ref
    PROVE  /\ FindsIn(table, trash, t, ref) => Finds(t, ref)
           /\ KeptIn(table, trash, NewUuid, t, ref) => Kept(t, ref)
BY DEF KeptIn, Kept, FindsIn, Finds, GoneIn, Gone

LEMMA RowsInvKept == RowsInv => RefsKept
BY KeptInTables DEF RowsInv, RefsKept

LEMMA TaskRefsInvKept == TaskRefsInv => TasksKept
BY KeptInTables DEF TaskRefsInv, TasksKept

LEMMA NewUuids ==
    ASSUME Types, Types', Step
    PROVE  /\ NewUuid \in Nat /\ NewUuid' \in Nat /\ NewUuid > 1
           /\ NewUuid <= NewUuid'
           /\ new > 0 /\ new' = new - 1 => NewUuid' = NewUuid + 1
           /\ new' = new => NewUuid' = NewUuid
<1>1. new \in 0 .. MaxNew /\ new' \in 0 .. MaxNew
  BY DEF Types
<1>2. new' = new \/ (new > 0 /\ new' = new - 1)
  BY DEF Step, GrowStep, TaskStep, DeleteStep, ToTrashStep, FromTableStep,
         FromTrashStep, RestoreStep, ToTableStep, TrashTaskStep, HideStep, DropStep,
         EmptyStep
<1>3. NewUuid = MaxNew + 1 + 1 - new /\ NewUuid' = MaxNew + 1 + 1 - new'
  BY DEF NewUuid, MaxUuid
<1>4. MaxNew \in Nat
  BY Constants
<1>5. ASSUME NEW n \in 0 .. MaxNew, NEW m \in 0 .. MaxNew,
             m = n \/ (n > 0 /\ m = n - 1)
      PROVE  /\ MaxNew + 1 + 1 - n \in Nat /\ MaxNew + 1 + 1 - m \in Nat
             /\ MaxNew + 1 + 1 - n > 1
             /\ MaxNew + 1 + 1 - n <= MaxNew + 1 + 1 - m
             /\ n > 0 /\ m = n - 1 => MaxNew + 1 + 1 - m = MaxNew + 1 + 1 - n + 1
  BY <1>4, <1>5
<1> QED
  BY <1>1, <1>2, <1>3, <1>5

\* Every row after a step has the UUID of a row before it, or a new one.
HadUuid(t, uuid) ==
    \/ \E i \in DOMAIN table[t] : table[t][i].uuid = uuid
    \/ \E i \in DOMAIN trash[t] : trash[t][i].uuid = uuid
LEMMA UuidsFrom ==
    ASSUME Types, Step, NEW t \in Type
    PROVE  /\ \A i \in DOMAIN table'[t] :
                 \/ HadUuid(t, table'[t][i].uuid)
                 \/ table'[t][i].uuid = NewUuid /\ new > 0 /\ new' = new - 1
           /\ \A i \in DOMAIN trash'[t] : HadUuid(t, trash'[t][i].uuid)
<1>1. CASE GrowStep
  <2>1. trash' = trash
    BY <1>1 DEF GrowStep
  <2>2. CASE table'[t] = table[t]
    BY <2>1, <2>2 DEF HadUuid
  <2>3. ASSUME NEW id \in Id, Changed(t, id)
        PROVE  \A i \in DOMAIN table'[t] :
                 \/ HadUuid(t, table'[t][i].uuid)
                 \/ table'[t][i].uuid = NewUuid /\ new > 0 /\ new' = new - 1
    BY <2>3 DEF Changed, NewRow, HadUuid
  <2> QED
    BY <1>1, <2>1, <2>2, <2>3 DEF GrowStep, HadUuid
<1>2. CASE TaskStep \/ TrashTaskStep
  <2>1. table' = table /\ trash' = trash
    BY <1>2 DEF TaskStep, TrashTaskStep, HideStep, DropStep
  <2> QED
    BY <2>1 DEF HadUuid
<1>3. ASSUME NEW u, NEW i, NEW id, ToTrashStep(u, i, id)
      PROVE  /\ \A j \in DOMAIN table'[t] : HadUuid(t, table'[t][j].uuid)
             /\ \A j \in DOMAIN trash'[t] : HadUuid(t, trash'[t][j].uuid)
  BY <1>3 DEF ToTrashStep, RowFollows, HadUuid
<1>4. ASSUME NEW u, NEW i, NEW id, ToTableStep(u, i, id)
      PROVE  /\ \A j \in DOMAIN table'[t] : HadUuid(t, table'[t][j].uuid)
             /\ \A j \in DOMAIN trash'[t] : HadUuid(t, trash'[t][j].uuid)
  BY <1>4 DEF ToTableStep, RowFollows, HadUuid
<1>5. ASSUME NEW u, NEW i, FromTableStep(u, i)
      PROVE  /\ \A j \in DOMAIN table'[t] : HadUuid(t, table'[t][j].uuid)
             /\ \A j \in DOMAIN trash'[t] : HadUuid(t, trash'[t][j].uuid)
  BY <1>5 DEF FromTableStep, HadUuid
<1>6. ASSUME NEW u, NEW i, FromTrashStep(u, i)
      PROVE  /\ \A j \in DOMAIN table'[t] : HadUuid(t, table'[t][j].uuid)
             /\ \A j \in DOMAIN trash'[t] : HadUuid(t, trash'[t][j].uuid)
  BY <1>6 DEF FromTrashStep, HadUuid
<1>7. CASE EmptyStep
  BY <1>7 DEF EmptyStep, HadUuid
<1> QED
  BY <1>1, <1>2, <1>3, <1>4, <1>5, <1>6, <1>7 DEF Step, DeleteStep, RestoreStep

LEMMA FreshUuidsStep == Types /\ Types' /\ FreshUuids /\ Step => FreshUuids'
<1> SUFFICES ASSUME Types, Types', FreshUuids, Step, NEW t \in Type
             PROVE  /\ \A i \in DOMAIN table'[t] : table'[t][i].uuid \in 1 .. NewUuid' - 1
                    /\ \A i \in DOMAIN trash'[t] : trash'[t][i].uuid \in 1 .. NewUuid' - 1
  BY DEF FreshUuids
<1>1. \A u : HadUuid(t, u) => u \in 1 .. NewUuid - 1
  BY DEF FreshUuids, HadUuid
<1>2. \A u : u \in 1 .. NewUuid - 1 => u \in 1 .. NewUuid' - 1
  BY NewUuids
<1>3. new > 0 /\ new' = new - 1 => NewUuid \in 1 .. NewUuid' - 1
  BY NewUuids
<1> QED
  BY <1>1, <1>2, <1>3, UuidsFrom

\* What has gone stays so.
LEMMA GoneStep ==
    ASSUME Types, Step, NEW t \in Type, NEW uuid \in 0 .. NewUuid - 1,
           NewUuid \in Nat, GoneIn(table, trash, t, uuid)
    PROVE  GoneIn(table', trash', t, uuid)
<1>1. ~HadUuid(t, uuid)
  BY DEF GoneIn, HadUuid
<1>2. uuid # NewUuid
  OBVIOUS
<1> QED
  BY <1>1, <1>2, UuidsFrom DEF GoneIn

LEMMA UniqueUuidsStep == Types /\ UuidsInv /\ Step => UniqueUuids'
<1> SUFFICES ASSUME Types, UuidsInv, Step, NEW t \in Type
             PROVE  /\ \A i, j \in DOMAIN table'[t] :
                          table'[t][i].uuid = table'[t][j].uuid => i = j
                    /\ \A i, j \in DOMAIN trash'[t] :
                          trash'[t][i].uuid = trash'[t][j].uuid => i = j
                    /\ \A i \in DOMAIN table'[t] : \A j \in DOMAIN trash'[t] :
                          table'[t][i].uuid # trash'[t][j].uuid
  BY DEF UniqueUuids
<1>1. /\ \A i, j \in DOMAIN table[t] : table[t][i].uuid = table[t][j].uuid => i = j
      /\ \A i, j \in DOMAIN trash[t] : trash[t][i].uuid = trash[t][j].uuid => i = j
      /\ \A i \in DOMAIN table[t] : \A j \in DOMAIN trash[t] :
            table[t][i].uuid # trash[t][j].uuid
  BY DEF UuidsInv, UniqueUuids
<1>2. CASE GrowStep
  <2>1. /\ \A i \in DOMAIN table[t] : table[t][i].uuid # NewUuid
        /\ \A i \in DOMAIN trash[t] : trash[t][i].uuid # NewUuid
    <3>1. NewUuid \in Int
      BY Constants DEF NewUuid, MaxUuid, Types
    <3> QED
      BY <3>1 DEF UuidsInv, FreshUuids
  <2>2. trash' = trash
    BY <1>2 DEF GrowStep
  <2>3. CASE table'[t] = table[t]
    BY <1>1, <2>2, <2>3
  <2>4. CASE \E id \in Id : Changed(t, id)
    <3>1. PICK id \in Id : Changed(t, id)
      BY <2>4
    <3>2. /\ DOMAIN table'[t] = DOMAIN table[t] \cup {id}
          /\ \A i \in DOMAIN table[t] : table'[t][i].uuid = table[t][i].uuid
          /\ id \notin DOMAIN table[t] => table'[t][id].uuid = NewUuid
      BY <3>1 DEF Changed, NewRow
    <3> QED
      BY <1>1, <2>1, <2>2, <3>2
  <2> QED
    BY <1>2, <2>3, <2>4 DEF GrowStep
<1>3. CASE TaskStep \/ TrashTaskStep
  <2>1. table' = table /\ trash' = trash
    BY <1>3 DEF TaskStep, TrashTaskStep, HideStep, DropStep
  <2> QED
    BY <1>1, <2>1
<1>4. CASE \E u \in Type : \E b, id \in Id : ToTrashStep(u, b, id)
  <2>1. PICK u \in Type, b \in Id, id \in Id : ToTrashStep(u, b, id)
    BY <1>4
  <2>2. /\ DOMAIN table'[t] = DOMAIN table[t] \ (IF t = u THEN {b} ELSE {})
        /\ \A j \in DOMAIN table'[t] : table'[t][j].uuid = table[t][j].uuid
        /\ DOMAIN trash'[t] = DOMAIN trash[t] \cup (IF t = u THEN {id} ELSE {})
        /\ \A j \in DOMAIN trash[t] : trash'[t][j].uuid = trash[t][j].uuid
        /\ t = u => trash'[t][id].uuid = table[t][b].uuid /\ b \in DOMAIN table[t]
        /\ t = u => id \notin DOMAIN trash[t]
    BY <2>1 DEF ToTrashStep, RowFollows
  <2> QED
    BY <1>1, <2>2
<1>5. CASE \E u \in Type : \E b, id \in Id : ToTableStep(u, b, id)
  <2>1. PICK u \in Type, b \in Id, id \in Id : ToTableStep(u, b, id)
    BY <1>5
  <2>2. /\ DOMAIN trash'[t] = DOMAIN trash[t] \ (IF t = u THEN {b} ELSE {})
        /\ \A j \in DOMAIN trash'[t] : trash'[t][j].uuid = trash[t][j].uuid
        /\ DOMAIN table'[t] = DOMAIN table[t] \cup (IF t = u THEN {id} ELSE {})
        /\ \A j \in DOMAIN table[t] : table'[t][j].uuid = table[t][j].uuid
        /\ t = u => table'[t][id].uuid = trash[t][b].uuid /\ b \in DOMAIN trash[t]
        /\ t = u => id \notin DOMAIN table[t]
    BY <2>1 DEF ToTableStep, RowFollows
  <2> QED
    BY <1>1, <2>2
<1>6. CASE \E u \in Type : \E b \in Id : FromTableStep(u, b)
  BY <1>1, <1>6 DEF FromTableStep
<1>7. CASE \E u \in Type : \E b \in Id : FromTrashStep(u, b)
  BY <1>1, <1>7 DEF FromTrashStep
<1>8. CASE EmptyStep
  BY <1>1, <1>8 DEF EmptyStep
<1> QED
  BY <1>2, <1>3, <1>4, <1>5, <1>6, <1>7, <1>8 DEF Step, DeleteStep, RestoreStep

\* What the reference that is kept needs: the number of UUIDs only grows.
LEMMA KeptStep ==
    ASSUME Types, Types', Step, NEW t \in Type, NEW ref, NEW moved, moved.to = ref.to,
           KeptIn(table, trash, NewUuid, t, ref),
           FindsIn(table, trash, t, ref) =>
               \/ FindsIn(table', trash', t, moved)
               \/ GoneIn(table', trash', t, ref.to)
    PROVE  KeptIn(table', trash', NewUuid', t, moved)
<1>1. ref.to \in 0 .. NewUuid - 1 /\ ref.to \in 0 .. NewUuid' - 1
  BY NewUuids DEF KeptIn
<1>2. GoneIn(table, trash, t, ref.to) => GoneIn(table', trash', t, ref.to)
  BY <1>1, NewUuids, GoneStep
<1> QED
  BY <1>1, <1>2 DEF KeptIn

LEMMA GrowKeeps ==
    ASSUME Types, Types', GrowStep, NEW t \in Type, NEW ref,
           KeptIn(table, trash, NewUuid, t, ref)
    PROVE  KeptIn(table', trash', NewUuid', t, ref)
BY GrowFinds, KeptStep DEF Step

LEMMA IdleKeeps ==
    ASSUME Types, Types', Step, table' = table, trash' = trash, NEW t \in Type,
           NEW ref, KeptIn(table, trash, NewUuid, t, ref)
    PROVE  KeptIn(table', trash', NewUuid', t, ref)
BY KeptStep

LEMMA ToTrashKeeps ==
    ASSUME Types, Types', NEW t \in Type, NEW i \in Id, NEW id \in Id,
           ToTrashStep(t, i, id), NEW s \in Type, NEW ref,
           ref.loc \in {"table", "trash"}, KeptIn(table, trash, NewUuid, s, ref),
           NEW moved, moved.to = ref.to,
           IF s = t /\ ref.id = i /\ ref.loc = "table"
           THEN moved.id = id /\ moved.loc = "trash"
           ELSE moved.id = ref.id /\ moved.loc = ref.loc
    PROVE  KeptIn(table', trash', NewUuid', s, moved)
<1>1. Step
  BY DEF Step, DeleteStep
<1>2. FindsIn(table, trash, s, ref) => FindsIn(table', trash', s, moved)
  BY ToTrashFinds
<1> QED
  BY <1>1, <1>2, KeptStep

LEMMA ToTableKeeps ==
    ASSUME Types, Types', NEW t \in Type, NEW i \in Id, NEW id \in Id,
           ToTableStep(t, i, id), NEW s \in Type, NEW ref,
           ref.loc \in {"table", "trash"}, KeptIn(table, trash, NewUuid, s, ref),
           NEW moved, moved.to = ref.to,
           IF s = t /\ ref.id = i /\ ref.loc = "trash"
           THEN moved.id = id /\ moved.loc = "table"
           ELSE moved.id = ref.id /\ moved.loc = ref.loc
    PROVE  KeptIn(table', trash', NewUuid', s, moved)
<1>1. Step
  BY DEF Step, RestoreStep
<1>2. FindsIn(table, trash, s, ref) => FindsIn(table', trash', s, moved)
  BY ToTableFinds
<1> QED
  BY <1>1, <1>2, KeptStep

\* What is deleted for good has gone.
LEMMA FromTableKeeps ==
    ASSUME Types, Types', UniqueUuids, NEW t \in Type, NEW i \in Id,
           FromTableStep(t, i), NEW s \in Type, NEW ref,
           KeptIn(table, trash, NewUuid, s, ref)
    PROVE  KeptIn(table', trash', NewUuid', s, ref)
<1>1. Step
  BY DEF Step, DeleteStep
<1>2. ASSUME FindsIn(table, trash, s, ref), s = t, ref.id = i, ref.loc = "table"
      PROVE  GoneIn(table', trash', s, ref.to)
  <2>1. i \in DOMAIN table[t] /\ table[t][i].uuid = ref.to
    BY <1>2 DEF FindsIn
  <2>2. /\ DOMAIN table'[t] = DOMAIN table[t] \ {i} /\ trash' = trash
        /\ \A j \in DOMAIN table'[t] : table'[t][j] = table[t][j]
    BY DEF FromTableStep
  <2> QED
    BY <1>2, <2>1, <2>2 DEF UniqueUuids, GoneIn
<1> QED
  BY <1>1, <1>2, FromTableFinds, KeptStep

LEMMA FromTrashKeeps ==
    ASSUME Types, Types', UniqueUuids, NEW t \in Type, NEW i \in Id,
           FromTrashStep(t, i), NEW s \in Type, NEW ref,
           ref.loc \in {"table", "trash"}, KeptIn(table, trash, NewUuid, s, ref)
    PROVE  KeptIn(table', trash', NewUuid', s, ref)
<1>1. Step
  BY DEF Step, DeleteStep
<1>2. ASSUME FindsIn(table, trash, s, ref), s = t, ref.id = i, ref.loc = "trash"
      PROVE  GoneIn(table', trash', s, ref.to)
  <2>1. i \in DOMAIN trash[t] /\ trash[t][i].uuid = ref.to
    BY <1>2 DEF FindsIn
  <2>2. /\ DOMAIN trash'[t] = DOMAIN trash[t] \ {i} /\ table' = table
        /\ \A j \in DOMAIN trash'[t] : trash'[t][j] = trash[t][j]
    BY DEF FromTrashStep
  <2> QED
    BY <1>2, <2>1, <2>2 DEF UniqueUuids, GoneIn
<1> QED
  BY <1>1, <1>2, FromTrashFinds, KeptStep

\* What is not in the trashcan stays.
LEMMA EmptyKeeps ==
    ASSUME Types, Types', EmptyStep, NEW t \in Type, NEW ref, ref.loc = "table",
           KeptIn(table, trash, NewUuid, t, ref)
    PROVE  KeptIn(table', trash', NewUuid', t, ref)
<1>1. FindsIn(table, trash, t, ref) => FindsIn(table', trash', t, ref)
  BY DEF FindsIn, EmptyStep
<1> QED
  BY <1>1, KeptStep DEF Step

\* References are made to nothing or to a row of a table.
LEMMA NoRefKept ==
    ASSUME NEW n \in Nat, n > 1, NEW tables, NEW trashes, NEW t
    PROVE  KeptIn(tables, trashes, n, t, NoRef)
BY NoRefType DEF KeptIn

LEMMA RowOfTableKept ==
    ASSUME Types, FreshUuids, NEW t \in Type, NEW ref, ref.loc = "table",
           ref.id \in DOMAIN table[t], ref.to = table[t][ref.id].uuid
    PROVE  KeptIn(table, trash, NewUuid, t, ref)
<1>1. NewUuid \in Int
  BY Constants DEF NewUuid, MaxUuid, Types
<1>2. ref.to \in 0 .. NewUuid - 1
  BY <1>1 DEF FreshUuids
<1> QED
  BY <1>2 DEF KeptIn, FindsIn

\* The location of a reference.
LEMMA RefLocations ==
    ASSUME Types, NEW t \in Type, NEW s \in Slots(t)
    PROVE  /\ \A i \in DOMAIN table[t] : table[t][i].refs[s].loc = "table"
           /\ \A i \in DOMAIN trash[t] : trash[t][i].refs[s].loc \in {"table", "trash"}
BY DEF Types, TablesOK, RowsOK, RowOK, Location

LEMMA RowsInvStep ==
    Types /\ Types' /\ UuidsInv /\ FreshUuids' /\ RowsInv /\ Step => RowsInv'
<1> SUFFICES ASSUME Types, Types', UuidsInv, FreshUuids', RowsInv, Step,
                    NEW t \in Type, NEW s \in Slots(t) \ {"scanner"}
             PROVE  /\ \A i \in DOMAIN table'[t] :
                          KeptIn(table', trash', NewUuid', s, table'[t][i].refs[s])
                    /\ \A i \in DOMAIN trash'[t] :
                          KeptIn(table', trash', NewUuid', s, trash'[t][i].refs[s])
  BY DEF RowsInv
<1>1. s \in Type /\ s # t
  BY SlotsAreTypes
<1>2. /\ \A i \in DOMAIN table[t] :
            /\ KeptIn(table, trash, NewUuid, s, table[t][i].refs[s])
            /\ table[t][i].refs[s].loc = "table"
      /\ \A i \in DOMAIN trash[t] :
            /\ KeptIn(table, trash, NewUuid, s, trash[t][i].refs[s])
            /\ trash[t][i].refs[s].loc \in {"table", "trash"}
  BY RefLocations DEF RowsInv
<1>3. CASE GrowStep
  <2>1. \A i \in DOMAIN table[t] :
            KeptIn(table', trash', NewUuid', s, table[t][i].refs[s])
    BY <1>1, <1>2, <1>3, GrowKeeps
  <2>2. \A i \in DOMAIN trash'[t] :
            KeptIn(table', trash', NewUuid', s, trash'[t][i].refs[s])
    BY <1>1, <1>2, <1>3, GrowKeeps DEF GrowStep
  <2>3. CASE table'[t] = table[t]
    BY <2>1, <2>2, <2>3
  <2>4. CASE \E id \in Id : Changed(t, id)
    <3>1. PICK id \in Id : Changed(t, id)
      BY <2>4
    <3> DEFINE ref == table'[t][id].refs[s]
    <3>2. NewRef(t, s, ref)
      BY <3>1 DEF Changed, NewRow
    <3>3. NewUuid' \in Nat /\ NewUuid' > 1
      BY NewUuids
    <3> HIDE DEF ref
    <3>4. KeptIn(table', trash', NewUuid', s, ref)
      <4>1. CASE ref = NoRef
        BY <3>3, <4>1, NoRefKept
      <4>2. CASE /\ ref.loc = "table" /\ ref.id \in DOMAIN table'[s]
                 /\ ref.to = table'[s][ref.id].uuid
        <5>1. ref.to \in 1 .. NewUuid' - 1
          BY <1>1, <4>2 DEF FreshUuids
        <5>2. ref.to \in 0 .. NewUuid' - 1
          BY <3>3, <5>1
        <5> QED
          BY <4>2, <5>2 DEF KeptIn, FindsIn
      <4>3. CASE \E j \in DOMAIN table[t] : ref = table[t][j].refs[s]
        BY <2>1, <4>3
      <4> QED
        BY <3>2, <4>1, <4>2, <4>3 DEF NewRef
    <3>5. \A i \in DOMAIN table'[t] : i = id \/
              (i \in DOMAIN table[t] /\ table'[t][i] = table[t][i])
      BY <3>1 DEF Changed
    <3> QED
      BY <2>1, <2>2, <3>4, <3>5 DEF ref
  <2> QED
    BY <1>3, <2>3, <2>4 DEF GrowStep
<1>4. CASE TaskStep \/ TrashTaskStep
  <2>1. table' = table /\ trash' = trash
    BY <1>4 DEF TaskStep, TrashTaskStep, HideStep, DropStep
  <2> QED
    BY <1>1, <1>2, <2>1, IdleKeeps
<1>5. CASE \E u \in Type : \E b, id \in Id : ToTrashStep(u, b, id)
  <2>1. PICK u \in Type, b \in Id, id \in Id : ToTrashStep(u, b, id)
    BY <1>5
  <2>2. ASSUME NEW ref, KeptIn(table, trash, NewUuid, s, ref),
               ref.loc \in {"table", "trash"},
               ~(s = u /\ ref.id = b /\ ref.loc = "table")
        PROVE  KeptIn(table', trash', NewUuid', s, ref)
    BY <1>1, <2>1, <2>2, ToTrashKeeps
  <2>3. ASSUME NEW i \in DOMAIN table[t]
        PROVE  KeptIn(table', trash', NewUuid', s, table[t][i].refs[s])
    <3>1. s = u => table[t][i].refs[s].id # b
      BY <2>1 DEF ToTrashStep
    <3> QED
      BY <1>2, <2>2, <3>1
  <2>4. \A i \in DOMAIN table'[t] : i \in DOMAIN table[t] /\ table'[t][i] = table[t][i]
    BY <2>1 DEF ToTrashStep
  <2>5. ASSUME NEW i \in DOMAIN trash[t]
        PROVE  KeptIn(table', trash', NewUuid', s, trash'[t][i].refs[s])
    <3> DEFINE ref == trash[t][i].refs[s]
               moved == trash'[t][i].refs[s]
    <3>1. moved = IF s = u THEN FollowRef(ref, b, id, "trash") ELSE ref
      BY <2>1, <2>5 DEF ToTrashStep, RowFollows
    <3>2. KeptIn(table, trash, NewUuid, s, ref) /\ ref.loc \in {"table", "trash"}
      BY <1>2, <2>5
    <3> HIDE DEF ref, moved
    <3>3. /\ moved.to = ref.to
          /\ IF s = u /\ ref.id = b /\ ref.loc = "table"
             THEN moved.id = id /\ moved.loc = "trash"
             ELSE moved.id = ref.id /\ moved.loc = ref.loc
      BY <3>1 DEF FollowRef, Other
    <3>4. KeptIn(table', trash', NewUuid', s, moved)
      BY <1>1, <2>1, <3>2, <3>3, ToTrashKeeps
    <3> QED
      BY <3>4 DEF moved
  <2>6. \A i \in DOMAIN trash'[t] \ DOMAIN trash[t] :
            t = u /\ i = id /\ trash'[t][i].refs = table[t][b].refs /\ b \in DOMAIN table[t]
    BY <2>1 DEF ToTrashStep
  <2>7. \A i \in DOMAIN trash'[t] \ DOMAIN trash[t] :
            KeptIn(table', trash', NewUuid', s, trash'[t][i].refs[s])
    BY <1>1, <2>3, <2>6
  <2> QED
    BY <2>3, <2>4, <2>5, <2>7
<1>6. CASE \E u \in Type : \E b, id \in Id : ToTableStep(u, b, id)
  <2>1. PICK u \in Type, b \in Id, id \in Id : ToTableStep(u, b, id)
    BY <1>6
  <2>2. ASSUME NEW ref, KeptIn(table, trash, NewUuid, s, ref),
               ref.loc \in {"table", "trash"},
               ~(s = u /\ ref.id = b /\ ref.loc = "trash")
        PROVE  KeptIn(table', trash', NewUuid', s, ref)
    BY <1>1, <2>1, <2>2, ToTableKeeps
  <2>3. \A i \in DOMAIN table[t] :
            KeptIn(table', trash', NewUuid', s, table[t][i].refs[s])
    BY <1>2, <2>2
  <2>4. \A i \in DOMAIN table[t] : table'[t][i] = table[t][i]
    BY <2>1 DEF ToTableStep
  <2>5. ASSUME NEW i \in DOMAIN trash'[t]
        PROVE  KeptIn(table', trash', NewUuid', s, trash'[t][i].refs[s])
    <3> DEFINE ref == trash[t][i].refs[s]
               moved == trash'[t][i].refs[s]
    <3>1. /\ moved = IF s = u THEN FollowRef(ref, b, id, "table") ELSE ref
          /\ i \in DOMAIN trash[t]
      BY <2>1, <2>5 DEF ToTableStep, RowFollows
    <3>2. KeptIn(table, trash, NewUuid, s, ref) /\ ref.loc \in {"table", "trash"}
      BY <1>2, <3>1
    <3> HIDE DEF ref, moved
    <3>3. /\ moved.to = ref.to
          /\ IF s = u /\ ref.id = b /\ ref.loc = "trash"
             THEN moved.id = id /\ moved.loc = "table"
             ELSE moved.id = ref.id /\ moved.loc = ref.loc
      BY <3>1 DEF FollowRef, Other
    <3>4. KeptIn(table', trash', NewUuid', s, moved)
      BY <1>1, <2>1, <3>2, <3>3, ToTableKeeps
    <3> QED
      BY <3>4 DEF moved
  <2>6. \A i \in DOMAIN table'[t] \ DOMAIN table[t] :
            t = u /\ i = id /\ table'[t][i].refs = trash[t][b].refs /\ b \in DOMAIN trash[t]
    BY <2>1 DEF ToTableStep
  <2>7. \A i \in DOMAIN table'[t] \ DOMAIN table[t] :
            KeptIn(table', trash', NewUuid', s, table'[t][i].refs[s])
    BY <1>1, <1>2, <2>2, <2>6
  <2> QED
    BY <2>3, <2>4, <2>5, <2>7
<1>7. CASE \E u \in Type : \E b \in Id : FromTableStep(u, b)
  <2>1. PICK u \in Type, b \in Id : FromTableStep(u, b)
    BY <1>7
  <2>2. /\ \A i \in DOMAIN table[t] :
              KeptIn(table', trash', NewUuid', s, table[t][i].refs[s])
        /\ \A i \in DOMAIN trash[t] :
              KeptIn(table', trash', NewUuid', s, trash[t][i].refs[s])
    BY <1>1, <1>2, <2>1, FromTableKeeps DEF UuidsInv
  <2> QED
    BY <2>1, <2>2 DEF FromTableStep
<1>8. CASE \E u \in Type : \E b \in Id : FromTrashStep(u, b)
  <2>1. PICK u \in Type, b \in Id : FromTrashStep(u, b)
    BY <1>8
  <2>2. /\ \A i \in DOMAIN table[t] :
              KeptIn(table', trash', NewUuid', s, table[t][i].refs[s])
        /\ \A i \in DOMAIN trash[t] :
              KeptIn(table', trash', NewUuid', s, trash[t][i].refs[s])
    BY <1>1, <1>2, <2>1, FromTrashKeeps DEF UuidsInv
  <2> QED
    BY <2>1, <2>2 DEF FromTrashStep
<1>9. CASE EmptyStep
  <2>1. \A i \in DOMAIN table[t] :
            KeptIn(table', trash', NewUuid', s, table[t][i].refs[s])
    BY <1>1, <1>2, <1>9, EmptyKeeps
  <2> QED
    BY <1>9, <2>1 DEF EmptyStep
<1> QED
  BY <1>3, <1>4, <1>5, <1>6, <1>7, <1>8, <1>9 DEF Step, DeleteStep, RestoreStep

LEMMA LiveInTableStep == Types /\ LiveInTable /\ Step => LiveInTable'
<1> SUFFICES ASSUME Types, LiveInTable, Step, NEW k \in DOMAIN tasks',
                    tasks'[k].hidden = 0, NEW s \in TaskSlots
             PROVE  tasks'[k].refs[s].loc = "table"
  BY DEF LiveInTable
<1>1. ASSUME k \in DOMAIN tasks, tasks'[k].hidden = tasks[k].hidden
      PROVE  tasks[k].refs[s].loc = "table"
  BY <1>1 DEF LiveInTable
<1>2. CASE GrowStep
  BY <1>1, <1>2 DEF GrowStep
<1>3. CASE TaskStep
  <2>1. CASE tasks' = tasks
    BY <1>1, <2>1
  <2>2. CASE \E c \in Id : TaskChanged(c)
    <3>1. PICK c \in Id : TaskChanged(c)
      BY <2>2
    <3>2. CASE k # c
      BY <1>1, <3>1, <3>2 DEF TaskChanged
    <3>3. CASE k = c
      <4> DEFINE ref == tasks'[k].refs[s]
      <4>1. NewTaskRef(k, s, ref)
        BY <3>1, <3>3 DEF TaskChanged
      <4>2. k \in DOMAIN tasks => tasks'[k].hidden = tasks[k].hidden
        BY <3>1, <3>3 DEF TaskChanged
      <4> HIDE DEF ref
      <4>3. ref.loc = "table"
        BY <1>1, <4>1, <4>2, NoRefType DEF NewTaskRef, LiveInTable
      <4> QED
        BY <4>3 DEF ref
    <3> QED
      BY <3>2, <3>3
  <2> QED
    BY <1>3, <2>1, <2>2 DEF TaskStep
<1>4. CASE DeleteStep \/ RestoreStep
  <2>1. ASSUME NEW t, NEW i, NEW id, NEW loc, TasksFollow(t, i, id, loc)
        PROVE  tasks'[k].refs[s].loc = "table"
    BY <1>1, <2>1 DEF TasksFollow
  <2>2. ASSUME tasks' = tasks PROVE tasks'[k].refs[s].loc = "table"
    BY <1>1, <2>2
  <2> QED
    BY <1>4, <2>1, <2>2 DEF DeleteStep, RestoreStep, ToTrashStep, ToTableStep,
                            FromTableStep, FromTrashStep
<1>5. CASE TrashTaskStep
  <2>1. ASSUME NEW c, NEW hidden, HideStep(c, hidden)
        PROVE  tasks'[k].refs[s].loc = "table"
    BY <1>1, <2>1 DEF HideStep
  <2>2. ASSUME NEW c, DropStep(c) PROVE tasks'[k].refs[s].loc = "table"
    BY <1>1, <2>2 DEF DropStep
  <2> QED
    BY <1>5, <2>1, <2>2 DEF TrashTaskStep
<1>6. CASE EmptyStep
  BY <1>1, <1>6 DEF EmptyStep
<1> QED
  BY <1>2, <1>3, <1>4, <1>5, <1>6 DEF Step

\* The references of a task that are to be kept, and those that find a row.
TaskRefKept(tables, trashes, n, s, ref) ==
    /\ s = "scanner" => KeptIn(tables, trashes, n, s, ref)
    /\ s # "scanner" /\ ref.to # 0 => FindsIn(tables, trashes, s, ref)
KeptSlots == {"config", "schedule", "alert", "scanner"}

LEMMA TaskRefsInvRefs ==
    TaskRefsInv <=> \A k \in DOMAIN tasks : \A s \in KeptSlots :
                        TaskRefKept(table, trash, NewUuid, s, tasks[k].refs[s])
BY DEF TaskRefsInv, KeptSlots, TaskRefKept

LEMMA KeptSlotTypes == \A s \in KeptSlots : s \in Type /\ s \in TaskSlots
BY DEF KeptSlots, Type, TaskSlots

LEMMA TaskRefTypes ==
    ASSUME Types, NEW k \in DOMAIN tasks, NEW s \in TaskSlots
    PROVE  tasks[k].refs[s].loc \in {"table", "trash"} /\ tasks[k].refs[s] \in Ref
<1>1. tasks[k] \in TaskRow
  BY DEF Types, TasksOK
<1> QED
  BY <1>1 DEF TaskRow, Ref, Location

LEMMA TaskRefsInvStep ==
    Types /\ Types' /\ UuidsInv /\ FreshUuids' /\ LiveInTable /\ TaskRefsInv /\ Step
        => TaskRefsInv'
<1> SUFFICES ASSUME Types, Types', UuidsInv, FreshUuids', LiveInTable, TaskRefsInv,
                    Step, NEW k \in DOMAIN tasks', NEW s \in KeptSlots
             PROVE  TaskRefKept(table', trash', NewUuid', s, tasks'[k].refs[s])
  BY DEF TaskRefsInv, KeptSlots, TaskRefKept
<1>1. s \in Type /\ s \in TaskSlots
  BY KeptSlotTypes
<1>2. \A j \in DOMAIN tasks :
          /\ TaskRefKept(table, trash, NewUuid, s, tasks[j].refs[s])
          /\ tasks[j].refs[s].loc \in {"table", "trash"}
  BY <1>1, TaskRefsInvRefs, TaskRefTypes
<1>3. CASE GrowStep
  <2>1. k \in DOMAIN tasks /\ tasks'[k] = tasks[k]
    BY <1>3 DEF GrowStep
  <2> DEFINE ref == tasks[k].refs[s]
  <2>2. TaskRefKept(table, trash, NewUuid, s, ref)
    BY <1>2, <2>1
  <2> HIDE DEF ref
  <2>3. TaskRefKept(table', trash', NewUuid', s, ref)
    BY <1>1, <1>3, <2>2, GrowKeeps, GrowFinds DEF TaskRefKept
  <2> QED
    BY <2>1, <2>3 DEF ref
<1>4. ASSUME NEW ref, table' = table, trash' = trash,
             TaskRefKept(table, trash, NewUuid, s, ref)
      PROVE  TaskRefKept(table', trash', NewUuid', s, ref)
  BY <1>1, <1>4, IdleKeeps DEF TaskRefKept
<1>5. CASE TaskStep
  <2>1. table' = table /\ trash' = trash
    BY <1>5 DEF TaskStep
  <2>2. CASE k \in DOMAIN tasks /\ tasks'[k] = tasks[k]
    BY <1>2, <1>4, <2>1, <2>2
  <2>3. CASE TaskChanged(k)
    <3> DEFINE ref == tasks'[k].refs[s]
    <3>1. NewTaskRef(k, s, ref)
      BY <1>1, <2>3 DEF TaskChanged
    <3>2. NewUuid' \in Nat /\ NewUuid' > 1
      BY NewUuids
    <3> HIDE DEF ref
    <3>3. CASE ref.to = 0
      BY <3>2, <3>3 DEF TaskRefKept, KeptIn, ref
    <3>4. CASE /\ ref.loc = "table" /\ ref.id \in DOMAIN table[s]
               /\ ref.to = table[s][ref.id].uuid
      <4>1. KeptIn(table, trash, NewUuid, s, ref)
        BY <1>1, <3>4, RowOfTableKept DEF UuidsInv
      <4>2. FindsIn(table, trash, s, ref)
        BY <3>4 DEF FindsIn
      <4> QED
        BY <1>4, <2>1, <4>1, <4>2 DEF TaskRefKept, ref
    <3>5. CASE \E j \in DOMAIN tasks : ref = tasks[j].refs[s]
      <4>1. TaskRefKept(table, trash, NewUuid, s, ref)
        BY <1>2, <3>5
      <4> QED
        BY <1>4, <2>1, <4>1 DEF ref
    <3> QED
      BY <3>1, <3>3, <3>4, <3>5, NoRefType DEF NewTaskRef
  <2>4. (k \in DOMAIN tasks /\ tasks'[k] = tasks[k]) \/ TaskChanged(k)
    BY <1>5 DEF TaskStep, TaskChanged
  <2> QED
    BY <2>2, <2>3, <2>4
<1>6. CASE \E t \in Type : \E b, id \in Id : ToTrashStep(t, b, id)
  <2>1. PICK t \in Type, b \in Id, id \in Id : ToTrashStep(t, b, id)
    BY <1>6
  <2> DEFINE ref == tasks[k].refs[s]
             moved == tasks'[k].refs[s]
  <2>2. /\ k \in DOMAIN tasks /\ moved.to = ref.to
        /\ moved = IF s = t THEN FollowRef(ref, b, id, "trash") ELSE ref
    BY <1>1, <2>1 DEF ToTrashStep, TasksFollow, KeptSlots
  <2>3. TaskRefKept(table, trash, NewUuid, s, ref) /\ ref.loc \in {"table", "trash"}
    BY <1>2, <2>2
  <2> HIDE DEF ref, moved
  <2>4. IF s = t /\ ref.id = b /\ ref.loc = "table"
        THEN moved.id = id /\ moved.loc = "trash"
        ELSE moved.id = ref.id /\ moved.loc = ref.loc
    BY <2>2 DEF FollowRef, Other
  <2>5. FindsIn(table, trash, s, ref) => FindsIn(table', trash', s, moved)
    BY <1>1, <2>1, <2>2, <2>3, <2>4, ToTrashFinds
  <2>6. KeptIn(table, trash, NewUuid, s, ref) =>
            KeptIn(table', trash', NewUuid', s, moved)
    BY <1>1, <2>1, <2>2, <2>3, <2>4, ToTrashKeeps
  <2>7. TaskRefKept(table', trash', NewUuid', s, moved)
    BY <2>2, <2>3, <2>5, <2>6 DEF TaskRefKept
  <2> QED
    BY <2>7 DEF moved
<1>7. CASE \E t \in Type : \E b, id \in Id : ToTableStep(t, b, id)
  <2>1. PICK t \in Type, b \in Id, id \in Id : ToTableStep(t, b, id)
    BY <1>7
  <2> DEFINE ref == tasks[k].refs[s]
             moved == tasks'[k].refs[s]
  <2>2. /\ k \in DOMAIN tasks /\ moved.to = ref.to
        /\ moved = IF s = t THEN FollowRef(ref, b, id, "table") ELSE ref
    BY <1>1, <2>1 DEF ToTableStep, TasksFollow, KeptSlots
  <2>3. TaskRefKept(table, trash, NewUuid, s, ref) /\ ref.loc \in {"table", "trash"}
    BY <1>2, <2>2
  <2> HIDE DEF ref, moved
  <2>4. IF s = t /\ ref.id = b /\ ref.loc = "trash"
        THEN moved.id = id /\ moved.loc = "table"
        ELSE moved.id = ref.id /\ moved.loc = ref.loc
    BY <2>2 DEF FollowRef, Other
  <2>5. FindsIn(table, trash, s, ref) => FindsIn(table', trash', s, moved)
    BY <1>1, <2>1, <2>2, <2>3, <2>4, ToTableFinds
  <2>6. KeptIn(table, trash, NewUuid, s, ref) =>
            KeptIn(table', trash', NewUuid', s, moved)
    BY <1>1, <2>1, <2>2, <2>3, <2>4, ToTableKeeps
  <2>7. TaskRefKept(table', trash', NewUuid', s, moved)
    BY <2>2, <2>3, <2>5, <2>6 DEF TaskRefKept
  <2> QED
    BY <2>7 DEF moved
<1>8. CASE \E t \in Type : \E b \in Id : FromTableStep(t, b)
  <2>1. PICK t \in Type, b \in Id : FromTableStep(t, b)
    BY <1>8
  <2> DEFINE ref == tasks[k].refs[s]
  <2>2. tasks' = tasks
    BY <2>1 DEF FromTableStep
  <2>3. TaskRefKept(table, trash, NewUuid, s, ref)
    BY <1>2, <2>2
  <2>4. s # "scanner" => ~(s = t /\ ref.id = b /\ ref.loc = "table")
    BY <2>1, <2>2 DEF FromTableStep, Refers, KeptSlots
  <2> HIDE DEF ref
  <2>5. TaskRefKept(table', trash', NewUuid', s, ref)
    BY <1>1, <2>1, <2>3, <2>4, FromTableKeeps, FromTableFinds DEF TaskRefKept, UuidsInv
  <2> QED
    BY <2>2, <2>5 DEF ref
<1>9. CASE \E t \in Type : \E b \in Id : FromTrashStep(t, b)
  <2>1. PICK t \in Type, b \in Id : FromTrashStep(t, b)
    BY <1>9
  <2> DEFINE ref == tasks[k].refs[s]
  <2>2. tasks' = tasks
    BY <2>1 DEF FromTrashStep
  <2>3. TaskRefKept(table, trash, NewUuid, s, ref) /\ ref.loc \in {"table", "trash"}
    BY <1>2, <2>2
  <2>4. s # "scanner" => ~(s = t /\ ref.id = b /\ ref.loc = "trash")
    BY <2>1, <2>2 DEF FromTrashStep, Refers, KeptSlots
  <2> HIDE DEF ref
  <2>5. TaskRefKept(table', trash', NewUuid', s, ref)
    BY <1>1, <2>1, <2>3, <2>4, FromTrashKeeps, FromTrashFinds DEF TaskRefKept, UuidsInv
  <2> QED
    BY <2>2, <2>5 DEF ref
<1>10. CASE TrashTaskStep
  <2>1. table' = table /\ trash' = trash
    BY <1>10 DEF TrashTaskStep, HideStep, DropStep
  <2>2. k \in DOMAIN tasks /\ tasks'[k].refs = tasks[k].refs
    <3>1. ASSUME NEW c, NEW hidden, HideStep(c, hidden)
          PROVE  k \in DOMAIN tasks /\ tasks'[k].refs = tasks[k].refs
      BY <3>1 DEF HideStep
    <3>2. ASSUME NEW c, DropStep(c)
          PROVE  k \in DOMAIN tasks /\ tasks'[k].refs = tasks[k].refs
      BY <3>2 DEF DropStep
    <3> QED
      BY <1>10, <3>1, <3>2 DEF TrashTaskStep
  <2> QED
    BY <1>2, <1>4, <2>1, <2>2
<1>11. CASE EmptyStep
  <2> DEFINE ref == tasks[k].refs[s]
  <2>1. k \in DOMAIN tasks /\ tasks'[k] = tasks[k] /\ tasks[k].hidden = 0
    BY <1>11 DEF EmptyStep
  <2>2. TaskRefKept(table, trash, NewUuid, s, ref) /\ ref.loc = "table"
    BY <1>1, <1>2, <2>1 DEF LiveInTable
  <2> HIDE DEF ref
  <2>3. FindsIn(table, trash, s, ref) => FindsIn(table', trash', s, ref)
    BY <1>11, <2>2 DEF FindsIn, EmptyStep
  <2>4. TaskRefKept(table', trash', NewUuid', s, ref)
    BY <1>1, <1>11, <2>2, <2>3, EmptyKeeps DEF TaskRefKept
  <2> QED
    BY <2>1, <2>4 DEF ref
<1> QED
  BY <1>3, <1>5, <1>6, <1>7, <1>8, <1>9, <1>10, <1>11
     DEF Step, DeleteStep, RestoreStep

\* The inductive invariant of the references.
RefsInv == UuidsInv /\ RowsInv /\ LiveInTable /\ TaskRefsInv

LEMMA InitRefs == Init => RefsInv
<1> SUFFICES ASSUME Init PROVE RefsInv
  OBVIOUS
<1>1. /\ \A t \in Type : /\ DOMAIN table[t] = {1} /\ table[t][1].uuid = 1
                         /\ \A s \in Slots(t) : table[t][1].refs[s] = First(s)
                         /\ DOMAIN trash[t] = {}
      /\ DOMAIN tasks = {1} /\ \A s \in TaskSlots : tasks[1].refs[s] = First(s)
  BY DEF Init, NoRows
<1>2. NewUuid = 2
  BY Constants DEF Init, NewUuid, MaxUuid
<1>3. ASSUME NEW s \in Type
      PROVE  /\ FindsIn(table, trash, s, First(s)) /\ First(s).loc = "table"
             /\ KeptIn(table, trash, NewUuid, s, First(s))
  BY <1>1, <1>2 DEF FindsIn, KeptIn, First
<1>4. UuidsInv
  BY <1>1, <1>2 DEF UuidsInv, FreshUuids, UniqueUuids
<1>5. RowsInv
  BY <1>1, <1>3, SlotsAreTypes DEF RowsInv
<1>6. LiveInTable
  BY <1>1 DEF LiveInTable, First
<1>7. TaskRefsInv
  BY <1>1, <1>3, KeptSlotTypes DEF TaskRefsInv, KeptSlots
<1> QED
  BY <1>4, <1>5, <1>6, <1>7 DEF RefsInv

LEMMA RefsInvariant == Spec => []RefsInv
<1>1. Types /\ Types' /\ RefsInv /\ Step => RefsInv'
  BY FreshUuidsStep, UniqueUuidsStep, RowsInvStep, LiveInTableStep, TaskRefsInvStep
     DEF RefsInv, UuidsInv
<1>2. Types /\ RefsInv /\ [Next]_vars => RefsInv'
  BY <1>1, NextStep, Stutter DEF Step
<1> QED
  BY <1>2, InitRefs, TypesInvariant, PTL DEF Spec

(***************************************************************************)
(* A reference from one resource to another, of a target to its port list  *)
(* and credential, of a scanner to its credential, of an alert to its      *)
(* filter, keeps to the resource that it was made to as long as that       *)
(* exists, however the two are deleted, restored, copied and modified and  *)
(* whichever ids they get (delete_port_list, delete_credential,            *)
(* delete_filter, manage_restore).                                         *)
(***************************************************************************)
THEOREM ReferencesKept == Spec => []RefsKept
<1>1. RefsInv => RefsKept
  BY RowsInvKept DEF RefsInv
<1> QED
  BY <1>1, RefsInvariant, PTL

(***************************************************************************)
(* The config, the schedule and the alert of a task exist, and are those   *)
(* it was given, as long as the task does, in the trashcan or not; its     *)
(* scanner is the one it was given as long as that exists (delete_config,  *)
(* delete_schedule, delete_alert, delete_scanner, manage_restore,          *)
(* manage_empty_trashcan).                                                 *)
(***************************************************************************)
THEOREM TaskReferencesKept == Spec => []TasksKept
<1>1. RefsInv => TasksKept
  BY TaskRefsInvKept DEF RefsInv
<1> QED
  BY <1>1, RefsInvariant, PTL

=============================================================================
