------------------------------ MODULE Resources ------------------------------
(***************************************************************************)
(* The resources of a user and the trashcan.  Each type of resource has a  *)
(* table and a trash table; deleting a resource moves its row from one to  *)
(* the other, where it gets another id, and every row that refers to it    *)
(* has to follow.  A row of a trash table, a task, a tag and a permission  *)
(* name the id and the location (table or trash) of what they refer to.  A *)
(* task stays in its table and is marked as trash.                         *)
(*                                                                         *)
(* Each command on resources is one transaction, except where the code     *)
(* looks a resource up in one and uses the id in another one: the commands *)
(* on tasks, CREATE_TARGET and the copy of a target.                       *)
(*                                                                         *)
(* Ids are given out as SQLite does, the highest id in use plus one.  What *)
(* the columns hold is left out but for the names, which are unique in a   *)
(* table, and the references.  Each reference carries, as history, the     *)
(* UUID of the resource that it was made to.  A target has one credential, *)
(* a port list one range, a task one alert.                                *)
(***************************************************************************)
EXTENDS Integers, FiniteSets, FiniteSetsExt

CONSTANTS
    Name,        \* the names that resources are given
    MaxNew,      \* how many resources and references are made
    MaxCommands  \* how many commands on the trashcan are given

ASSUME ResourcesAssumption ==
    Name # {} /\ "" \notin Name /\ MaxNew \in Nat /\ MaxCommands \in Nat

VARIABLES
    table,          \* type -> id -> row
    trash,          \* type -> id -> row
    tasks,          \* id -> row
    tag_resources,  \* what the tags are attached to
    permissions,    \* what the permissions are for
    session,        \* what a session has looked up and is going to use
    new,            \* resources and references left to make
    commands        \* commands left

vars == << table, trash, tasks, tag_resources, permissions, session, new,
           commands >>

Type == { "port_list", "credential", "target", "scanner", "config",
          "schedule", "filter", "alert" }
Location == { "table", "trash" }

\* The references in the rows of each type, and in those of tasks; the name
\* of a reference is the type that it refers to.
Slots(type) ==
    CASE type = "target"  -> { "port_list", "credential" }
      [] type = "scanner" -> { "credential" }
      [] type = "config"  -> { "scanner" }
      [] type = "alert"   -> { "filter" }
      [] OTHER            -> {}
TaskSlots == { "target", "config", "schedule", "scanner", "alert" }

\* The method and condition data of an alert name these by UUID.
DataSlots(type) == IF type = "alert" THEN { "credential", "filter" } ELSE {}

NoName == ""
NoRef == [ id |-> 0, loc |-> "table", to |-> 0 ]
NoRows == [ i \in {} |-> 0 ]
MaxUuid == MaxNew + 1
Id == Nat \ {0}
Ref == [ id : {0} \cup Id, loc : Location, to : 0 .. MaxUuid ]
Link == [ type : Type \cup {"task"}, id : {-1} \cup Id, loc : Location,
          to : 1 .. MaxUuid ]

\* sub is the id of the login data of a target, of the range of a port list.
Row(type) ==
    [ uuid : 1 .. MaxUuid, name : Name \cup {NoName}, sub : {0} \cup Id,
      refs : [ Slots(type) -> Ref ],
      data : [ DataSlots(type) -> 0 .. MaxUuid ] ]
TaskRow == [ uuid : 1 .. MaxUuid, hidden : {0, 2}, refs : [ TaskSlots -> Ref ] ]

NoSession == [ what |-> "none" ]
Session ==
    {NoSession}
        \cup [ what : {"create_target"}, id : Id ]
        \cup [ what : {"login"}, from : Id, to : Id ]
        \cup [ what : {"set"}, task : Id, slot : TaskSlots, id : Id ]

\* The type invariant.
TypeOK ==
    /\ DOMAIN table = Type /\ DOMAIN trash = Type
    /\ \A t \in Type :
          /\ DOMAIN table[t] \subseteq Id /\ DOMAIN trash[t] \subseteq Id
          /\ \A i \in DOMAIN table[t] :
                /\ table[t][i] \in Row(t)
                /\ \A s \in Slots(t) : table[t][i].refs[s].loc = "table"
          /\ \A i \in DOMAIN trash[t] : trash[t][i] \in Row(t)
    /\ DOMAIN tasks \subseteq Id
    /\ \A k \in DOMAIN tasks : tasks[k] \in TaskRow
    /\ tag_resources \subseteq Link /\ permissions \subseteq Link
    /\ session \in Session
    /\ new \in 0 .. MaxNew /\ commands \in 0 .. MaxCommands

\* One resource of each type in use by the others, each with a tag and a
\* permission.
First(t) == [ id |-> 1, loc |-> "table", to |-> 1 ]
AllLinks == { [ type |-> t, id |-> 1, loc |-> "table", to |-> 1 ] :
              t \in Type \cup {"task"} }
Init ==
    /\ table = [ t \in Type |->
          [ i \in {1} |->
              [ uuid |-> 1, name |-> CHOOSE n \in Name : TRUE,
                sub |-> IF t \in {"target", "port_list"} THEN 1 ELSE 0,
                refs |-> [ s \in Slots(t) |-> First(s) ],
                data |-> [ s \in DataSlots(t) |-> 1 ] ] ] ]
    /\ trash = [ t \in Type |-> NoRows ]
    /\ tasks = [ k \in {1} |->
          [ uuid |-> 1, hidden |-> 0,
            refs |-> [ s \in TaskSlots |-> First(s) ] ] ]
    /\ tag_resources = AllLinks /\ permissions = AllLinks
    /\ session = NoSession
    /\ new = MaxNew /\ commands = MaxCommands

-----------------------------------------------------------------------------
(***************************************************************************)
(* The SQL statements.                                                     *)
(***************************************************************************)
NextId(rows) == Max(DOMAIN rows \cup {0}) + 1
NextSub(rows) == Max({ rows[i].sub : i \in DOMAIN rows } \cup {0}) + 1
With(rows, id, row) ==
    [ i \in DOMAIN rows \cup {id} |-> IF i = id THEN row ELSE rows[i] ]
Without(rows, id) == [ i \in DOMAIN rows \ {id} |-> rows[i] ]

\* UPDATE ... SET slot = to, slot_location = loc
\*        WHERE slot = id AND slot_location = the other location
Other(loc) == IF loc = "table" THEN "trash" ELSE "table"
Follow(rows, slot, id, to, loc) ==
    [ i \in DOMAIN rows |->
        IF rows[i].refs[slot].id = id /\ rows[i].refs[slot].loc = Other(loc)
        THEN [ rows[i] EXCEPT !.refs[slot].id = to, !.refs[slot].loc = loc ]
        ELSE rows[i] ]

Refers(rows, slot, id, loc) ==
    \E i \in DOMAIN rows :
        rows[i].refs[slot].id = id /\ rows[i].refs[slot].loc = loc
LiveRefers(slot, id) ==
    \E k \in DOMAIN tasks :
        /\ tasks[k].hidden = 0
        /\ tasks[k].refs[slot].id = id /\ tasks[k].refs[slot].loc = "table"

set_locations(links, type, old, id, to) ==
    { IF l.type = type /\ l.id = old /\ l.loc = Other(to)
      THEN [ l EXCEPT !.id = id, !.loc = to ] ELSE l : l \in links }

permissions_set_locations(type, old, id, to) ==
    permissions' = set_locations(permissions, type, old, id, to)

tags_set_locations(type, old, id, to) ==
    tag_resources' = set_locations(tag_resources, type, old, id, to)

\* Mutant: the permissions of a deleted resource are left as they are.
permissions_set_orphans_Kept(type, id, loc) == UNCHANGED permissions

permissions_set_orphans(type, id, loc) ==
    permissions' =
        { IF l.type = type /\ l.id = id /\ l.loc = loc
          THEN [ l EXCEPT !.id = -1 ] ELSE l : l \in permissions }

tags_remove_resource(type, id, loc) ==
    tag_resources' =
        { l \in tag_resources : ~(l.type = type /\ l.id = id /\ l.loc = loc) }

\* Mutant: a name may be given again.
NameFree_Any(type, name, except) == TRUE

\* resource_with_name_exists
NameFree(type, name, except) ==
    \A i \in DOMAIN table[type] \ {except} : table[type][i].name # name

find_resource(type, id) == id \in DOMAIN table[type]

Command == commands > 0 /\ commands' = commands - 1 /\ UNCHANGED new
Make == new > 0 /\ new' = new - 1 /\ UNCHANGED commands
NewUuid == MaxUuid + 1 - new

-----------------------------------------------------------------------------
(***************************************************************************)
(* Making, copying and modifying resources.                                *)
(***************************************************************************)
\* A reference to a row of a table; to nothing for id 0.
To(type, id) ==
    IF id = 0 THEN NoRef
    ELSE [ id |-> id, loc |-> "table", to |-> table[type][id].uuid ]
MayRefer(type) == {0} \cup DOMAIN table[type]

Insert(type, name, sub, refs, data) ==
    /\ Make
    /\ NameFree(type, name, 0)
    /\ table' = [ table EXCEPT ![type] = With(@, NextId(@),
          [ uuid |-> NewUuid, name |-> name, sub |-> sub, refs |-> refs,
            data |-> data ]) ]

links == << tag_resources, permissions >>
Empty == [ s \in {} |-> 0 ]

create_credential ==
    /\ \E n \in Name : Insert("credential", n, 0, Empty, Empty)
    /\ UNCHANGED << trash, tasks, links, session >>

create_schedule ==
    /\ \E n \in Name : Insert("schedule", n, 0, Empty, Empty)
    /\ UNCHANGED << trash, tasks, links, session >>

create_filter ==
    /\ \E n \in Name : Insert("filter", n, 0, Empty, Empty)
    /\ UNCHANGED << trash, tasks, links, session >>

create_port_list ==
    /\ \E n \in Name :
          Insert("port_list", n, NextSub(table["port_list"]), Empty, Empty)
    /\ UNCHANGED << trash, tasks, links, session >>

\* A scanner at a Unix socket has no credential.
create_scanner ==
    /\ \E n \in Name, c \in MayRefer("credential") :
          Insert("scanner", n, 0, [ s \in {"credential"} |-> To(s, c) ], Empty)
    /\ UNCHANGED << trash, tasks, links, session >>

create_config ==
    /\ \E n \in Name :
          Insert("config", n, 0, [ s \in {"scanner"} |-> NoRef ], Empty)
    /\ UNCHANGED << trash, tasks, links, session >>

create_config_from_scanner ==
    /\ \E n \in Name, c \in DOMAIN table["scanner"] :
          Insert("config", n, 0, [ s \in {"scanner"} |-> To(s, c) ], Empty)
    /\ UNCHANGED << trash, tasks, links, session >>

create_alert ==
    /\ \E n \in Name, f \in MayRefer("filter") :
          Insert("alert", n, 0, [ s \in {"filter"} |-> To(s, f) ],
                 [ s \in DataSlots("alert") |-> 0 ])
    /\ UNCHANGED << trash, tasks, links, session >>

(***************************************************************************)
(* CREATE_TARGET looks the credential up, and create_target uses it in its *)
(* own transaction.  If it has gone by then, credential_type returns NULL  *)
(* and the session dies.                                                   *)
(***************************************************************************)
FindForTarget ==
    /\ session = NoSession /\ new > 0
    /\ \E c \in DOMAIN table["credential"] :
          session' = [ what |-> "create_target", id |-> c ]
    /\ UNCHANGED << table, trash, tasks, links, new, commands >>

create_target ==
    /\ \E n \in Name, p \in DOMAIN table["port_list"] :
          \/ /\ session = NoSession
             /\ Insert("target", n, 0,
                       [ s \in Slots("target") |->
                            IF s = "port_list" THEN To(s, p) ELSE NoRef ],
                       Empty)
          \/ /\ session.what = "create_target"
             /\ find_resource("credential", session.id)
             /\ Insert("target", n, NextSub(table["target"]),
                       [ s \in Slots("target") |->
                            To(s, IF s = "port_list" THEN p ELSE session.id) ],
                       Empty)
    /\ session' = NoSession
    /\ UNCHANGED << trash, tasks, links >>

create_target_dies ==
    /\ session.what = "create_target"
    /\ ~find_resource("credential", session.id)
    /\ session' = NoSession
    /\ UNCHANGED << table, trash, tasks, links, new, commands >>

\* Without a port list, create_port_list_unique makes one for the target.
create_target_with_ports ==
    /\ session = NoSession
    /\ Make
    /\ \E n, p \in Name :
          /\ NameFree("target", n, 0) /\ NameFree("port_list", p, 0)
          /\ LET id == NextId(table["port_list"])
                 range == NextSub(table["port_list"])
             IN table' = [ table EXCEPT
                  !["port_list"] = With(@, id,
                      [ uuid |-> NewUuid, name |-> p, sub |-> range,
                        refs |-> Empty, data |-> Empty ]),
                  !["target"] = With(@, NextId(@),
                      [ uuid |-> NewUuid, name |-> n, sub |-> 0,
                        refs |-> [ s \in Slots("target") |->
                            IF s = "port_list"
                            THEN [ id |-> id, loc |-> "table", to |-> NewUuid ]
                            ELSE NoRef ],
                        data |-> Empty ]) ]
    /\ UNCHANGED << trash, tasks, links, session >>

\* The tags of a resource are copied with it; the name is made unique.
copy_resource(type, i, row) ==
    /\ Make
    /\ LET id == NextId(table[type]) IN
          /\ \E n \in Name :
                /\ NameFree(type, n, 0)
                /\ table' = [ table EXCEPT ![type] = With(@, id,
                      [ row EXCEPT !.uuid = NewUuid, !.name = n ]) ]
          /\ tag_resources' = tag_resources \cup
                { [ l EXCEPT !.id = id, !.to = NewUuid ] :
                  l \in { l \in tag_resources : l.type = type /\ l.id = i
                                                  /\ l.loc = "table" } }
    /\ UNCHANGED << trash, tasks, permissions >>

Copy(type) ==
    /\ \E i \in DOMAIN table[type] : copy_resource(type, i, table[type][i])
    /\ UNCHANGED session

copy_alert == Copy("alert")
copy_config == Copy("config")
copy_credential == Copy("credential")
copy_filter == Copy("filter")
copy_scanner == Copy("scanner")
copy_schedule == Copy("schedule")

copy_port_list ==
    /\ LET rows == table["port_list"]
       IN \E i \in DOMAIN rows :
             copy_resource("port_list", i,
                           [ rows[i] EXCEPT !.sub = NextSub(rows) ])
    /\ UNCHANGED session

\* The login data are copied after the transaction.
copy_target ==
    /\ session = NoSession
    /\ LET rows == table["target"]
       IN \E i \in DOMAIN rows :
             /\ copy_resource("target", i,
                              [ rows[i] EXCEPT !.sub = 0,
                                               !.refs["credential"] = NoRef ])
             /\ session' = [ what |-> "login", from |-> i,
                             to |-> NextId(rows) ]

CopyLogin ==
    /\ session.what = "login"
    /\ session' = NoSession
    /\ LET rows == table["target"]
           old == rows[session.from]
       IN IF session.to \in DOMAIN rows /\ session.from \in DOMAIN rows
             /\ old.sub # 0
          THEN table' = [ table EXCEPT !["target"][session.to] =
                 [ @ EXCEPT !.sub = NextSub(rows),
                            !.refs["credential"] = old.refs["credential"] ] ]
          ELSE UNCHANGED table
    /\ UNCHANGED << trash, tasks, links, new, commands >>

Rename(type, i) ==
    \E n \in Name :
        NameFree(type, n, i) /\ table' = [ table EXCEPT ![type][i].name = n ]

\* A command without a name sets the empty one, which is not looked for.
Unname(type, i) == table' = [ table EXCEPT ![type][i].name = NoName ]

modify_credential ==
    /\ Make
    /\ \E i \in DOMAIN table["credential"] : Rename("credential", i)
    /\ UNCHANGED << trash, tasks, links, session >>

modify_schedule ==
    /\ Make
    /\ \E i \in DOMAIN table["schedule"] : Rename("schedule", i)
    /\ UNCHANGED << trash, tasks, links, session >>

modify_port_list ==
    /\ Make
    /\ \E i \in DOMAIN table["port_list"] :
          Rename("port_list", i) \/ Unname("port_list", i)
    /\ UNCHANGED << trash, tasks, links, session >>

modify_filter ==
    /\ Make
    /\ \E i \in DOMAIN table["filter"] :
          Rename("filter", i) \/ Unname("filter", i)
    /\ UNCHANGED << trash, tasks, links, session >>

config_in_use(i) == LiveRefers("config", i)

manage_set_config ==
    /\ Make
    /\ \E i \in DOMAIN table["config"] :
          \/ Rename("config", i)
          \/ /\ ~config_in_use(i)
             /\ \E c \in DOMAIN table["scanner"] :
                   table' = [ table EXCEPT !["config"][i].refs["scanner"] =
                                To("scanner", c) ]
    /\ UNCHANGED << trash, tasks, links, session >>

target_in_use(i) == LiveRefers("target", i)

ModifyPortList(i) ==
    \E p \in DOMAIN table["port_list"] :
        table' = [ table EXCEPT !["target"][i].refs["port_list"] =
                     To("port_list", p) ]

\* set_target_login_data: the row is deleted, updated or inserted.
set_target_login_data(i) ==
    LET login == table["target"][i].sub IN
    \E c \in MayRefer("credential") :
        table' = [ table EXCEPT !["target"][i] =
            [ @ EXCEPT !.sub = CASE c = 0      -> 0
                                 [] login # 0  -> login
                                 [] OTHER      -> NextSub(table["target"]),
                       !.refs["credential"] = To("credential", c) ] ]

modify_target ==
    /\ Make
    /\ \E i \in DOMAIN table["target"] :
          \/ Rename("target", i)
          \/ /\ ~target_in_use(i)
             /\ ModifyPortList(i) \/ set_target_login_data(i)
    /\ UNCHANGED << trash, tasks, links, session >>

modify_scanner ==
    /\ Make
    /\ \E i \in DOMAIN table["scanner"] :
          \/ Rename("scanner", i)
          \/ \E c \in DOMAIN table["credential"] :
                table' = [ table EXCEPT !["scanner"][i].refs["credential"] =
                             To("credential", c) ]
    /\ UNCHANGED << trash, tasks, links, session >>

\* The filter, the method data and the condition data are set anew.
modify_alert ==
    /\ Make
    /\ \E i \in DOMAIN table["alert"], f, g \in MayRefer("filter"),
          c \in MayRefer("credential"), n \in Name \cup {NoName} :
          /\ n # NoName => NameFree("alert", n, i)
          /\ table' = [ table EXCEPT !["alert"][i] =
             [ @ EXCEPT !.name = n,
                        !.refs["filter"] = To("filter", f),
                        !.data["filter"] = To("filter", g).to,
                        !.data["credential"] = To("credential", c).to ] ]
    /\ UNCHANGED << trash, tasks, links, session >>

-----------------------------------------------------------------------------
(***************************************************************************)
(* Tasks.  CREATE_TASK and MODIFY_TASK look each resource up and then set  *)
(* it in the task, in two transactions.  When the resource has left the    *)
(* table in between, the reference is to nothing, from the start.          *)
(***************************************************************************)
make_task ==
    /\ Make
    /\ tasks' = With(tasks, NextId(tasks),
          [ uuid |-> NewUuid, hidden |-> 0,
            refs |-> [ s \in TaskSlots |-> NoRef ] ])
    /\ UNCHANGED << table, trash, links, session >>

FindForTask ==
    /\ session = NoSession
    /\ Make
    /\ \E k \in DOMAIN tasks, s \in TaskSlots : \E i \in DOMAIN table[s] :
          /\ tasks[k].hidden = 0
          /\ session' = [ what |-> "set", task |-> k, slot |-> s, id |-> i ]
    /\ UNCHANGED << table, trash, tasks, links >>

Meant(slot, id, loc) ==
    IF loc = "table" /\ find_resource(slot, id) THEN table[slot][id].uuid ELSE 0

\* set_task_target, set_task_config, set_task_schedule, set_task_scanner leave
\* the location alone.
set_task_ref ==
    LET k == session.task s == session.slot IN
    /\ session.what = "set" /\ s # "alert"
    /\ tasks' = IF k \notin DOMAIN tasks THEN tasks
                ELSE [ tasks EXCEPT ![k].refs[s] =
                         [ id |-> session.id, loc |-> @.loc,
                           to |-> Meant(s, session.id, @.loc) ] ]
    /\ session' = NoSession
    /\ UNCHANGED << table, trash, links, new, commands >>

add_task_alert ==
    LET k == session.task IN
    /\ session.what = "set" /\ session.slot = "alert"
    /\ tasks' = IF k \notin DOMAIN tasks THEN tasks
                ELSE [ tasks EXCEPT ![k].refs["alert"] =
                         [ id |-> session.id, loc |-> "table",
                           to |-> Meant("alert", session.id, "table") ] ]
    /\ session' = NoSession
    /\ UNCHANGED << table, trash, links, new, commands >>

\* set_task_alerts looks the alert up in its own transaction.
set_task_alerts ==
    /\ Make
    /\ \E k \in DOMAIN tasks, i \in MayRefer("alert") :
          /\ tasks[k].hidden = 0
          /\ tasks' = [ tasks EXCEPT ![k].refs["alert"] = To("alert", i) ]
    /\ UNCHANGED << table, trash, links, session >>

\* The permissions and the tags of the task are copied too.
copy_task ==
    /\ Make
    /\ \E k \in DOMAIN tasks :
          LET id == NextId(tasks)
              Copied(set) == set \cup
                  { [ l EXCEPT !.id = id, !.to = NewUuid ] :
                    l \in { l \in set : l.type = "task" /\ l.id = k
                                          /\ l.loc = "table" } }
          IN /\ tasks[k].hidden = 0
             /\ tasks' = With(tasks, id, [ tasks[k] EXCEPT !.uuid = NewUuid ])
             /\ tag_resources' = Copied(tag_resources)
             /\ permissions' = Copied(permissions)
    /\ UNCHANGED << table, trash, session >>

-----------------------------------------------------------------------------
(***************************************************************************)
(* Deleting: from the table to the trashcan, from the table for good, and  *)
(* from the trashcan.                                                      *)
(***************************************************************************)
\* others is the trash tables after the rows there have followed.
MoveToTrash(type, i, sub, others) ==
    /\ table' = [ table EXCEPT ![type] = Without(@, i) ]
    /\ trash' = [ others EXCEPT ![type] =
          With(@, NextId(@), [ table[type][i] EXCEPT !.sub = sub ]) ]

\* Mutant: the rows in the trashcan do not follow.
FollowIn_None(types, type, i, id, loc) == trash

FollowIn(types, type, i, id, loc) ==
    [ t \in Type |-> IF t \in types THEN Follow(trash[t], type, i, id, loc)
                     ELSE trash[t] ]

LinksFollow(type, i, id, loc) ==
    /\ permissions_set_locations(type, i, id, loc)
    /\ tags_set_locations(type, i, id, loc)

\* ultimate
DeleteFromTable(type, i) ==
    /\ table' = [ table EXCEPT ![type] = Without(@, i) ]
    /\ permissions_set_orphans(type, i, "table")
    /\ tags_remove_resource(type, i, "table")
    /\ UNCHANGED << trash, tasks >>

DeleteFromTrash(type, i) ==
    /\ trash' = [ trash EXCEPT ![type] = Without(@, i) ]
    /\ permissions_set_orphans(type, i, "trash")
    /\ tags_remove_resource(type, i, "trash")
    /\ UNCHANGED << table, tasks >>

\* The last id that was inserted is that of the login data, if there are any.
delete_target ==
    /\ Command
    /\ \/ \E i \in DOMAIN table["target"] :
             LET id == NextId(trash["target"])
                 login == IF table["target"][i].sub = 0 THEN 0
                          ELSE NextSub(trash["target"])
                 sql_last_insert_id == IF login = 0 THEN id ELSE login
             IN /\ ~LiveRefers("target", i)
                /\ MoveToTrash("target", i, login, trash)
                /\ tasks' = Follow(tasks, "target", i, sql_last_insert_id,
                                   "trash")
                /\ LinksFollow("target", i, sql_last_insert_id, "trash")
       \/ \E i \in DOMAIN table["target"] :
             /\ ~Refers(tasks, "target", i, "table")
             /\ DeleteFromTable("target", i)
       \/ \E i \in DOMAIN trash["target"] :
             /\ ~Refers(tasks, "target", i, "trash")
             /\ DeleteFromTrash("target", i)
    /\ UNCHANGED session

delete_port_list ==
    /\ Command
    /\ \/ \E i \in DOMAIN table["port_list"] :
             LET id == NextId(trash["port_list"]) IN
             /\ ~Refers(table["target"], "port_list", i, "table")
             /\ MoveToTrash("port_list", i, NextSub(trash["port_list"]),
                            FollowIn({"target"}, "port_list", i, id, "trash"))
             /\ LinksFollow("port_list", i, id, "trash")
             /\ UNCHANGED tasks
       \/ \E i \in DOMAIN table["port_list"] :
             /\ ~Refers(table["target"], "port_list", i, "table")
             /\ DeleteFromTable("port_list", i)
       \/ \E i \in DOMAIN trash["port_list"] :
             /\ ~Refers(trash["target"], "port_list", i, "trash")
             /\ DeleteFromTrash("port_list", i)
    /\ UNCHANGED session

DataNames(rows, slot, uuid) ==
    \E a \in DOMAIN rows : rows[a].data[slot] = uuid

credential_in_use(i) ==
    \/ Refers(table["target"], "credential", i, "table")
    \/ Refers(table["scanner"], "credential", i, "table")
    \/ DataNames(table["alert"], "credential", table["credential"][i].uuid)

trash_credential_in_use(i) ==
    \/ Refers(trash["target"], "credential", i, "trash")
    \/ Refers(trash["scanner"], "credential", i, "trash")
    \/ DataNames(trash["alert"], "credential", trash["credential"][i].uuid)

delete_credential ==
    /\ Command
    /\ \/ \E i \in DOMAIN table["credential"] :
             LET id == NextId(trash["credential"]) IN
             /\ ~credential_in_use(i)
             /\ MoveToTrash("credential", i, 0,
                            FollowIn({"target", "scanner"}, "credential", i,
                                     id, "trash"))
             /\ LinksFollow("credential", i, id, "trash")
             /\ UNCHANGED tasks
       \/ \E i \in DOMAIN table["credential"] :
             /\ ~credential_in_use(i)
             /\ DeleteFromTable("credential", i)
       \/ \E i \in DOMAIN trash["credential"] :
             /\ ~trash_credential_in_use(i)
             /\ DeleteFromTrash("credential", i)
    /\ UNCHANGED session

(***************************************************************************)
(* The configs in the trashcan are made to follow whatever location they   *)
(* name, and nothing is checked when the scanner is deleted for good.      *)
(***************************************************************************)
ConfigsFollow(i, id) ==
    [ trash EXCEPT !["config"] = [ c \in DOMAIN @ |->
        IF @[c].refs["scanner"].id = i
        THEN [ @[c] EXCEPT !.refs["scanner"].id = id,
                           !.refs["scanner"].loc = "trash" ]
        ELSE @[c] ] ]

delete_scanner ==
    /\ Command
    /\ \/ \E i \in DOMAIN table["scanner"] :
             LET id == NextId(trash["scanner"]) IN
             /\ ~LiveRefers("scanner", i)
             /\ ~Refers(table["config"], "scanner", i, "table")
             /\ MoveToTrash("scanner", i, 0, ConfigsFollow(i, id))
             /\ tasks' = Follow(tasks, "scanner", i, id, "trash")
             /\ LinksFollow("scanner", i, id, "trash")
       \/ \E i \in DOMAIN table["scanner"] : DeleteFromTable("scanner", i)
       \/ \E i \in DOMAIN trash["scanner"] :
             /\ ~Refers(tasks, "scanner", i, "trash")
             /\ ~Refers(trash["config"], "scanner", i, "trash")
             /\ DeleteFromTrash("scanner", i)
    /\ UNCHANGED session

delete_config ==
    /\ Command
    /\ \/ \E i \in DOMAIN table["config"] :
             LET id == NextId(trash["config"]) IN
             /\ ~LiveRefers("config", i)
             /\ MoveToTrash("config", i, 0, trash)
             /\ tasks' = Follow(tasks, "config", i, id, "trash")
             /\ LinksFollow("config", i, id, "trash")
       \/ \E i \in DOMAIN table["config"] :
             /\ ~Refers(tasks, "config", i, "table")
             /\ DeleteFromTable("config", i)
       \/ \E i \in DOMAIN trash["config"] :
             /\ ~Refers(tasks, "config", i, "trash")
             /\ DeleteFromTrash("config", i)
    /\ UNCHANGED session

delete_schedule ==
    /\ Command
    /\ \/ \E i \in DOMAIN table["schedule"] :
             LET id == NextId(trash["schedule"]) IN
             /\ ~LiveRefers("schedule", i)
             /\ MoveToTrash("schedule", i, 0, trash)
             /\ tasks' = Follow(tasks, "schedule", i, id, "trash")
             /\ LinksFollow("schedule", i, id, "trash")
       \/ \E i \in DOMAIN table["schedule"] :
             /\ ~Refers(tasks, "schedule", i, "table")
             /\ DeleteFromTable("schedule", i)
       \/ \E i \in DOMAIN trash["schedule"] :
             /\ ~Refers(tasks, "schedule", i, "trash")
             /\ DeleteFromTrash("schedule", i)
    /\ UNCHANGED session

delete_alert ==
    /\ Command
    /\ \/ \E i \in DOMAIN table["alert"] :
             LET id == NextId(trash["alert"]) IN
             /\ ~LiveRefers("alert", i)
             /\ MoveToTrash("alert", i, 0, trash)
             /\ tasks' = Follow(tasks, "alert", i, id, "trash")
             /\ LinksFollow("alert", i, id, "trash")
       \/ \E i \in DOMAIN table["alert"] :
             /\ ~Refers(tasks, "alert", i, "table")
             /\ DeleteFromTable("alert", i)
       \/ \E i \in DOMAIN trash["alert"] :
             /\ ~Refers(tasks, "alert", i, "trash")
             /\ DeleteFromTrash("alert", i)
    /\ UNCHANGED session

filter_in_use(i) ==
    \/ Refers(table["alert"], "filter", i, "table")
    \/ DataNames(table["alert"], "filter", table["filter"][i].uuid)

delete_filter ==
    /\ Command
    /\ \/ \E i \in DOMAIN table["filter"] :
             LET id == NextId(trash["filter"]) IN
             /\ ~filter_in_use(i)
             /\ MoveToTrash("filter", i, 0,
                            FollowIn({"alert"}, "filter", i, id, "trash"))
             /\ LinksFollow("filter", i, id, "trash")
             /\ UNCHANGED tasks
       \/ \E i \in DOMAIN table["filter"] :
             /\ ~filter_in_use(i)
             /\ ~DataNames(trash["alert"], "filter", table["filter"][i].uuid)
             /\ DeleteFromTable("filter", i)
       \/ \E i \in DOMAIN trash["filter"] :
             /\ ~Refers(trash["alert"], "filter", i, "trash")
             /\ ~DataNames(trash["alert"], "filter", trash["filter"][i].uuid)
             /\ DeleteFromTrash("filter", i)
    /\ UNCHANGED session

DeleteTask(k, loc) ==
    /\ tasks' = Without(tasks, k)
    /\ permissions_set_orphans("task", k, loc)
    /\ tags_remove_resource("task", k, loc)

\* The task is not active.
request_delete_task_uuid ==
    /\ Command
    /\ \E k \in DOMAIN tasks :
          IF tasks[k].hidden = 0
          THEN \/ /\ tasks' = [ tasks EXCEPT ![k].hidden = 2 ]
                  /\ LinksFollow("task", k, k, "trash")
               \/ DeleteTask(k, "table")
          ELSE DeleteTask(k, "trash")
    /\ UNCHANGED << table, trash, session >>

(***************************************************************************)
(* The tags keep the resources that were in the trashcan: the statement    *)
(* that removes them looks for the tags among those in the trashcan, which *)
(* have just been deleted.                                                 *)
(***************************************************************************)
manage_empty_trashcan ==
    /\ Command
    /\ trash' = [ t \in Type |-> NoRows ]
    /\ tasks' = [ k \in { k \in DOMAIN tasks : tasks[k].hidden = 0 } |->
                    tasks[k] ]
    /\ permissions' =
          { IF l.id > 0 /\ l.loc = "trash" THEN [ l EXCEPT !.id = -1 ] ELSE l :
            l \in permissions }
    /\ UNCHANGED << table, tag_resources, session >>

\* Mutant: what the resource refers to may still be in the trashcan.
MoveToTable_Referred(type, i, sub, others) ==
    /\ NameFree(type, trash[type][i].name, 0)
    /\ table' = [ table EXCEPT ![type] =
          With(@, NextId(@), [ trash[type][i] EXCEPT !.sub = sub ]) ]
    /\ trash' = [ others EXCEPT ![type] = Without(@, i) ]

-----------------------------------------------------------------------------
(***************************************************************************)
(* manage_restore, one type after the other.                               *)
(***************************************************************************)
\* others is the trash tables after the rows there have followed.
MoveToTable(type, i, sub, others) ==
    /\ NameFree(type, trash[type][i].name, 0)
    /\ \A s \in Slots(type) : trash[type][i].refs[s].loc # "trash"
    /\ table' = [ table EXCEPT ![type] =
          With(@, NextId(@), [ trash[type][i] EXCEPT !.sub = sub ]) ]
    /\ trash' = [ others EXCEPT ![type] = Without(@, i) ]

\* Mutant: the tasks keep the id in the trashcan.
restore_config_TasksStay ==
    /\ Command
    /\ \E i \in DOMAIN trash["config"] :
          /\ MoveToTable("config", i, 0, trash)
          /\ LinksFollow("config", i, NextId(table["config"]), "table")
    /\ UNCHANGED << tasks, session >>

restore_config ==
    /\ Command
    /\ \E i \in DOMAIN trash["config"] :
          LET id == NextId(table["config"]) IN
          /\ MoveToTable("config", i, 0, trash)
          /\ tasks' = Follow(tasks, "config", i, id, "table")
          /\ LinksFollow("config", i, id, "table")
    /\ UNCHANGED session

restore_alert ==
    /\ Command
    /\ \E i \in DOMAIN trash["alert"] :
          LET id == NextId(table["alert"]) IN
          /\ MoveToTable("alert", i, 0, trash)
          /\ tasks' = Follow(tasks, "alert", i, id, "table")
          /\ LinksFollow("alert", i, id, "table")
    /\ UNCHANGED session

restore_filter ==
    /\ Command
    /\ \E i \in DOMAIN trash["filter"] :
          LET id == NextId(table["filter"]) IN
          /\ MoveToTable("filter", i, 0,
                         FollowIn({"alert"}, "filter", i, id, "table"))
          /\ LinksFollow("filter", i, id, "table")
    /\ UNCHANGED << tasks, session >>

restore_credential ==
    /\ Command
    /\ \E i \in DOMAIN trash["credential"] :
          LET id == NextId(table["credential"]) IN
          /\ MoveToTable("credential", i, 0,
                         FollowIn({"target", "scanner"}, "credential", i, id,
                                  "table"))
          /\ LinksFollow("credential", i, id, "table")
    /\ UNCHANGED << tasks, session >>

\* The last id that was inserted is that of the range.
restore_port_list ==
    /\ Command
    /\ \E i \in DOMAIN trash["port_list"] :
          LET id == NextId(table["port_list"])
              sql_last_insert_id == NextSub(table["port_list"])
          IN /\ MoveToTable("port_list", i, sql_last_insert_id,
                            FollowIn({"target"}, "port_list", i, id, "table"))
             /\ permissions_set_locations("port_list", i, id, "table")
             /\ tags_set_locations("port_list", i, sql_last_insert_id, "table")
    /\ UNCHANGED << tasks, session >>

restore_scanner ==
    /\ Command
    /\ \E i \in DOMAIN trash["scanner"] :
          LET id == NextId(table["scanner"]) IN
          /\ MoveToTable("scanner", i, 0,
                         FollowIn({"config"}, "scanner", i, id, "table"))
          /\ tasks' = Follow(tasks, "scanner", i, id, "table")
          /\ LinksFollow("scanner", i, id, "table")
    /\ UNCHANGED session

restore_schedule ==
    /\ Command
    /\ \E i \in DOMAIN trash["schedule"] :
          LET id == NextId(table["schedule"]) IN
          /\ MoveToTable("schedule", i, 0, trash)
          /\ tasks' = Follow(tasks, "schedule", i, id, "table")
          /\ LinksFollow("schedule", i, id, "table")
    /\ UNCHANGED session

restore_target ==
    /\ Command
    /\ \E i \in DOMAIN trash["target"] :
          LET id == NextId(table["target"])
              login == IF trash["target"][i].sub = 0 THEN 0
                       ELSE NextSub(table["target"])
              sql_last_insert_id == IF login = 0 THEN id ELSE login
          IN /\ MoveToTable("target", i, login, trash)
             /\ tasks' = Follow(tasks, "target", i, id, "table")
             /\ LinksFollow("target", i, sql_last_insert_id, "table")
    /\ UNCHANGED session

restore_task ==
    /\ Command
    /\ \E k \in DOMAIN tasks :
          /\ tasks[k].hidden = 2
          /\ \A s \in TaskSlots : tasks[k].refs[s].loc # "trash"
          /\ tasks' = [ tasks EXCEPT ![k].hidden = 0 ]
          /\ LinksFollow("task", k, k, "table")
    /\ UNCHANGED << table, trash, session >>

-----------------------------------------------------------------------------
CreateResource ==
    \/ create_credential \/ create_schedule \/ create_filter
    \/ create_port_list \/ create_scanner \/ create_config
    \/ create_config_from_scanner \/ create_alert
    \/ FindForTarget \/ create_target \/ create_target_dies
    \/ create_target_with_ports
    \/ copy_alert \/ copy_config \/ copy_credential \/ copy_filter
    \/ copy_scanner \/ copy_schedule \/ copy_port_list \/ copy_target
    \/ CopyLogin

ModifyResource ==
    \/ modify_credential \/ modify_schedule \/ modify_port_list
    \/ modify_filter \/ manage_set_config \/ modify_target
    \/ modify_scanner \/ modify_alert

TaskCommand ==
    \/ make_task \/ FindForTask \/ set_task_ref \/ add_task_alert
    \/ set_task_alerts \/ copy_task

DeleteResource ==
    \/ delete_target \/ delete_port_list \/ delete_credential
    \/ delete_scanner \/ delete_config \/ delete_schedule \/ delete_alert
    \/ delete_filter \/ request_delete_task_uuid \/ manage_empty_trashcan

manage_restore ==
    \/ restore_config \/ restore_alert \/ restore_filter
    \/ restore_credential \/ restore_port_list \/ restore_scanner
    \/ restore_schedule \/ restore_target \/ restore_task

Next ==
    CreateResource \/ ModifyResource \/ TaskCommand \/ DeleteResource
        \/ manage_restore

Spec == Init /\ [][Next]_vars

-----------------------------------------------------------------------------
Gone(type, uuid) ==
    /\ \A i \in DOMAIN table[type] : table[type][i].uuid # uuid
    /\ \A i \in DOMAIN trash[type] : trash[type][i].uuid # uuid

\* The row that a reference names is that of the resource it was made to.
Finds(type, ref) ==
    LET rows == IF ref.loc = "table" THEN table[type] ELSE trash[type]
    IN ref.id \in DOMAIN rows /\ rows[ref.id].uuid = ref.to

Kept(type, ref) == ref.to = 0 \/ Finds(type, ref) \/ Gone(type, ref.to)

(***************************************************************************)
(* A reference in a resource, in the table or in the trashcan, keeps to    *)
(* the resource that it was made to as long as that exists, in whatever    *)
(* order the two are deleted, restored and renumbered.  The scanner of a   *)
(* config is left out, for the statement in delete_scanner has no          *)
(* condition on the location.                                              *)
(***************************************************************************)
RefsKept ==
    \A t \in Type : \A s \in Slots(t) \ {"scanner"} :
        /\ \A i \in DOMAIN table[t] : Kept(s, table[t][i].refs[s])
        /\ \A i \in DOMAIN trash[t] : Kept(s, trash[t][i].refs[s])

(***************************************************************************)
(* The same for a task, and its config, schedule and alert even exist as   *)
(* long as the task does.  Not for its target, since delete_target may put *)
(* the id of the login data into the task.                                 *)
(***************************************************************************)
TasksKept ==
    \A k \in DOMAIN tasks :
        /\ \A s \in {"config", "schedule", "alert"} :
              tasks[k].refs[s].to # 0 => Finds(s, tasks[k].refs[s])
        /\ Kept("scanner", tasks[k].refs["scanner"])

\* The names of the resources of a type are unique, also when resources with
\* a name that was given again come back from the trashcan.  The empty name
\* that modify_port_list, modify_filter and modify_alert set is not.
UniqueNames ==
    \A t \in Type : \A i, j \in DOMAIN table[t] :
        table[t][i].name = table[t][j].name /\ table[t][i].name # NoName
            => i = j

(***************************************************************************)
(* A permission applies to the resource that it was given for, or to none, *)
(* although the ids of resources that are deleted are given out again.     *)
(* Not for targets, as the last id that was inserted may be another one.   *)
(***************************************************************************)
PermissionsKept ==
    \A l \in permissions : l.type # "target" /\ l.id > 0 =>
        IF l.type = "task"
        THEN l.id \in DOMAIN tasks /\ tasks[l.id].uuid = l.to
        ELSE Finds(l.type, l)

(***************************************************************************)
(* delete_target: "Update the location of the target in any trashcan       *)
(* tasks."  A task that is not in the trashcan has the target it was given.*)
(***************************************************************************)
TargetKept ==
    \A k \in DOMAIN tasks :
        LET ref == tasks[k].refs["target"]
        IN tasks[k].hidden = 0 /\ ref.to # 0 => Finds("target", ref)
=============================================================================
