----------------------------- MODULE Migrations -----------------------------
(***************************************************************************)
(* The upgrade of the database at the start of the server                  *)
(* (server/src/domain/sql_tables.rs, sql_migrations.rs).  A migration is a *)
(* script of SQL statements; Script[v] brings a database of version v - 1  *)
(* to version v.  The first one runs without a transaction, the others     *)
(* inside one, which a database without transactional DDL commits at every *)
(* change of a table.  The process can be killed, and a query can fail,    *)
(* before every statement, and the server is started again.                *)
(*                                                                         *)
(* Of the contents, the cells of one row of "users" are kept (the rows of  *)
(* a table do not influence each other here), which rows have an empty     *)
(* uuid, and which future unique index the rows would violate.             *)
(***************************************************************************)
EXTENDS Naturals, Sequences, FiniteSets, SequencesExt

CONSTANTS
    Users,        \* rows of the table "users"
    Groups,       \* rows of the table "groups"
    Backends,     \* the databases: a subset of "sqlite", "postgres", "mysql"
    OldVersions,  \* versions of the databases that older servers left
    OldNames,     \* columns in which older servers may have left a text
    MaxKills,     \* bound on kills of the process and failing statements
    MaxErrors     \* bound on errors that the code takes for an answer

LastVersion == 10

\* Columns of "users" that migrations change, and the name replace_column gives
\* to the column it replaces.
Names == {"display_name", "first_name", "last_name", "avatar"}
TempName == "temp_name"

\* What a cell holds: NULL, the empty string, or a text; the text of the column c is c.
Null == "null"
Empty == ""
Cells == Names \cup {Null, Empty}

Indexes == {"unique-user-email", "unique-user-uuid", "unique-group-uuid",
            "unique-memberships", "unique-group-id", "unique-user-lower-email"}

\* The unique indexes that the contents of older versions can violate.
Conflicts == Indexes \ {"unique-user-uuid", "unique-group-uuid"}

ASSUME MigrationsAssumption ==
    /\ Users \cap Groups = {}
    /\ Backends \subseteq {"sqlite", "postgres", "mysql"} /\ Backends # {}
    /\ OldVersions \subseteq 0..(LastVersion + 1)
    /\ OldNames \subseteq Names
    /\ MaxKills \in Nat /\ MaxErrors \in Nat

VARIABLES
    backend,   \* the database
    disk,      \* its durable contents
    db,        \* its contents as the open transaction sees them
    pc,        \* where the process is
    at,        \* the migration and the statement it executes next
    kills,     \* number of kills and failing statements
    errors,    \* number of errors taken for an answer
    origin,    \* history: the cells of the row when the first start began
    torn       \* history: a start ended while it was filling in uuids

vars == <<backend, disk, db, pc, at, kills, errors, origin, torn>>
history == <<origin, torn>>

-----------------------------------------------------------------------------
(* The scripts.                                                             *)

Stmt(op, x) == [op |-> op, on |-> x]

\* Mutants: IF NOT EXISTS is forgotten; the groups get no uuid; a replaced column is not
\* copied; emails are not made lower-case.
StrictTablesV1 == <<Stmt("create", "users"), Stmt("create", "groups")>>
BlankGroupsV1 ==
    <<Stmt("try_add", "groups.creation_date"), Stmt("try_add", "groups.uuid"),
      Stmt("try_add", "users.uuid"), Stmt("fill", "users.uuid")>>
ReplaceWithoutCopy(c, updates) ==
    <<Stmt("rename", c), Stmt("add", c)>> \o updates \o <<Stmt("drop", TempName)>>
LowerGroupsOnly ==
    <<Stmt("add", "groups.lowercase_display_name"), Stmt("add", "users.lowercase_email"),
      Stmt("lower", "groups.lowercase_display_name")>>

\* CREATE TABLE IF NOT EXISTS users, groups.  All columns come with the tables.
TablesV1 ==
    <<Stmt("ensure", "users"), Stmt("ensure", "groups")>>

\* ALTER TABLE ... ADD COLUMN whose failure means that the column is there.  After a
\* success the rows get their uuid one by one.
ColumnsV1 ==
    <<Stmt("try_add", "groups.creation_date"),
      Stmt("try_add", "groups.uuid"), Stmt("fill", "groups.uuid"),
      Stmt("try_add", "users.uuid"), Stmt("fill", "users.uuid")>>

\* The memberships, and the new name of the group lldap_readonly.
MembershipsV1 ==
    <<Stmt("ensure", "memberships"), Stmt("try_rename_group", "lldap_readonly")>>

MetadataV1 == <<Stmt("ensure", "metadata")>>

UpgradeToV1 == TablesV1 \o ColumnsV1 \o MembershipsV1 \o MetadataV1

\* The column gets a new definition: it is renamed, added again and copied.
ReplaceColumn(c, updates) ==
    <<Stmt("rename", c), Stmt("add", c), Stmt("copy", c)>>
    \o updates \o <<Stmt("drop", TempName)>>

\* UPDATE users SET c = NULL WHERE c = ''
EmptyToNull(c) == <<Stmt("empty_to_null", c)>>

MigrateToV2 == ReplaceColumn("display_name", EmptyToNull("display_name"))

MigrateToV3 == ReplaceColumn("first_name", EmptyToNull("first_name"))
               \o ReplaceColumn("last_name", EmptyToNull("last_name"))
               \o ReplaceColumn("avatar", <<>>)

\* A failure to create the first index is reported with the conflicting rows, and is
\* an error like the others.
MigrateToV4 == <<Stmt("index", "unique-user-email"),
                 Stmt("index", "unique-user-uuid"),
                 Stmt("index", "unique-group-uuid")>>

SchemaTablesV5 ==
    <<Stmt("create", "user_attribute_schema"), Stmt("create", "group_attribute_schema")>>

ValueTablesV5 ==
    <<Stmt("create", "user_attributes"), Stmt("create", "group_attributes")>>

\* The rows of the built-in attributes; then the cells of all users become values, and
\* their columns are dropped.
ContentsV5 ==
    <<Stmt("insert", "hardcoded_attributes"), Stmt("move", "users")>>
    \o <<Stmt("drop", "first_name"), Stmt("drop", "last_name"), Stmt("drop", "avatar")>>

MigrateToV5 == SchemaTablesV5 \o ValueTablesV5 \o ContentsV5

MigrateToV6 ==
    <<Stmt("add", "groups.lowercase_display_name"), Stmt("add", "users.lowercase_email"),
      Stmt("lower", "groups.lowercase_display_name"), Stmt("lower", "users.lowercase_email")>>

MigrateToV7 == <<Stmt("add", "metadata.private_key_hash"),
                 Stmt("add", "metadata.private_key_location")>>

MigrateToV8 == <<Stmt("deduplicate", "memberships"), Stmt("index", "unique-memberships")>>

MigrateToV9 == <<Stmt("ensure", "user_object_classes"),
                 Stmt("ensure", "group_object_classes")>>

MigrateToV10 == <<Stmt("index", "unique-group-id"), Stmt("index", "unique-user-lower-email")>>

Script == <<UpgradeToV1, MigrateToV2, MigrateToV3, MigrateToV4, MigrateToV5,
            MigrateToV6, MigrateToV7, MigrateToV8, MigrateToV9, MigrateToV10>>

-----------------------------------------------------------------------------
(* What a statement does to a database d.                                   *)

RowsOf(t) == IF t = "users" THEN Users ELSE Groups

\* The table a uuid column belongs to.
TableOf(column) == IF column = "users.uuid" THEN "users" ELSE "groups"

\* The columns that come with a table when it is created.
ColumnsOf(t) ==
    CASE t = "users" -> Names \cup {"users.uuid"}
      [] t = "groups" -> {"groups.creation_date", "groups.uuid"}
      [] OTHER -> {}

UuidColumn(index) == IF index = "unique-user-uuid" THEN "users.uuid" ELSE "groups.uuid"

\* Two rows have the same value in the columns of a unique index.
Violates(d, index) ==
    IF index \in Conflicts THEN index \in d.conflicts
    ELSE Cardinality(d.blank \cap RowsOf(TableOf(UuidColumn(index)))) > 1

\* The database refuses the statement s.
Refused(d, s) ==
    CASE s.op \in {"create", "add", "insert", "try_add"} -> s.on \in d.objects
      [] s.op = "rename" -> s.on \notin d.objects \/ TempName \in d.objects
      [] s.op = "drop" -> s.on \notin d.objects
      [] s.op = "move" -> ~({"first_name", "last_name", "avatar"} \subseteq d.objects)
      [] s.op = "index" ->
            /\ s.on \notin d.objects
            /\ \/ Violates(d, s.on)
               \/ s.on \notin Conflicts /\ UuidColumn(s.on) \notin d.objects
      [] s.op = "deduplicate" ->
            backend = "sqlite" /\ "unique-memberships" \in d.conflicts
      [] OTHER -> FALSE

\* ALTER TABLE ... ADD COLUMN: existing rows get the default, '' for uuids.
Added(d, column) ==
    [d EXCEPT !.objects = @ \cup {column},
              !.blank = @ \cup (IF column \in {"users.uuid", "groups.uuid"}
                                THEN d.rows \cap RowsOf(TableOf(column)) ELSE {})]

\* The row gets a value for every cell that is not NULL.
Moved(d) ==
    [d EXCEPT !.value = [c \in Names |->
                             IF c = "display_name" THEN Null ELSE d.cell[c]]]

\* The contents after the statement s, except for "fill".
Executed(d, s) ==
    CASE s.op = "ensure" /\ s.on \notin d.objects ->
            [d EXCEPT !.objects = @ \cup {s.on} \cup ColumnsOf(s.on)]
      [] s.op \in {"create", "insert", "index"} -> [d EXCEPT !.objects = @ \cup {s.on}]
      [] s.op \in {"add", "try_add"} -> Added(d, s.on)
      [] s.op = "rename" ->
            [d EXCEPT !.objects = (@ \ {s.on}) \cup {TempName},
                      !.cell = [@ EXCEPT ![TempName] = d.cell[s.on], ![s.on] = Null]]
      [] s.op = "copy" -> [d EXCEPT !.cell = [@ EXCEPT ![s.on] = d.cell[TempName]]]
      [] s.op = "empty_to_null" ->
            [d EXCEPT !.cell[s.on] = IF @ = Empty THEN Null ELSE @]
      [] s.op = "drop" ->
            [d EXCEPT !.objects = @ \ {s.on}, !.cell = [@ EXCEPT ![s.on] = Null]]
      [] s.op = "move" -> Moved(d)
      [] s.op = "lower" -> [d EXCEPT !.lowered = @ \cup {s.on}]
      [] s.op = "deduplicate" -> [d EXCEPT !.conflicts = @ \ {"unique-memberships"}]
      [] s.op = "try_rename_group" -> [d EXCEPT !.readonly = FALSE]
      [] OTHER -> d

\* Statements that a database without transactional DDL commits at once, together with
\* what the transaction did before.
IsDdl(s) == s.op \in {"ensure", "create", "add", "try_add", "rename", "drop", "index"}

Transactional == backend # "mysql"

-----------------------------------------------------------------------------
(* The objects of each version, from which older servers leave a database.  *)

NewIn == <<{"users", "groups", "memberships", "metadata"} \cup Names
                \cup {"users.uuid", "groups.uuid", "groups.creation_date"},
           {}, {},
           {"unique-user-email", "unique-user-uuid", "unique-group-uuid"},
           {"user_attribute_schema", "group_attribute_schema", "user_attributes",
            "group_attributes", "hardcoded_attributes"},
           {"groups.lowercase_display_name", "users.lowercase_email"},
           {"metadata.private_key_hash", "metadata.private_key_location"},
           {"unique-memberships"},
           {"user_object_classes", "group_object_classes"},
           {"unique-group-id", "unique-user-lower-email"}>>

LowerCase == {"groups.lowercase_display_name", "users.lowercase_email"}

\* A database of a newer server (LastVersion + 1) has everything, too.
ObjectsAt(v) ==
    (UNION {NewIn[k] : k \in {j \in 1..LastVersion : j <= v}})
    \ (IF v >= 5 THEN Names \ {"display_name"} ELSE {})

\* The cells that the server of a version can have written: display names were not
\* NULL at first, and servers of version 2 and 3 write NULL for an empty text.
CellsAt(v, c) ==
    IF c = "avatar" THEN {Null, c}
    ELSE IF c = "display_name" THEN (IF v < 2 THEN {Empty, c} ELSE {Null, c})
    ELSE IF v < 3 THEN {Null, Empty, c} ELSE {Null, c}

\* No table at all.  meta: the versions in "metadata"; blank: rows with uuid = '';
\* cell, value: in "users" and "user_attributes"; readonly: lldap_readonly exists.
Fresh == [objects |-> {}, meta |-> <<>>, rows |-> {}, blank |-> {},
          cell |-> [c \in Names \cup {TempName} |-> Null],
          value |-> [c \in Names |-> Null],
          conflicts |-> {}, lowered |-> {}, readonly |-> FALSE]

\* A database of version v (0: without a version) that an older server has filled:
\* with the texts n, and the rows violating the indexes x.
Filled(v, objects, n, x, ro) ==
    [objects |-> objects,
     meta |-> IF v = 0 THEN <<>> ELSE <<v>>,
     rows |-> Users \cup Groups,
     blank |-> {},
     cell |-> [c \in Names \cup {TempName} |->
                  IF c \in objects THEN n[c] ELSE Null],
     value |-> [c \in Names |-> IF c \in objects THEN Null ELSE n[c]],
     conflicts |-> x,
     lowered |-> IF v >= 6 THEN LowerCase ELSE {},
     readonly |-> ro]

\* The columns that databases without a version may lack.
LateColumns == {"users.uuid", "groups.uuid", "groups.creation_date"}

Init ==
    /\ backend \in Backends
    /\ \/ disk = Fresh /\ origin = [c \in Names |-> Null]
       \/ \E v \in OldVersions,
            x \in SUBSET Conflicts, late \in SUBSET LateColumns, ro \in BOOLEAN :
            /\ origin \in [Names -> Cells]
            /\ \A c \in Names : origin[c] \in CellsAt(v, c)
            /\ \A c \in Names \ OldNames : origin[c] \in {Null, Empty}
            /\ x \cap ObjectsAt(v) = {}
            /\ "unique-user-email" \in x => "unique-user-lower-email" \in x
            /\ v > 0 => late = {} /\ ~ro
            /\ disk = Filled(v, IF v = 0 THEN {"users", "groups", "memberships"}
                                              \cup Names \cup late
                                ELSE ObjectsAt(v), origin, x, ro)
    /\ db = disk
    /\ pc = "down" /\ at = <<1, 1>>
    /\ kills = 0 /\ errors = 0
    /\ torn = FALSE

-----------------------------------------------------------------------------
(* Actions.                                                                 *)

Statement == Script[at[1]][at[2]]
HasStatement == pc = "running" /\ at[2] <= Len(Script[at[1]])

\* The process executes migration v from its beginning.
Migrate(v) == pc' = "running" /\ at' = <<v, 1>>

\* init_table: get_schema_version finds a version (any row of "metadata"), and
\* migrate_from_version compares it with the last one.
StartFromVersion ==
    /\ pc = "down"
    /\ \E v \in Range(disk.meta) :
          \/ v < LastVersion /\ Migrate(v + 1)
          \/ v = LastVersion /\ pc' = "serving" /\ UNCHANGED at
          \/ v > LastVersion /\ UNCHANGED <<pc, at>>   \* downgrading is not supported
    /\ UNCHANGED <<backend, disk, db, kills, errors, history>>

\* No table "metadata", or no row in it.
StartWithoutVersion ==
    /\ pc = "down" /\ disk.meta = <<>>
    /\ Migrate(1)
    /\ UNCHANGED <<backend, disk, db, kills, errors, history>>

\* The query for the version fails: .ok() makes that "no version".
VersionUnread ==
    /\ pc = "down" /\ disk.meta # <<>> /\ errors < MaxErrors
    /\ Migrate(1)
    /\ errors' = errors + 1
    /\ UNCHANGED <<backend, disk, db, kills, history>>

\* Mutant: the statements of a migration are committed one by one.
WriteThrough(d, s) == db' = d /\ disk' = d

\* The contents d replace db; they are durable if nothing holds them back.
Write(d, s) ==
    /\ db' = d
    /\ disk' = IF at[1] = 1 \/ (~Transactional /\ IsDdl(s)) THEN d ELSE disk

\* One statement.
Execute ==
    /\ HasStatement
    /\ Statement.op # "fill" /\ ~Refused(db, Statement)
    /\ Write(Executed(db, Statement), Statement)
    /\ at' = <<at[1], at[2] + 1>>
    /\ UNCHANGED <<backend, pc, kills, errors, history>>

\* After ADD COLUMN ... uuid succeeded: the row r gets its uuid.
FillUuid(r) ==
    /\ HasStatement /\ Statement.op = "fill"
    /\ r \in db.blank \cap RowsOf(TableOf(Statement.on))
    /\ Write([db EXCEPT !.blank = @ \ {r}], Statement)
    /\ UNCHANGED <<backend, pc, at, kills, errors, history>>

FillDone ==
    /\ HasStatement /\ Statement.op = "fill"
    /\ db.blank \cap RowsOf(TableOf(Statement.on)) = {}
    /\ at' = <<at[1], at[2] + 1>>
    /\ UNCHANGED <<backend, disk, db, pc, kills, errors, history>>

\* An error of a statement whose result is tested with is_ok(): go on after what it
\* guards.
SkipTo == IF Statement.on \in {"users.uuid", "groups.uuid"} THEN at[2] + 2 ELSE at[2] + 1

ColumnExists ==
    /\ HasStatement
    /\ Statement.op = "try_add" /\ Refused(db, Statement)
    /\ at' = <<at[1], SkipTo>>
    /\ UNCHANGED <<backend, disk, db, pc, kills, errors, history>>

\* The same for any other error of the statement.
ErrorIgnored ==
    /\ HasStatement /\ errors < MaxErrors
    /\ Statement.op \in {"try_add", "try_rename_group"} /\ ~Refused(db, Statement)
    /\ at' = <<at[1], SkipTo>>
    /\ errors' = errors + 1
    /\ UNCHANGED <<backend, disk, db, pc, kills, history>>

\* The process ends; the transaction is rolled back.
Down ==
    /\ pc' = "down" /\ at' = <<1, 1>>
    /\ db' = disk

\* A refused statement is the error of the whole start.
StatementRefused ==
    /\ HasStatement
    /\ Statement.op # "try_add" /\ Refused(db, Statement)
    /\ Down
    /\ UNCHANGED <<backend, disk, kills, errors, history>>

\* All statements are done: the new version, and COMMIT.
NewVersion(v) == IF v = 1 THEN Append(db.meta, 1) ELSE [i \in DOMAIN db.meta |-> v]

Commit ==
    /\ pc = "running" /\ at[2] > Len(Script[at[1]])
    /\ db' = [db EXCEPT !.meta = NewVersion(at[1])]
    /\ disk' = db'
    /\ \/ at[1] = 1 /\ pc' = "asserting" /\ UNCHANGED at
       \/ at[1] \in 2..(LastVersion - 1) /\ Migrate(at[1] + 1)
       \/ at[1] = LastVersion /\ pc' = "serving" /\ at' = <<1, 1>>
    /\ UNCHANGED <<backend, kills, errors, history>>

\* assert_eq!(get_schema_version(pool).await.unwrap().0, 1)
AssertVersion ==
    /\ pc = "asserting"
    /\ \E v \in Range(disk.meta) :
          \/ v = 1 /\ Migrate(2) /\ UNCHANGED db
          \/ v # 1 /\ Down
    /\ UNCHANGED <<backend, disk, kills, errors, history>>

\* The process is killed, or a statement fails.
Kill ==
    /\ pc \in {"running", "asserting"} /\ kills < MaxKills
    /\ kills' = kills + 1
    /\ Down
    /\ torn' = (torn \/ (HasStatement /\ Statement.op = "fill"
                         /\ db.blank \cap RowsOf(TableOf(Statement.on)) # {}))
    /\ UNCHANGED <<backend, disk, errors, origin>>

Stop ==
    /\ pc = "serving"
    /\ Down
    /\ UNCHANGED <<backend, disk, kills, errors, history>>

\* The operator removes the duplicates the server complained about.  Emails that are
\* equal but for their case include the equal ones.
RemoveConflict(x) ==
    /\ pc = "down" /\ x \in disk.conflicts
    /\ disk' = [disk EXCEPT !.conflicts =
                    @ \ (IF x = "unique-user-lower-email"
                         THEN {x, "unique-user-email"} ELSE {x})]
    /\ db' = disk'
    /\ UNCHANGED <<backend, pc, at, kills, errors, history>>

Starting == StartFromVersion \/ StartWithoutVersion
Running == \/ Execute \/ FillDone \/ ColumnExists \/ StatementRefused
           \/ Commit \/ AssertVersion
           \/ \E r \in Users \cup Groups : FillUuid(r)

Next == \/ Starting \/ Running
        \/ VersionUnread \/ ErrorIgnored \/ Kill \/ Stop
        \/ \E x \in Conflicts : RemoveConflict(x)

\* A process goes on, and a process that ended is started again.
Fairness == WF_vars(Starting) /\ WF_vars(Running)

Spec == Init /\ [][Next]_vars
FairSpec == Spec /\ Fairness

-----------------------------------------------------------------------------
(* Properties.                                                              *)

\* The places a text can be in: its column, the column under replacement, a value.
Holds(d, c, text) == text \in {d.cell[c], d.cell[TempName], d.value[c]}

\* No start, however it ends, loses a name or an avatar: what the first start found is
\* in the durable tables, and nothing else is.  (replace_column, migrate_to_v5)
NamesKept ==
    \A c \in Names :
        /\ origin[c] = c <=> Holds(disk, c, c)
        /\ \A other \in Names \ {c} : disk.cell[c] # other /\ disk.value[c] # other

Lasting(v) == ObjectsAt(v) \ Names

\* The recorded version never runs ahead of the tables: what its migrations create and
\* fill in is there, on every database.  (migrate_from_version: the version is written
\* last.)  Errors that the code takes for an answer are excepted.
VersionNeverAhead ==
    errors = 0 =>
        \A v \in Range(disk.meta) :
            /\ Lasting(v) \subseteq disk.objects
            /\ v >= 5 => disk.objects \cap Names \subseteq {"display_name"}
            /\ v >= 6 => disk.lowered = LowerCase
            /\ ~disk.readonly

\* A row has no uuid only while they are filled in, or because an earlier start ended
\* doing that.
BlankOnlyIfTorn ==
    disk.blank # {} => torn \/ (HasStatement /\ Statement.op = "fill")

\* The version that the database records, 0 for none.
Recorded == IF disk.meta = <<>> THEN 0 ELSE disk.meta[1]

\* The texts as a server of the recorded version reads them; no text is NULL or ''.
TextsRead ==
    [c \in Names |->
        LET text == IF Recorded >= 5 /\ c # "display_name"
                    THEN disk.value[c] ELSE disk.cell[c]
        IN  IF text = Empty THEN Null ELSE text]

Upgrade == INSTANCE SchemaUpgrade WITH version <- Recorded, objects <- disk.objects,
                                       texts <- TextsRead,
                                       bound <- Transactional /\ errors = 0

\* On a database with transactional DDL, and unless an error was taken for an answer, the
\* durable tables go from one version to the next as a whole, and every version reads the
\* same texts.
UpgradeAtomic == Upgrade!Spec

\* What a restart does not get past: rows that violate the next index, uuids that a torn
\* start left empty, a newer version, an ignored error, and tables that a database
\* without transactional DDL has changed halfway.
Blocked ==
    \/ disk.conflicts # {}
    \/ \E t \in {"users", "groups"} : Cardinality(disk.blank \cap RowsOf(t)) > 1
    \/ LastVersion + 1 \in Range(disk.meta)
    \/ errors > 0
    \/ ~Transactional /\ \E v \in Range(disk.meta) : disk.objects # ObjectsAt(v)

\* Starting again after a kill or an error leads to a serving server of the last
\* version, unless the database is blocked.
UpgradeCompletes == <>[](Blocked \/ LastVersion \in Range(disk.meta))
                    /\ []<>(Blocked \/ pc = "serving")
=============================================================================
