-------------------------- MODULE MigrationsProofs ---------------------------
(* Proofs about Migrations, for any rows, backends, older databases and     *)
(* numbers of kills and errors.                                             *)
EXTENDS Migrations, TLAPS

Rows == Users \cup Groups

\* All that statements create.
Object ==
    {"users", "groups", "memberships", "metadata", "users.uuid", "groups.uuid",
     "groups.creation_date", "display_name", "first_name", "last_name", "avatar", TempName,
     "user_attribute_schema", "group_attribute_schema", "user_attributes", "group_attributes",
     "hardcoded_attributes", "groups.lowercase_display_name", "users.lowercase_email",
     "metadata.private_key_hash", "metadata.private_key_location",
     "user_object_classes", "group_object_classes"} \cup Indexes

Database ==
    [objects : SUBSET Object, meta : Seq(1 .. LastVersion + 1), rows : SUBSET Rows,
     blank : SUBSET Rows, cell : [Names \cup {TempName} -> Cells], value : [Names -> Cells],
     conflicts : SUBSET Conflicts, lowered : SUBSET LowerCase, readonly : BOOLEAN]

-----------------------------------------------------------------------------
(* The statements, one by one.                                              *)

LEMMA V1Statements ==
  /\ Len(Script[1]) = 10
  /\ Script[1][1] = Stmt("ensure", "users") /\ Script[1][2] = Stmt("ensure", "groups")
  /\ Script[1][3] = Stmt("try_add", "groups.creation_date")
  /\ Script[1][4] = Stmt("try_add", "groups.uuid") /\ Script[1][5] = Stmt("fill", "groups.uuid")
  /\ Script[1][6] = Stmt("try_add", "users.uuid") /\ Script[1][7] = Stmt("fill", "users.uuid")
  /\ Script[1][8] = Stmt("ensure", "memberships")
  /\ Script[1][9] = Stmt("try_rename_group", "lldap_readonly")
  /\ Script[1][10] = Stmt("ensure", "metadata")
<1>1. Script[1] = UpgradeToV1
  BY DEF Script
<1> QED
  BY <1>1 DEF UpgradeToV1, TablesV1, ColumnsV1, MembershipsV1, MetadataV1

LEMMA V2Statements ==
  /\ Len(Script[2]) = 5
  /\ Script[2][1] = Stmt("rename", "display_name") /\ Script[2][2] = Stmt("add", "display_name")
  /\ Script[2][3] = Stmt("copy", "display_name")
  /\ Script[2][4] = Stmt("empty_to_null", "display_name")
  /\ Script[2][5] = Stmt("drop", TempName)
<1>1. Script[2] = MigrateToV2
  BY DEF Script
<1> QED
  BY <1>1 DEF MigrateToV2, ReplaceColumn, EmptyToNull, TempName

LEMMA V3Statements ==
  /\ Len(Script[3]) = 14
  /\ Script[3][1] = Stmt("rename", "first_name") /\ Script[3][2] = Stmt("add", "first_name")
  /\ Script[3][3] = Stmt("copy", "first_name") /\ Script[3][4] = Stmt("empty_to_null", "first_name")
  /\ Script[3][5] = Stmt("drop", TempName)
  /\ Script[3][6] = Stmt("rename", "last_name") /\ Script[3][7] = Stmt("add", "last_name")
  /\ Script[3][8] = Stmt("copy", "last_name") /\ Script[3][9] = Stmt("empty_to_null", "last_name")
  /\ Script[3][10] = Stmt("drop", TempName)
  /\ Script[3][11] = Stmt("rename", "avatar") /\ Script[3][12] = Stmt("add", "avatar")
  /\ Script[3][13] = Stmt("copy", "avatar") /\ Script[3][14] = Stmt("drop", TempName)
<1>1. Script[3] = MigrateToV3
  BY DEF Script
<1> QED
  BY <1>1 DEF MigrateToV3, ReplaceColumn, EmptyToNull, TempName

LEMMA V4Statements ==
  /\ Len(Script[4]) = 3
  /\ Script[4][1] = Stmt("index", "unique-user-email")
  /\ Script[4][2] = Stmt("index", "unique-user-uuid")
  /\ Script[4][3] = Stmt("index", "unique-group-uuid")
  BY DEF Script, MigrateToV4

LEMMA V5Statements ==
  /\ Len(Script[5]) = 9
  /\ Script[5][1] = Stmt("create", "user_attribute_schema")
  /\ Script[5][2] = Stmt("create", "group_attribute_schema")
  /\ Script[5][3] = Stmt("create", "user_attributes")
  /\ Script[5][4] = Stmt("create", "group_attributes")
  /\ Script[5][5] = Stmt("insert", "hardcoded_attributes") /\ Script[5][6] = Stmt("move", "users")
  /\ Script[5][7] = Stmt("drop", "first_name") /\ Script[5][8] = Stmt("drop", "last_name")
  /\ Script[5][9] = Stmt("drop", "avatar")
<1>1. Script[5] = MigrateToV5
  BY DEF Script
<1> QED
  BY <1>1 DEF MigrateToV5, SchemaTablesV5, ValueTablesV5, ContentsV5

LEMMA V6Statements ==
  /\ Len(Script[6]) = 4
  /\ Script[6][1] = Stmt("add", "groups.lowercase_display_name")
  /\ Script[6][2] = Stmt("add", "users.lowercase_email")
  /\ Script[6][3] = Stmt("lower", "groups.lowercase_display_name")
  /\ Script[6][4] = Stmt("lower", "users.lowercase_email")
  BY DEF Script, MigrateToV6

\* The last four migrations.
LEMMA LateStatements ==
  /\ Len(Script[7]) = 2 /\ Len(Script[8]) = 2 /\ Len(Script[9]) = 2 /\ Len(Script[10]) = 2
  /\ Script[7][1] = Stmt("add", "metadata.private_key_hash")
  /\ Script[7][2] = Stmt("add", "metadata.private_key_location")
  /\ Script[8][1] = Stmt("deduplicate", "memberships")
  /\ Script[8][2] = Stmt("index", "unique-memberships")
  /\ Script[9][1] = Stmt("ensure", "user_object_classes")
  /\ Script[9][2] = Stmt("ensure", "group_object_classes")
  /\ Script[10][1] = Stmt("index", "unique-group-id")
  /\ Script[10][2] = Stmt("index", "unique-user-lower-email")
  BY DEF Script, MigrateToV7, MigrateToV8, MigrateToV9, MigrateToV10

\* Every script is finite and of one of the versions.
LEMMA ScriptLengths ==
  ASSUME NEW v \in 1 .. LastVersion
  PROVE  /\ Len(Script[v]) \in 2 .. 14
         /\ v \in {1, 2, 3, 4, 5, 6, 7, 8, 9, 10}
<1>1. v \in {1, 2, 3, 4, 5, 6, 7, 8, 9, 10}
  BY DEF LastVersion
<1>2. Len(Script[1]) = 10 /\ Len(Script[2]) = 5 /\ Len(Script[3]) = 14
  BY V1Statements, V2Statements, V3Statements
<1>3. Len(Script[4]) = 3 /\ Len(Script[6]) = 4
  BY V4Statements, V6Statements
<1>4. Len(Script[5]) = 9
  BY V5Statements
<1>5. Len(Script[7]) = 2 /\ Len(Script[8]) = 2 /\ Len(Script[9]) = 2 /\ Len(Script[10]) = 2
  BY LateStatements
<1> QED
  BY <1>1, <1>2, <1>3, <1>4, <1>5

-----------------------------------------------------------------------------
(* What they do.                                                            *)

\* Statements that leave the texts alone.
SameTexts(e, d) == e.cell = d.cell /\ e.value = d.value
SameRest(e, d) == e.meta = d.meta /\ e.rows = d.rows
SameMarks(e, d) == e.conflicts = d.conflicts /\ e.lowered = d.lowered

ObjectsAfter(d, op, x) ==
    IF op = "ensure" /\ x \notin d.objects THEN d.objects \cup {x} \cup ColumnsOf(x)
    ELSE d.objects \cup {x}

\* An added column of uuids is empty in the rows that are there.
BlankAfter(d, op, x) ==
    d.blank \cup (IF op \in {"add", "try_add"} /\ x \in {"users.uuid", "groups.uuid"}
                  THEN d.rows \cap RowsOf(TableOf(x)) ELSE {})

LEMMA ObjectStatement ==
  ASSUME NEW d \in Database, NEW op \in {"ensure", "create", "insert", "index", "add", "try_add"},
         NEW x \in Object
  PROVE  LET e == Executed(d, Stmt(op, x))
         IN  /\ e \in Database /\ SameTexts(e, d) /\ SameRest(e, d)
             /\ SameMarks(e, d)
             /\ e.readonly <=> d.readonly
             /\ e.objects = ObjectsAfter(d, op, x) /\ e.blank = BlankAfter(d, op, x)
<1> DEFINE s == Stmt(op, x)
           e == Executed(d, s)
<1>1. s.op = op /\ s.on = x
  BY DEF Stmt
<1> HIDE DEF s
<1>2. ColumnsOf(x) \in SUBSET Object
  BY DEF ColumnsOf, Names, Object
<1>3. CASE op = "ensure" /\ x \notin d.objects
  <2>1. e = [d EXCEPT !.objects = d.objects \cup {x} \cup ColumnsOf(x)]
    BY <1>1, <1>3 DEF Executed, Database
  <2> QED
    BY <1>1, <1>2, <1>3, <2>1 DEF Database, SameTexts, SameRest, SameMarks, s, ObjectsAfter, BlankAfter
<1>4. CASE op = "ensure" /\ x \in d.objects
  <2>1. e = d
    BY <1>1, <1>4 DEF Executed
  <2> QED
    BY <1>1, <1>4, <2>1 DEF Database, SameTexts, SameRest, SameMarks, s, ObjectsAfter, BlankAfter
<1>5. CASE op \in {"create", "insert", "index"}
  <2>1. e = [d EXCEPT !.objects = d.objects \cup {x}]
    BY <1>1, <1>5 DEF Executed, Database
  <2> QED
    BY <1>1, <1>5, <2>1 DEF Database, SameTexts, SameRest, SameMarks, s, ObjectsAfter, BlankAfter
<1>6. CASE op \in {"add", "try_add"}
  <2> DEFINE B == IF x \in {"users.uuid", "groups.uuid"} THEN d.rows \cap RowsOf(TableOf(x)) ELSE {}
  <2>1. e = [d EXCEPT !.objects = d.objects \cup {x}, !.blank = d.blank \cup B]
    BY <1>1, <1>6 DEF Executed, Database, Added
  <2>2. B \in SUBSET Rows
    BY DEF Database
  <2> HIDE DEF B
  <2>3. /\ e \in Database /\ SameTexts(e, d) /\ SameRest(e, d)
        /\ SameMarks(e, d)
        /\ e.readonly <=> d.readonly
        /\ e.objects = d.objects \cup {x} /\ e.blank = d.blank \cup B
    <3> DEFINE O == d.objects \cup {x}
               C == d.blank \cup B
    <3>1. O \in SUBSET Object /\ C \in SUBSET Rows
      BY <2>2 DEF Database
    <3>2. e = [d EXCEPT !.objects = O, !.blank = C]
      BY <2>1
    <3> HIDE DEF O, C, e
    <3>3. /\ e \in Database /\ SameTexts(e, d) /\ SameRest(e, d)
          /\ SameMarks(e, d)
          /\ e.readonly <=> d.readonly
          /\ e.objects = O /\ e.blank = C
      BY <3>1, <3>2 DEF Database, SameTexts, SameRest, SameMarks
    <3> QED
      BY <3>3 DEF O, C
  <2> HIDE DEF e
  <2>4. op # "ensure"
    BY <1>6
  <2> QED
    BY <1>6, <2>3, <2>4 DEF B, e, s, ObjectsAfter, BlankAfter
<1> QED
  BY <1>3, <1>4, <1>5, <1>6

\* The table is kept: only the texts of the column c, or of the temporary one, change.
SameTables(e, d) ==
    /\ e.objects = d.objects /\ e.blank = d.blank /\ e.conflicts = d.conflicts
    /\ e.lowered = d.lowered
    /\ e.readonly <=> d.readonly

LEMMA RenameStatement ==
  ASSUME NEW d \in Database, NEW c \in Names
  PROVE  LET e == Executed(d, Stmt("rename", c))
         IN  /\ e \in Database /\ SameRest(e, d) /\ e.value = d.value
             /\ e.blank = d.blank /\ e.conflicts = d.conflicts /\ e.lowered = d.lowered
             /\ e.readonly <=> d.readonly
             /\ e.objects = (d.objects \ {c}) \cup {TempName}
             /\ e.cell[c] = Null /\ e.cell[TempName] = d.cell[c]
             /\ \A x \in Names \ {c} : e.cell[x] = d.cell[x]
<1> DEFINE e == Executed(d, Stmt("rename", c))
           O == (d.objects \ {c}) \cup {TempName}
           C == [d.cell EXCEPT ![TempName] = d.cell[c], ![c] = Null]
<1>1. e = [d EXCEPT !.objects = O, !.cell = C]
  BY DEF Executed, Stmt, Database
<1>2. O \in SUBSET Object
  BY DEF Database, Object
<1>3. /\ C \in [Names \cup {TempName} -> Cells]
      /\ C[c] = Null /\ C[TempName] = d.cell[c]
      /\ \A x \in Names \ {c} : C[x] = d.cell[x]
  BY DEF Database, Cells, Names, TempName
<1> HIDE DEF O, C, e
<1>4. /\ e \in Database /\ SameRest(e, d) /\ e.value = d.value
      /\ e.blank = d.blank /\ e.conflicts = d.conflicts /\ e.lowered = d.lowered
      /\ e.readonly <=> d.readonly
      /\ e.objects = O /\ e.cell = C
  BY <1>1, <1>2, <1>3 DEF Database, SameRest
<1> QED
  BY <1>3, <1>4 DEF O, e

LEMMA DropStatement ==
  ASSUME NEW d \in Database, NEW c \in Names \cup {TempName}
  PROVE  LET e == Executed(d, Stmt("drop", c))
         IN  /\ e \in Database /\ SameRest(e, d) /\ e.value = d.value
             /\ e.blank = d.blank /\ e.conflicts = d.conflicts /\ e.lowered = d.lowered
             /\ e.readonly <=> d.readonly
             /\ e.objects = d.objects \ {c}
             /\ e.cell[c] = Null
             /\ \A x \in (Names \cup {TempName}) \ {c} : e.cell[x] = d.cell[x]
<1> DEFINE e == Executed(d, Stmt("drop", c))
           O == d.objects \ {c}
           C == [d.cell EXCEPT ![c] = Null]
<1>1. e = [d EXCEPT !.objects = O, !.cell = C]
  BY DEF Executed, Stmt, Database
<1>2. O \in SUBSET Object
  BY DEF Database
<1>3. /\ C \in [Names \cup {TempName} -> Cells] /\ C[c] = Null
      /\ \A x \in (Names \cup {TempName}) \ {c} : C[x] = d.cell[x]
  BY DEF Database, Cells
<1> HIDE DEF O, C, e
<1>4. /\ e \in Database /\ SameRest(e, d) /\ e.value = d.value
      /\ e.blank = d.blank /\ e.conflicts = d.conflicts /\ e.lowered = d.lowered
      /\ e.readonly <=> d.readonly
      /\ e.objects = O /\ e.cell = C
  BY <1>1, <1>2, <1>3 DEF Database, SameRest
<1> QED
  BY <1>3, <1>4 DEF O, e

\* copy and empty_to_null, on the column c.
LEMMA CellStatement ==
  ASSUME NEW d \in Database, NEW c \in Names, NEW op \in {"copy", "empty_to_null"}
  PROVE  LET e == Executed(d, Stmt(op, c))
         IN  /\ e \in Database /\ SameRest(e, d) /\ SameTables(e, d) /\ e.value = d.value
             /\ e.cell[c] = IF op = "copy" THEN d.cell[TempName]
                            ELSE IF d.cell[c] = Empty THEN Null ELSE d.cell[c]
             /\ \A x \in (Names \cup {TempName}) \ {c} : e.cell[x] = d.cell[x]
<1> DEFINE e == Executed(d, Stmt(op, c))
           t == IF op = "copy" THEN d.cell[TempName]
                ELSE IF d.cell[c] = Empty THEN Null ELSE d.cell[c]
           C == [d.cell EXCEPT ![c] = t]
<1>1. e = [d EXCEPT !.cell = C]
  <2>1. CASE op = "copy"
    BY <2>1 DEF Executed, Stmt, Database
  <2>2. CASE op = "empty_to_null"
    <3>1. e = [d EXCEPT !.cell = [d.cell EXCEPT ![c] = IF d.cell[c] = Empty THEN Null
                                                       ELSE d.cell[c]]]
      BY <2>2 DEF Executed, Stmt, Database
    <3> HIDE DEF e
    <3>2. t = IF d.cell[c] = Empty THEN Null ELSE d.cell[c]
      BY <2>2
    <3> QED
      BY <3>1, <3>2
  <2> QED
    BY <2>1, <2>2
<1>2. t \in Cells
  BY DEF Database, Cells
<1> HIDE DEF t
<1>3. /\ C \in [Names \cup {TempName} -> Cells] /\ C[c] = t
      /\ \A x \in (Names \cup {TempName}) \ {c} : C[x] = d.cell[x]
  BY <1>2 DEF Database
<1> HIDE DEF C, e
<1>4. /\ e \in Database /\ SameRest(e, d) /\ SameTables(e, d) /\ e.value = d.value
      /\ e.cell = C
  BY <1>1, <1>3 DEF Database, SameRest, SameTables
<1> QED
  BY <1>3, <1>4 DEF t, e

LEMMA MoveStatement ==
  ASSUME NEW d \in Database
  PROVE  LET e == Executed(d, Stmt("move", "users"))
         IN  /\ e \in Database /\ SameRest(e, d) /\ SameTables(e, d) /\ e.cell = d.cell
             /\ e.value["display_name"] = Null
             /\ \A x \in Names \ {"display_name"} : e.value[x] = d.cell[x]
<1> DEFINE e == Executed(d, Stmt("move", "users"))
           V == [c \in Names |-> IF c = "display_name" THEN Null ELSE d.cell[c]]
<1>1. e = [d EXCEPT !.value = V]
  BY DEF Executed, Stmt, Moved
<1>2. /\ V \in [Names -> Cells] /\ V["display_name"] = Null
      /\ \A x \in Names \ {"display_name"} : V[x] = d.cell[x]
  BY DEF Database, Cells, Names
<1> HIDE DEF V, e
<1>3. /\ e \in Database /\ SameRest(e, d) /\ SameTables(e, d) /\ e.cell = d.cell /\ e.value = V
  BY <1>1, <1>2 DEF Database, SameRest, SameTables
<1> QED
  BY <1>2, <1>3 DEF e

\* The other statements touch neither tables nor texts.
LEMMA OtherStatement ==
  ASSUME NEW d \in Database,
         NEW op \in {"lower", "deduplicate", "try_rename_group"}, NEW x,
         op = "lower" => x \in LowerCase
  PROVE  LET e == Executed(d, Stmt(op, x))
         IN  /\ e \in Database /\ SameTexts(e, d) /\ SameRest(e, d)
             /\ e.objects = d.objects /\ e.blank = d.blank /\ e.conflicts \subseteq d.conflicts
             /\ d.lowered \subseteq e.lowered
             /\ op = "lower" => x \in e.lowered
             /\ e.readonly <=> d.readonly /\ op # "try_rename_group"
<1> DEFINE s == Stmt(op, x)
           e == Executed(d, s)
<1>1. s.op = op /\ s.on = x
  BY DEF Stmt
<1> HIDE DEF s
<1>2. CASE op = "lower"
  <2> DEFINE L == d.lowered \cup {x}
  <2>1. e = [d EXCEPT !.lowered = L]
    BY <1>1, <1>2 DEF Executed, Database
  <2>2. L \in SUBSET LowerCase
    BY <1>2 DEF Database
  <2> HIDE DEF L, e
  <2>3. /\ e \in Database /\ SameTexts(e, d) /\ SameRest(e, d)
        /\ e.objects = d.objects /\ e.blank = d.blank /\ e.conflicts \subseteq d.conflicts
        /\ e.lowered = L
        /\ e.readonly <=> d.readonly
    BY <2>1, <2>2 DEF Database, SameTexts, SameRest
  <2> QED
    BY <1>2, <2>3 DEF e, L, s
<1>3. CASE op = "deduplicate"
  <2> DEFINE K == d.conflicts \ {"unique-memberships"}
  <2>1. e = [d EXCEPT !.conflicts = K]
    BY <1>1, <1>3 DEF Executed, Database
  <2>2. K \in SUBSET Conflicts /\ K \subseteq d.conflicts
    BY DEF Database
  <2> HIDE DEF K, e
  <2>3. /\ e \in Database /\ SameTexts(e, d) /\ SameRest(e, d)
        /\ e.objects = d.objects /\ e.blank = d.blank /\ e.conflicts \subseteq d.conflicts
        /\ e.lowered = d.lowered
        /\ e.readonly <=> d.readonly
    BY <2>1, <2>2 DEF Database, SameTexts, SameRest
  <2> QED
    BY <1>3, <2>3 DEF e, s
<1>4. CASE op = "try_rename_group"
  <2>1. e = [d EXCEPT !.readonly = FALSE]
    BY <1>1, <1>4 DEF Executed, Database
  <2> HIDE DEF e
  <2>2. /\ e \in Database /\ SameTexts(e, d) /\ SameRest(e, d)
        /\ e.objects = d.objects /\ e.blank = d.blank /\ e.conflicts \subseteq d.conflicts
        /\ e.lowered = d.lowered
        /\ ~e.readonly
    BY <2>1 DEF Database, SameTexts, SameRest
  <2> QED
    BY <1>4, <2>2 DEF e, s
<1> QED
  BY <1>2, <1>3, <1>4


-----------------------------------------------------------------------------
(* The inductive invariant.                                                 *)

\* Where the process is, and what it sees: outside a transaction, the durable contents.
Types ==
    /\ backend \in Backends /\ disk \in Database /\ db \in Database
    /\ pc \in {"down", "running", "asserting", "serving"}
    /\ at \in (1 .. LastVersion) \X (1 .. 15)
    /\ kills \in Nat /\ errors \in Nat /\ torn \in BOOLEAN
    /\ origin \in [Names -> Cells]
    /\ pc = "running" => at[2] <= Len(Script[at[1]]) + 1
    /\ pc # "running" \/ at[1] = 1 => db = disk

\* Uuids are empty only in the rows that are being filled in.
Filling(d) ==
    /\ pc = "running" /\ at \in {<<1, 5>>, <<1, 7>>}
    /\ d.blank \subseteq RowsOf(TableOf(Statement.on))

Blanks == torn \/ (db.blank = {} /\ disk.blank = {}) \/ Filling(disk)

-----------------------------------------------------------------------------
(* The texts.                                                               *)

\* Every place holds its own text, and what the first start found (o) is in one of them.
\* Columns that are not there hold nothing, and values come with the tables.
Sound(d, o) ==
    /\ \A c \in Names : d.cell[c] \in {Null, Empty, c} /\ d.value[c] \in {Null, Empty, c}
    /\ d.value["display_name"] = Null
    /\ \A c \in Names \cup {TempName} : c \notin d.objects => d.cell[c] = Null
    /\ \A c \in Names : o[c] = c <=> Holds(d, c, c)
    /\ "users" \notin d.objects =>
          d.objects \cap Names = {} /\ \A c \in Names : d.value[c] = Null

\* There are no values while the columns are there.
ColumnsOrValues(d) == "first_name" \in d.objects => \A c \in Names : d.value[c] = Null

\* replace_column(c): the text is in the temporary column only, or in both.
Waiting(d, c) ==
    /\ d.cell[c] = Null /\ d.cell[TempName] \in {Null, Empty, c}
    /\ {"users", TempName} \subseteq d.objects
Copied(d, c) ==
    /\ d.cell[TempName] \in {Null, Empty, c}
    /\ d.cell[c] = c <=> d.cell[TempName] = c

\* What is known of the texts before statement p of migration v.
Stage(d, v, p) ==
    /\ v = 2 /\ p \in {2, 3} => Waiting(d, "display_name")
    /\ v = 2 /\ p \in {4, 5} => Copied(d, "display_name")
    /\ v = 3 /\ p \in {2, 3} => Waiting(d, "first_name")
    /\ v = 3 /\ p \in {4, 5} => Copied(d, "first_name")
    /\ v = 3 /\ p \in {7, 8} => Waiting(d, "last_name")
    /\ v = 3 /\ p \in {9, 10} => Copied(d, "last_name")
    /\ v = 3 /\ p \in {12, 13} => Waiting(d, "avatar")
    /\ v = 3 /\ p = 14 => Copied(d, "avatar")
    /\ v = 2 /\ p = 3 => "display_name" \in d.objects
    /\ v = 3 /\ p = 3 => "first_name" \in d.objects
    /\ v = 3 /\ p = 8 => "last_name" \in d.objects
    /\ v = 3 /\ p = 13 => "avatar" \in d.objects
    /\ v = 3 /\ p = 2 => \A c \in Names : d.value[c] = Null
    /\ v = 5 /\ p = 7 => d.value["first_name"] = d.cell["first_name"]
    /\ v = 5 /\ p \in {7, 8} => d.value["last_name"] = d.cell["last_name"]
    /\ v = 5 /\ p \in {7, 8, 9} => d.value["avatar"] = d.cell["avatar"]
    /\ ~(v = 5 /\ p = 7) => ColumnsOrValues(d)

Texts ==
    /\ Sound(disk, origin) /\ ColumnsOrValues(disk)
    /\ pc = "running" => Sound(db, origin) /\ Stage(db, at[1], at[2])

-----------------------------------------------------------------------------
(* The tables and the recorded version, as long as no error was taken for   *)
(* an answer.                                                               *)

Creates == {"ensure", "create", "insert", "index", "add", "try_add"}

\* What the statements of migration v before p have created, filled in and dropped.
Before(v, p, ops) ==
    {Script[v][j].on : j \in {i \in 1 .. Len(Script[v]) : i < p /\ Script[v][i].op \in ops}}
Made(v, p) == Before(v, p, Creates) \ (Names \cup {TempName})

\* The tables of version v are there.
Ready(d, v) ==
    /\ Lasting(v) \subseteq d.objects
    /\ v >= 5 => d.objects \cap Names \subseteq {"display_name"}
    /\ v >= 6 => d.lowered = LowerCase
    /\ ~d.readonly

\* Before statement p of migration v.
Progress(d, v, p) ==
    /\ v > 1 => Ready(d, v - 1)
    /\ Made(v, p) \subseteq d.objects
    /\ v = 5 => Before(v, p, {"drop"}) \cap d.objects = {}
    /\ Before(v, p, {"lower"}) \subseteq d.lowered
    /\ v = 1 /\ p >= 10 => ~d.readonly

Versions ==
    errors = 0 =>
        /\ disk.meta # <<>> => \E v \in 1 .. LastVersion + 1 : disk.meta = <<v>> /\ Ready(disk, v)
        /\ pc = "running" =>
              /\ disk.meta = (IF at[1] = 1 THEN <<>> ELSE <<at[1] - 1>>)
              /\ db.meta = disk.meta
              /\ Progress(db, at[1], at[2])
        /\ pc = "asserting" => disk.meta = <<1>>

-----------------------------------------------------------------------------
(* The exact tables, with transactional DDL.                                *)

\* The column that replace_column is at in statement p of migration v.
Replaced(v, p) ==
    IF v = 2 THEN "display_name"
    ELSE IF p <= 5 THEN "first_name" ELSE IF p <= 10 THEN "last_name" ELSE "avatar"

\* The tables before statement p of migration v, from those of version v - 1.
ObjectsBefore(v, p) ==
    IF v \in {2, 3}
    THEN IF p \in {2, 7, 12} THEN (ObjectsAt(v - 1) \ {Replaced(v, p)}) \cup {TempName}
         ELSE IF p \in {1, 6, 11, 15} THEN ObjectsAt(v - 1)
         ELSE ObjectsAt(v - 1) \cup {TempName}
    ELSE (ObjectsAt(v - 1) \cup Made(v, p)) \ Before(v, p, {"drop"})

\* The tables of a durable database: exactly those of its version, or a part of the first.
WholeVersion(d) ==
    /\ d.meta # <<>> => \E v \in 1 .. LastVersion + 1 : d.meta = <<v>> /\ d.objects = ObjectsAt(v)
    /\ d.meta = <<>> => /\ d.objects \subseteq ObjectsAt(1)
                        /\ "users" \in d.objects => Names \subseteq d.objects

Exact ==
    errors = 0 /\ Transactional =>
        /\ WholeVersion(disk)
        /\ pc = "running" /\ at[1] > 1 => db.objects = ObjectsBefore(at[1], at[2])

IInv == Types /\ Blanks /\ Texts /\ Versions /\ Exact

-----------------------------------------------------------------------------
(* Which statement does what to the texts.                                  *)

Creating(s) == \E op \in Creates, x \in Object \ (Names \cup {TempName}) : s = Stmt(op, x)

\* The statements at each place of the scripts.
LEMMA StatementKinds ==
  ASSUME NEW v \in 1 .. LastVersion, NEW p \in 1 .. Len(Script[v])
  PROVE  \/ v \notin {2, 3} /\ ~(v = 5 /\ p > 5) /\ Creating(Script[v][p])
         \/ v = 1 /\ p \in {5, 7} /\ Script[v][p].op = "fill"
         \/ v \in {2, 3}
         \/ v = 5 /\ p \in 6 .. 9
         \/ /\ <<v, p>> \in {<<1, 9>>, <<6, 3>>, <<6, 4>>, <<8, 1>>}
            /\ \E op \in {"lower", "deduplicate", "try_rename_group"},
                  x \in LowerCase \cup {"memberships", "lldap_readonly"} :
                    /\ Script[v][p] = Stmt(op, x)
                    /\ op = "lower" => x \in LowerCase
<1>1. v \in {1, 2, 3, 4, 5, 6, 7, 8, 9, 10}
  BY ScriptLengths
<1>2. CASE v = 1
  <2>1. p \in 1 .. 10
    BY <1>2, V1Statements
  <2>2. CASE p \in {1, 2, 3, 4, 6, 8, 10}
    <3>1. Creating(Script[v][p])
      BY <1>2, <2>2, V1Statements DEF Creating, Creates, Object, Names, TempName
    <3> QED
      BY <1>2, <3>1
  <2>3. CASE p \in {5, 7}
    BY <1>2, <2>3, V1Statements DEF Stmt
  <2>4. CASE p = 9
    BY <1>2, <2>4, V1Statements
  <2> QED
    BY <2>1, <2>2, <2>3, <2>4
<1>3. CASE v = 4
  <2>1. p \in {1, 2, 3}
    BY <1>3, V4Statements
  <2>2. Creating(Script[v][p])
    BY <1>3, <2>1, V4Statements DEF Creating, Creates, Object, Names, TempName, Indexes
  <2> QED
    BY <1>3, <2>2
<1>4. CASE v = 5
  <2>1. p \in 1 .. 9
    BY <1>4, V5Statements
  <2>2. CASE p \in {1, 2, 3, 4, 5}
    <3>1. Creating(Script[v][p])
      BY <1>4, <2>2, V5Statements DEF Creating, Creates, Object, Names, TempName
    <3> QED
      BY <1>4, <2>2, <3>1
  <2>3. CASE p \in 6 .. 9
    BY <1>4, <2>3
  <2> QED
    BY <2>1, <2>2, <2>3
<1>5. CASE v = 6
  <2>1. p \in 1 .. 4
    BY <1>5, V6Statements
  <2>2. CASE p \in {1, 2}
    <3>1. Creating(Script[v][p])
      BY <1>5, <2>2, V6Statements DEF Creating, Creates, Object, Names, TempName
    <3> QED
      BY <1>5, <3>1
  <2>3. CASE p \in {3, 4}
    BY <1>5, <2>3, V6Statements DEF LowerCase
  <2> QED
    BY <2>1, <2>2, <2>3
<1>6. CASE v \in {7, 9, 10}
  <2>0. Len(Script[v]) = 2
    BY <1>6, LateStatements
  <2>1. p \in {1, 2}
    BY <2>0
  <2>2. Creating(Script[v][p])
    BY <1>6, <2>1, LateStatements DEF Creating, Creates, Object, Names, TempName, Indexes
  <2> QED
    BY <1>6, <2>2
<1>7. CASE v = 8
  <2>1. p \in {1, 2}
    BY <1>7, LateStatements
  <2>2. CASE p = 1
    BY <1>7, <2>2, LateStatements
  <2>3. CASE p = 2
    <3>1. Creating(Script[v][p])
      BY <1>7, <2>3, LateStatements DEF Creating, Creates, Object, Names, TempName, Indexes
    <3> QED
      BY <1>7, <3>1
  <2> QED
    BY <2>1, <2>2, <2>3
<1>8. CASE v \in {2, 3}
  BY <1>8
<1> QED
  BY <1>1, <1>2, <1>3, <1>4, <1>5, <1>6, <1>7, <1>8

\* A created table brings its columns, which are empty.
LEMMA CreatingTexts ==
  ASSUME NEW d \in Database, NEW o, NEW s, Creating(s), Sound(d, o), ColumnsOrValues(d)
  PROVE  LET e == Executed(d, s) IN Sound(e, o) /\ ColumnsOrValues(e)
<1> DEFINE e == Executed(d, s)
<1>1. PICK op \in Creates, x \in Object \ (Names \cup {TempName}) : s = Stmt(op, x)
  BY DEF Creating
<1>2. SameTexts(e, d) /\ e.objects = ObjectsAfter(d, op, x)
  <2>1. op \in {"ensure", "create", "insert", "index", "add", "try_add"} /\ x \in Object
    BY DEF Creates
  <2>2. e = Executed(d, Stmt(op, x))
    BY <1>1
  <2> HIDE DEF e
  <2> QED
    BY <2>1, <2>2, ObjectStatement
<1> HIDE DEF e
<1>3. /\ d.objects \subseteq e.objects
      /\ x # "users" => e.objects \cap Names = d.objects \cap Names
      /\ x = "users" /\ x \in d.objects => e.objects = d.objects
      /\ x = "users" => "users" \in e.objects
  <2>1. x # "users" => ColumnsOf(x) \cap Names = {}
    BY DEF ColumnsOf, Names
  <2> QED
    BY <1>2, <2>1 DEF ObjectsAfter
<1>4. Sound(e, o)
  BY <1>2, <1>3 DEF Sound, SameTexts, Holds
<1>5. ColumnsOrValues(e)
  BY <1>2, <1>3 DEF ColumnsOrValues, Sound, SameTexts, Names
<1> QED
  BY <1>4, <1>5 DEF e

LEMMA RenameTexts ==
  ASSUME NEW d \in Database, NEW o, NEW c \in Names, Sound(d, o), ColumnsOrValues(d),
         ~Refused(d, Stmt("rename", c))
  PROVE  LET e == Executed(d, Stmt("rename", c))
         IN  /\ Sound(e, o) /\ ColumnsOrValues(e) /\ Waiting(e, c)
             /\ c = "first_name" => \A n \in Names : e.value[n] = Null
<1> DEFINE e == Executed(d, Stmt("rename", c))
<1>1. c \in d.objects /\ TempName \notin d.objects
  BY DEF Refused, Stmt
<1>2. /\ e.value = d.value
      /\ e.objects = (d.objects \ {c}) \cup {TempName}
      /\ e.cell[c] = Null /\ e.cell[TempName] = d.cell[c]
      /\ \A x \in Names \ {c} : e.cell[x] = d.cell[x]
  BY RenameStatement
<1> HIDE DEF e
<1>3. "users" \in d.objects /\ d.cell[TempName] = Null
  BY <1>1 DEF Sound
<1>4. Sound(e, o)
  <2>1. "users" \in e.objects
    BY <1>2, <1>3 DEF Names
  <2>2. \A n \in Names : e.cell[n] \in {Null, Empty, n} /\ e.value[n] \in {Null, Empty, n}
    BY <1>2 DEF Sound
  <2>3. \A n \in Names \cup {TempName} : n \notin e.objects => e.cell[n] = Null
    BY <1>2 DEF Sound
  <2>4. ASSUME NEW n \in Names
        PROVE  o[n] = n <=> Holds(e, n, n)
    <3>1. o[n] = n <=> Holds(d, n, n)
      BY DEF Sound
    <3>2. n # Null /\ n # Empty
      BY DEF Names, Null, Empty
    <3>3. d.cell[c] \in {Null, Empty, c}
      BY DEF Sound
    <3> QED
      BY <1>2, <1>3, <3>1, <3>2, <3>3 DEF Holds
  <2> QED
    BY <1>2, <2>1, <2>2, <2>3, <2>4 DEF Sound
<1>5. Waiting(e, c)
  BY <1>2, <1>3 DEF Waiting, Sound, Names, TempName
<1>6. ColumnsOrValues(e)
  BY <1>2 DEF ColumnsOrValues, TempName
<1> QED
  BY <1>1, <1>2, <1>4, <1>5, <1>6 DEF e, ColumnsOrValues

LEMMA AddTexts ==
  ASSUME NEW d \in Database, NEW o, NEW c \in Names, Sound(d, o), ColumnsOrValues(d), Waiting(d, c),
         c = "first_name" => \A n \in Names : d.value[n] = Null
  PROVE  LET e == Executed(d, Stmt("add", c))
         IN  /\ Sound(e, o) /\ ColumnsOrValues(e) /\ Waiting(e, c) /\ c \in e.objects
<1> DEFINE e == Executed(d, Stmt("add", c))
<1>1. SameTexts(e, d) /\ e.objects = d.objects \cup {c}
  <2>1. e.objects = ObjectsAfter(d, "add", c) /\ SameTexts(e, d)
    BY ObjectStatement DEF Object, Names
  <2> QED
    BY <2>1 DEF ObjectsAfter
<1> HIDE DEF e
<1>2. Sound(e, o)
  BY <1>1 DEF Sound, SameTexts, Waiting, Holds
<1>3. Waiting(e, c) /\ c \in e.objects
  BY <1>1 DEF Waiting, SameTexts
<1>4. ColumnsOrValues(e)
  BY <1>1 DEF ColumnsOrValues, SameTexts
<1> QED
  BY <1>2, <1>3, <1>4 DEF e

LEMMA CopyTexts ==
  ASSUME NEW d \in Database, NEW o, NEW c \in Names, Sound(d, o), ColumnsOrValues(d), Waiting(d, c),
         c \in d.objects
  PROVE  LET e == Executed(d, Stmt("copy", c))
         IN  Sound(e, o) /\ ColumnsOrValues(e) /\ Copied(e, c)
<1> DEFINE e == Executed(d, Stmt("copy", c))
<1>1. /\ SameTables(e, d) /\ e.value = d.value /\ e.cell[c] = d.cell[TempName]
      /\ \A x \in (Names \cup {TempName}) \ {c} : e.cell[x] = d.cell[x]
  BY CellStatement
<1>2. c # TempName
  BY DEF Names, TempName
<1> HIDE DEF e
<1>3. e.objects = d.objects /\ e.cell[TempName] = d.cell[TempName]
  BY <1>1, <1>2 DEF SameTables
<1>4. Copied(e, c) /\ ColumnsOrValues(e)
  BY <1>1, <1>3 DEF Copied, Waiting, ColumnsOrValues
<1>5. Sound(e, o)
  <2>1. \A n \in Names : e.cell[n] \in {Null, Empty, n} /\ e.value[n] \in {Null, Empty, n}
    BY <1>1, <1>2 DEF Sound, Waiting
  <2>2. \A n \in Names \cup {TempName} : n \notin e.objects => e.cell[n] = Null
    BY <1>1, <1>3 DEF Sound
  <2>3. ASSUME NEW n \in Names
        PROVE  o[n] = n <=> Holds(e, n, n)
    <3>1. o[n] = n <=> Holds(d, n, n)
      BY DEF Sound
    <3>2. n # Null /\ n # Empty
      BY DEF Names, Null, Empty
    <3> QED
      BY <1>1, <1>3, <3>1, <3>2 DEF Holds, Waiting
  <2> QED
    BY <1>1, <1>3, <2>1, <2>2, <2>3 DEF Sound
<1> QED
  BY <1>4, <1>5 DEF e

LEMMA EmptyTexts ==
  ASSUME NEW d \in Database, NEW o, NEW c \in Names, Sound(d, o), ColumnsOrValues(d), Copied(d, c)
  PROVE  LET e == Executed(d, Stmt("empty_to_null", c))
         IN  Sound(e, o) /\ ColumnsOrValues(e) /\ Copied(e, c)
<1> DEFINE e == Executed(d, Stmt("empty_to_null", c))
<1>1. /\ SameTables(e, d) /\ e.value = d.value
      /\ e.cell[c] = IF d.cell[c] = Empty THEN Null ELSE d.cell[c]
      /\ \A x \in (Names \cup {TempName}) \ {c} : e.cell[x] = d.cell[x]
  BY CellStatement
<1>2. c # TempName
  BY DEF Names, TempName
<1> HIDE DEF e
<1>3. e.objects = d.objects /\ e.cell[TempName] = d.cell[TempName]
  BY <1>1, <1>2 DEF SameTables
<1>4. \A n \in Names : n # Null /\ n # Empty
  BY DEF Names, Null, Empty
<1>5. \A n \in Names : e.cell[n] = n <=> d.cell[n] = n
  BY <1>1, <1>4
<1>6. Copied(e, c) /\ ColumnsOrValues(e)
  BY <1>1, <1>3, <1>5 DEF Copied, ColumnsOrValues
<1>7. Sound(e, o)
  <2>1. \A n \in Names : e.cell[n] \in {Null, Empty, n} /\ e.value[n] \in {Null, Empty, n}
    BY <1>1 DEF Sound
  <2>2. \A n \in Names \cup {TempName} : n \notin e.objects => e.cell[n] = Null
    BY <1>1, <1>3 DEF Sound
  <2>3. ASSUME NEW n \in Names
        PROVE  o[n] = n <=> Holds(e, n, n)
    <3>1. o[n] = n <=> Holds(d, n, n)
      BY DEF Sound
    <3> QED
      BY <1>1, <1>3, <1>5, <3>1 DEF Holds
  <2> QED
    BY <1>1, <1>3, <2>1, <2>2, <2>3 DEF Sound
<1> QED
  BY <1>6, <1>7 DEF e

\* The temporary column goes when its text is in the new one.
LEMMA DropTempTexts ==
  ASSUME NEW d \in Database, NEW o, NEW c \in Names, Sound(d, o), ColumnsOrValues(d), Copied(d, c)
  PROVE  LET e == Executed(d, Stmt("drop", TempName)) IN Sound(e, o) /\ ColumnsOrValues(e)
<1> DEFINE e == Executed(d, Stmt("drop", TempName))
<1>1. /\ e.value = d.value /\ e.objects = d.objects \ {TempName} /\ e.cell[TempName] = Null
      /\ \A x \in (Names \cup {TempName}) \ {TempName} : e.cell[x] = d.cell[x]
  BY DropStatement
<1> HIDE DEF e
<1>2. \A n \in Names : n # Null /\ n # Empty /\ n # TempName
  BY DEF Names, Null, Empty, TempName
<1>3. "users" # TempName /\ "first_name" # TempName
  BY DEF TempName
<1>4. ColumnsOrValues(e)
  BY <1>1 DEF ColumnsOrValues
<1>5. Sound(e, o)
  <2>1. \A n \in Names : e.cell[n] = d.cell[n]
    BY <1>1, <1>2
  <2>2. ASSUME NEW n \in Names
        PROVE  o[n] = n <=> Holds(e, n, n)
    <3>1. o[n] = n <=> Holds(d, n, n)
      BY DEF Sound
    <3> QED
      BY <1>1, <1>2, <2>1, <3>1 DEF Holds, Copied
  <2>3. "users" \notin e.objects =>
          e.objects \cap Names = {} /\ \A n \in Names : e.value[n] = Null
    BY <1>1, <1>3 DEF Sound
  <2>4. \A n \in Names \cup {TempName} : n \notin e.objects => e.cell[n] = Null
    BY <1>1, <2>1 DEF Sound
  <2> QED
    BY <1>1, <2>1, <2>2, <2>3, <2>4 DEF Sound
<1> QED
  BY <1>4, <1>5 DEF e

\* The cells become values: there were none, because the columns are there.
LEMMA MoveTexts ==
  ASSUME NEW d \in Database, NEW o, Sound(d, o), ColumnsOrValues(d),
         ~Refused(d, Stmt("move", "users"))
  PROVE  LET e == Executed(d, Stmt("move", "users"))
         IN  /\ Sound(e, o) /\ "users" \in e.objects
             /\ \A c \in {"first_name", "last_name", "avatar"} : e.value[c] = e.cell[c]
<1> DEFINE e == Executed(d, Stmt("move", "users"))
<1>1. /\ e.objects = d.objects /\ e.cell = d.cell /\ e.value["display_name"] = Null
      /\ \A x \in Names \ {"display_name"} : e.value[x] = d.cell[x]
  BY MoveStatement DEF SameTables
<1>2. {"first_name", "last_name", "avatar"} \subseteq d.objects
  BY DEF Refused, Stmt
<1> HIDE DEF e
<1>3. \A n \in Names : d.value[n] = Null
  BY <1>2 DEF ColumnsOrValues
<1>4. "users" \in d.objects
  BY <1>2 DEF Sound, Names
<1>5. \A n \in Names : e.value[n] \in {Null, Empty, n}
  BY <1>1 DEF Sound, Names
<1>6. ASSUME NEW n \in Names
      PROVE  o[n] = n <=> Holds(e, n, n)
  <2>1. o[n] = n <=> Holds(d, n, n)
    BY DEF Sound
  <2>2. n # Null
    BY DEF Names, Null
  <2>3. CASE n = "display_name"
    BY <1>1, <1>3, <2>1, <2>2, <2>3 DEF Holds
  <2>4. CASE n # "display_name"
    <3>1. e.value[n] = d.cell[n]
      BY <1>1, <2>4
    <3> QED
      BY <1>1, <1>3, <2>1, <2>2, <3>1 DEF Holds
  <2> QED
    BY <2>3, <2>4
<1>7. Sound(e, o)
  BY <1>1, <1>4, <1>5, <1>6 DEF Sound
<1> QED
  BY <1>1, <1>4, <1>7 DEF e, Names

\* A column goes when its text is a value.
LEMMA DropColumnTexts ==
  ASSUME NEW d \in Database, NEW o, NEW c \in Names, Sound(d, o), d.value[c] = d.cell[c]
  PROVE  LET e == Executed(d, Stmt("drop", c))
         IN  /\ Sound(e, o) /\ e.value = d.value /\ c \notin e.objects /\ e.objects \subseteq d.objects
             /\ \A n \in Names \ {c} : e.cell[n] = d.cell[n]
<1> DEFINE e == Executed(d, Stmt("drop", c))
<1>1. /\ e.value = d.value /\ e.objects = d.objects \ {c} /\ e.cell[c] = Null
      /\ \A x \in (Names \cup {TempName}) \ {c} : e.cell[x] = d.cell[x]
  BY DropStatement
<1>2. c # TempName /\ c # "users" /\ c # Null
  BY DEF Names, TempName, Null
<1> HIDE DEF e
<1>3. e.cell[TempName] = d.cell[TempName]
  BY <1>1, <1>2
<1>4. ASSUME NEW n \in Names
      PROVE  o[n] = n <=> Holds(e, n, n)
  <2>1. o[n] = n <=> Holds(d, n, n)
    BY DEF Sound
  <2>2. CASE n = c
    BY <1>1, <1>2, <1>3, <2>1, <2>2 DEF Holds
  <2>3. CASE n # c
    BY <1>1, <1>3, <2>1, <2>3 DEF Holds
  <2> QED
    BY <2>2, <2>3
<1>5. \A n \in Names : e.cell[n] \in {Null, Empty, n} /\ e.value[n] \in {Null, Empty, n}
  BY <1>1 DEF Sound
<1>6. \A n \in Names \cup {TempName} : n \notin e.objects => e.cell[n] = Null
  BY <1>1 DEF Sound
<1>7. "users" \notin e.objects =>
          e.objects \cap Names = {} /\ \A n \in Names : e.value[n] = Null
  BY <1>1, <1>2 DEF Sound
<1>8. Sound(e, o)
  BY <1>1, <1>4, <1>5, <1>6, <1>7 DEF Sound
<1> QED
  BY <1>1, <1>8 DEF e

\* Every statement keeps the texts, and leaves what the next one relies on.
LEMMA TextStep ==
  ASSUME NEW d \in Database, NEW o, NEW v \in 1 .. LastVersion, NEW p \in 1 .. Len(Script[v]),
         Sound(d, o), Stage(d, v, p), Script[v][p].op # "fill", ~Refused(d, Script[v][p])
  PROVE  LET e == Executed(d, Script[v][p])
         IN  Sound(e, o) /\ Stage(e, v, p + 1)
<1> DEFINE e == Executed(d, Script[v][p])
<1>1. CASE v \notin {2, 3} /\ ~(v = 5 /\ p > 5) /\ Creating(Script[v][p])
  <2>1. ColumnsOrValues(d)
    BY <1>1 DEF Stage
  <2>2. Sound(e, o) /\ ColumnsOrValues(e)
    BY <1>1, <2>1, CreatingTexts
  <2> QED
    BY <1>1, <2>2 DEF Stage
<1>2. CASE <<v, p>> \in {<<1, 9>>, <<6, 3>>, <<6, 4>>, <<8, 1>>}
           /\ \E op \in {"lower", "deduplicate", "try_rename_group"},
                 x \in LowerCase \cup {"memberships", "lldap_readonly"} :
                    /\ Script[v][p] = Stmt(op, x)
                    /\ op = "lower" => x \in LowerCase
  <2>1. PICK op \in {"lower", "deduplicate", "try_rename_group"},
             x \in LowerCase \cup {"memberships", "lldap_readonly"} :
                    /\ Script[v][p] = Stmt(op, x)
                    /\ op = "lower" => x \in LowerCase
    BY <1>2
  <2>2. SameTexts(e, d) /\ e.objects = d.objects
    BY <2>1, OtherStatement
  <2>3. v \in {1, 6, 8}
    BY <1>2
  <2> HIDE DEF e
  <2>4. Sound(e, o)
    BY <2>2 DEF Sound, SameTexts, Holds
  <2>5. ColumnsOrValues(e)
    BY <2>2, <2>3 DEF ColumnsOrValues, SameTexts, Stage
  <2> QED
    BY <2>3, <2>4, <2>5 DEF e, Stage
<1>3. CASE v = 2
  <2>1. p \in {1, 2, 3, 4, 5}
    BY <1>3, V2Statements
  <2>2. ColumnsOrValues(d) /\ "display_name" \in Names /\ "display_name" # "first_name"
    BY <1>3 DEF Stage, Names
  <2>3. CASE p = 1
    <3>1. Script[v][p] = Stmt("rename", "display_name")
      BY <1>3, <2>3, V2Statements
    <3>2. Sound(e, o) /\ ColumnsOrValues(e) /\ Waiting(e, "display_name")
      BY <2>2, <3>1, RenameTexts
    <3> QED
      BY <1>3, <2>3, <3>2 DEF Stage
  <2>4. CASE p = 2
    <3>1. Script[v][p] = Stmt("add", "display_name") /\ Waiting(d, "display_name")
      BY <1>3, <2>4, V2Statements DEF Stage
    <3>2. /\ Sound(e, o) /\ ColumnsOrValues(e) /\ Waiting(e, "display_name")
          /\ "display_name" \in e.objects
      BY <2>2, <3>1, AddTexts
    <3> QED
      BY <1>3, <2>4, <3>2 DEF Stage
  <2>5. CASE p = 3
    <3>1. /\ Script[v][p] = Stmt("copy", "display_name") /\ Waiting(d, "display_name")
          /\ "display_name" \in d.objects
      BY <1>3, <2>5, V2Statements DEF Stage
    <3>2. Sound(e, o) /\ ColumnsOrValues(e) /\ Copied(e, "display_name")
      BY <2>2, <3>1, CopyTexts
    <3> QED
      BY <1>3, <2>5, <3>2 DEF Stage
  <2>6. CASE p = 4
    <3>1. Script[v][p] = Stmt("empty_to_null", "display_name") /\ Copied(d, "display_name")
      BY <1>3, <2>6, V2Statements DEF Stage
    <3>2. Sound(e, o) /\ ColumnsOrValues(e) /\ Copied(e, "display_name")
      BY <2>2, <3>1, EmptyTexts
    <3> QED
      BY <1>3, <2>6, <3>2 DEF Stage
  <2>7. CASE p = 5
    <3>1. Script[v][p] = Stmt("drop", TempName) /\ Copied(d, "display_name")
      BY <1>3, <2>7, V2Statements DEF Stage
    <3>2. Sound(e, o) /\ ColumnsOrValues(e)
      BY <2>2, <3>1, DropTempTexts
    <3> QED
      BY <1>3, <2>7, <3>2 DEF Stage
  <2> QED
    BY <2>1, <2>3, <2>4, <2>5, <2>6, <2>7
<1>4. CASE v = 3
  <2>1. p \in {1, 2, 3, 4, 5, 6, 7, 8, 9, 10, 11, 12, 13, 14}
    BY <1>4, V3Statements
  <2>2. ColumnsOrValues(d) /\ {"first_name", "last_name", "avatar"} \subseteq Names
    BY <1>4 DEF Stage, Names
  <2>3. CASE p \in {1, 6, 11}
    <3> DEFINE c == IF p = 1 THEN "first_name" ELSE IF p = 6 THEN "last_name" ELSE "avatar"
    <3>1. Script[v][p] = Stmt("rename", c) /\ c \in Names
      BY <1>4, <2>3, V3Statements DEF Names
    <3>2. /\ Sound(e, o) /\ ColumnsOrValues(e) /\ Waiting(e, c)
          /\ c = "first_name" => \A n \in Names : e.value[n] = Null
      <4>1. ~Refused(d, Stmt("rename", c)) /\ e = Executed(d, Stmt("rename", c))
        BY <3>1
      <4> HIDE DEF c, e
      <4> QED
        BY <2>2, <3>1, <4>1, RenameTexts
    <3> HIDE DEF e
    <3> QED
      BY <1>4, <2>3, <3>2 DEF Stage, e
  <2>4. CASE p \in {2, 7, 12}
    <3> DEFINE c == IF p = 2 THEN "first_name" ELSE IF p = 7 THEN "last_name" ELSE "avatar"
    <3>1. Script[v][p] = Stmt("add", c) /\ c \in Names
      BY <1>4, <2>4, V3Statements DEF Names
    <3>2. Waiting(d, c)
      BY <1>4, <2>4 DEF Stage
    <3>3. c = "first_name" => \A n \in Names : d.value[n] = Null
      BY <1>4, <2>4 DEF Stage
    <3>4. Sound(e, o) /\ ColumnsOrValues(e) /\ Waiting(e, c) /\ c \in e.objects
      BY <2>2, <3>1, <3>2, <3>3, AddTexts
    <3> HIDE DEF e
    <3> QED
      BY <1>4, <2>4, <3>4 DEF Stage, e
  <2>5. CASE p \in {3, 8, 13}
    <3> DEFINE c == IF p = 3 THEN "first_name" ELSE IF p = 8 THEN "last_name" ELSE "avatar"
    <3>1. Script[v][p] = Stmt("copy", c) /\ c \in Names
      BY <1>4, <2>5, V3Statements DEF Names
    <3>2. Waiting(d, c) /\ c \in d.objects
      BY <1>4, <2>5 DEF Stage
    <3>3. Sound(e, o) /\ ColumnsOrValues(e) /\ Copied(e, c)
      BY <2>2, <3>1, <3>2, CopyTexts
    <3> HIDE DEF e
    <3> QED
      BY <1>4, <2>5, <3>3 DEF Stage, e
  <2>6. CASE p \in {4, 9}
    <3> DEFINE c == IF p = 4 THEN "first_name" ELSE "last_name"
    <3>1. Script[v][p] = Stmt("empty_to_null", c) /\ c \in Names
      BY <1>4, <2>6, V3Statements DEF Names
    <3>2. Copied(d, c)
      BY <1>4, <2>6 DEF Stage
    <3>3. Sound(e, o) /\ ColumnsOrValues(e) /\ Copied(e, c)
      BY <2>2, <3>1, <3>2, EmptyTexts
    <3> HIDE DEF e
    <3> QED
      BY <1>4, <2>6, <3>3 DEF Stage, e
  <2>7. CASE p \in {5, 10, 14}
    <3> DEFINE c == IF p = 5 THEN "first_name" ELSE IF p = 10 THEN "last_name" ELSE "avatar"
    <3>1. Script[v][p] = Stmt("drop", TempName) /\ c \in Names
      BY <1>4, <2>7, V3Statements DEF Names
    <3>2. Copied(d, c)
      BY <1>4, <2>7 DEF Stage
    <3>3. Sound(e, o) /\ ColumnsOrValues(e)
      BY <2>2, <3>1, <3>2, DropTempTexts
    <3> HIDE DEF e
    <3> QED
      BY <1>4, <2>7, <3>3 DEF Stage, e
  <2> QED
    BY <2>1, <2>3, <2>4, <2>5, <2>6, <2>7
<1>5. CASE v = 5 /\ p \in 6 .. 9
  <2>1. p \in {6, 7, 8, 9} /\ {"first_name", "last_name", "avatar"} \subseteq Names
    BY <1>5 DEF Names
  <2>2. CASE p = 6
    <3>1. Script[v][p] = Stmt("move", "users")
      BY <1>5, <2>2, V5Statements
    <3>2. ColumnsOrValues(d)
      BY <1>5, <2>2 DEF Stage
    <3>3. /\ Sound(e, o)
          /\ \A c \in {"first_name", "last_name", "avatar"} : e.value[c] = e.cell[c]
      BY <3>1, <3>2, MoveTexts
    <3> HIDE DEF e
    <3> QED
      BY <1>5, <2>2, <3>3 DEF Stage, e
  <2>3. CASE p = 7
    <3>0. "first_name" \in Names /\ Script[v][p] = Stmt("drop", "first_name")
      BY <1>5, <2>1, <2>3, V5Statements
    <3>1. d.value["first_name"] = d.cell["first_name"]
      BY <1>5, <2>3 DEF Stage
    <3>2. /\ Sound(e, o) /\ e.value = d.value /\ "first_name" \notin e.objects
          /\ \A n \in Names \ {"first_name"} : e.cell[n] = d.cell[n]
      <4>1. e = Executed(d, Stmt("drop", "first_name"))
        BY <3>0
      <4> HIDE DEF e
      <4> QED
        BY <3>0, <3>1, <4>1, DropColumnTexts
    <3>3. d.value["last_name"] = d.cell["last_name"] /\ d.value["avatar"] = d.cell["avatar"]
      BY <1>5, <2>3 DEF Stage
    <3> HIDE DEF e
    <3>4. e.cell["last_name"] = d.cell["last_name"] /\ e.cell["avatar"] = d.cell["avatar"]
      BY <3>2 DEF Names
    <3>5. ColumnsOrValues(e)
      BY <3>2 DEF ColumnsOrValues
    <3> QED
      BY <1>5, <2>3, <3>2, <3>3, <3>4, <3>5 DEF Stage, e
  <2>4. CASE p = 8
    <3>0. "last_name" \in Names /\ Script[v][p] = Stmt("drop", "last_name")
      BY <1>5, <2>1, <2>4, V5Statements
    <3>1. d.value["last_name"] = d.cell["last_name"]
      BY <1>5, <2>4 DEF Stage
    <3>2. /\ Sound(e, o) /\ e.value = d.value /\ e.objects \subseteq d.objects
          /\ \A n \in Names \ {"last_name"} : e.cell[n] = d.cell[n]
      <4>1. e = Executed(d, Stmt("drop", "last_name"))
        BY <3>0
      <4> HIDE DEF e
      <4> QED
        BY <3>0, <3>1, <4>1, DropColumnTexts
    <3>3. ColumnsOrValues(d) /\ d.value["avatar"] = d.cell["avatar"]
      BY <1>5, <2>4 DEF Stage
    <3> HIDE DEF e
    <3>4. e.cell["avatar"] = d.cell["avatar"]
      BY <3>2 DEF Names
    <3>5. ColumnsOrValues(e)
      BY <3>2, <3>3 DEF ColumnsOrValues
    <3> QED
      BY <1>5, <2>4, <3>2, <3>3, <3>4, <3>5 DEF Stage, e
  <2>5. CASE p = 9
    <3>0. "avatar" \in Names /\ Script[v][p] = Stmt("drop", "avatar")
      BY <1>5, <2>1, <2>5, V5Statements
    <3>1. d.value["avatar"] = d.cell["avatar"]
      BY <1>5, <2>5 DEF Stage
    <3>2. Sound(e, o) /\ e.value = d.value /\ e.objects \subseteq d.objects
      BY <3>0, <3>1, DropColumnTexts
    <3>3. ColumnsOrValues(d)
      BY <1>5, <2>5 DEF Stage
    <3> HIDE DEF e
    <3>5. ColumnsOrValues(e)
      BY <3>2, <3>3 DEF ColumnsOrValues
    <3> QED
      BY <1>5, <2>5, <3>2, <3>5 DEF Stage, e
  <2> QED
    BY <2>1, <2>2, <2>3, <2>4, <2>5
<1> HIDE DEF e
<1>6. CASE v = 1 /\ p \in {5, 7} /\ Script[v][p].op = "fill"
  BY <1>6
<1> QED
  BY <1>1, <1>2, <1>3, <1>4, <1>5, <1>6, StatementKinds DEF e

-----------------------------------------------------------------------------
(* What a statement of a script does to everything but the texts.           *)

WellFormed(s) ==
    \/ \E op \in Creates, x \in Object : s = Stmt(op, x)
    \/ \E op \in {"rename", "copy", "empty_to_null"}, c \in Names : s = Stmt(op, c)
    \/ \E c \in Names \cup {TempName} : s = Stmt("drop", c)
    \/ s = Stmt("move", "users")
    \/ \E op \in {"lower", "deduplicate", "try_rename_group"},
          x \in LowerCase \cup {"memberships", "lldap_readonly"} :
          s = Stmt(op, x) /\ (op = "lower" => x \in LowerCase)
    \/ s.op = "fill"

LEMMA ScriptsWellFormed ==
  ASSUME NEW v \in 1 .. LastVersion, NEW p \in 1 .. Len(Script[v])
  PROVE  WellFormed(Script[v][p])
<1>1. CASE Creating(Script[v][p])
  <2>1. \E op \in Creates, x \in Object : Script[v][p] = Stmt(op, x)
    BY <1>1 DEF Creating
  <2> QED
    BY <2>1 DEF WellFormed
<1>2. CASE Script[v][p].op = "fill"
  BY <1>2 DEF WellFormed
<1>3. CASE v = 2
  <2>1. p \in {1, 2, 3, 4, 5}
    BY <1>3, V2Statements
  <2>2. CASE p = 2
    <3>1. Script[v][p] = Stmt("add", "display_name") /\ "display_name" \in Object /\ "add" \in Creates
      BY <1>3, <2>2, V2Statements DEF Object, Creates
    <3> QED
      BY <3>1 DEF WellFormed
  <2>3. CASE p \in {1, 3, 4}
    <3>1. \E op \in {"rename", "copy", "empty_to_null"} : Script[v][p] = Stmt(op, "display_name")
      BY <1>3, <2>3, V2Statements
    <3> QED
      BY <3>1 DEF WellFormed, Names
  <2>4. CASE p = 5
    <3>1. Script[v][p] = Stmt("drop", TempName)
      BY <1>3, <2>4, V2Statements
    <3> QED
      BY <3>1 DEF WellFormed
  <2> QED
    BY <2>1, <2>2, <2>3, <2>4
<1>4. CASE v = 3
  <2>1. p \in {1, 2, 3, 4, 5, 6, 7, 8, 9, 10, 11, 12, 13, 14}
    BY <1>4, V3Statements
  <2>2. CASE p \in {2, 7, 12}
    <3>1. /\ \E x \in {"first_name", "last_name", "avatar"} : Script[v][p] = Stmt("add", x)
          /\ {"first_name", "last_name", "avatar"} \subseteq Object /\ "add" \in Creates
      BY <1>4, <2>2, V3Statements DEF Object, Creates
    <3> QED
      BY <3>1 DEF WellFormed
  <2>3. CASE p \in {1, 3, 4, 6, 8, 9, 11, 13}
    <3>1. \E op \in {"rename", "copy", "empty_to_null"}, c \in {"first_name", "last_name", "avatar"} :
             Script[v][p] = Stmt(op, c)
      BY <1>4, <2>3, V3Statements
    <3>2. {"first_name", "last_name", "avatar"} \subseteq Names
      BY DEF Names
    <3> QED
      BY <3>1, <3>2 DEF WellFormed
  <2>4. CASE p \in {5, 10, 14}
    <3>1. Script[v][p] = Stmt("drop", TempName)
      BY <1>4, <2>4, V3Statements
    <3> QED
      BY <3>1 DEF WellFormed
  <2> QED
    BY <2>1, <2>2, <2>3, <2>4
<1>5. CASE v = 5 /\ p \in 6 .. 9
  <2>1. p = 6 \/ p \in {7, 8, 9}
    BY <1>5
  <2>2. CASE p = 6
    <3>1. Script[v][p] = Stmt("move", "users")
      BY <1>5, <2>2, V5Statements
    <3> QED
      BY <3>1 DEF WellFormed
  <2>3. CASE p \in {7, 8, 9}
    <3>1. \E c \in {"first_name", "last_name", "avatar"} : Script[v][p] = Stmt("drop", c)
      BY <1>5, <2>3, V5Statements
    <3>2. {"first_name", "last_name", "avatar"} \subseteq Names
      BY DEF Names
    <3> QED
      BY <3>1, <3>2 DEF WellFormed
  <2> QED
    BY <2>1, <2>2, <2>3
<1>6. CASE \E op \in {"lower", "deduplicate", "try_rename_group"},
              x \in LowerCase \cup {"memberships", "lldap_readonly"} :
                    /\ Script[v][p] = Stmt(op, x)
                    /\ op = "lower" => x \in LowerCase
  BY <1>6 DEF WellFormed
<1> QED
  BY <1>1, <1>2, <1>3, <1>4, <1>5, <1>6, StatementKinds

NewObjects(d, s) ==
    IF s.op \in Creates THEN ObjectsAfter(d, s.op, s.on)
    ELSE IF s.op = "rename" THEN (d.objects \ {s.on}) \cup {TempName}
    ELSE IF s.op = "drop" THEN d.objects \ {s.on}
    ELSE d.objects
NewBlank(d, s) == IF s.op \in Creates THEN BlankAfter(d, s.op, s.on) ELSE d.blank

LEMMA Effect ==
  ASSUME NEW d \in Database, NEW s, WellFormed(s), s.op # "fill"
  PROVE  LET e == Executed(d, s)
         IN  /\ e \in Database /\ SameRest(e, d)
             /\ e.objects = NewObjects(d, s) /\ e.blank = NewBlank(d, s)
             /\ d.lowered \subseteq e.lowered
             /\ s.op = "lower" => s.on \in e.lowered
             /\ e.readonly => d.readonly /\ s.op # "try_rename_group"
<1> DEFINE e == Executed(d, s)
           Goal == /\ e \in Database /\ SameRest(e, d)
                   /\ e.objects = NewObjects(d, s) /\ e.blank = NewBlank(d, s)
                   /\ d.lowered \subseteq e.lowered
                   /\ s.op = "lower" => s.on \in e.lowered
                   /\ e.readonly => d.readonly /\ s.op # "try_rename_group"
<1> SUFFICES Goal
  OBVIOUS
<1>1. CASE \E op \in Creates, x \in Object : s = Stmt(op, x)
  <2>1. PICK op \in Creates, x \in Object : s = Stmt(op, x)
    BY <1>1
  <2>2. s.op = op /\ s.on = x /\ op \in {"ensure", "create", "insert", "index", "add", "try_add"}
    BY <2>1 DEF Stmt, Creates
  <2>3. e = Executed(d, Stmt(op, x))
    BY <2>1
  <2> HIDE DEF e
  <2>4. /\ e \in Database /\ SameRest(e, d) /\ e.lowered = d.lowered
        /\ e.readonly <=> d.readonly
        /\ e.objects = ObjectsAfter(d, op, x) /\ e.blank = BlankAfter(d, op, x)
    <3>1. e \in Database /\ SameRest(e, d)
      BY <2>2, <2>3, ObjectStatement
    <3>4. SameMarks(e, d)
      BY <2>2, <2>3, ObjectStatement
    <3>2. e.objects = ObjectsAfter(d, op, x) /\ e.blank = BlankAfter(d, op, x)
      BY <2>2, <2>3, ObjectStatement
    <3>3. e.readonly <=> d.readonly
      BY <2>2, <2>3, ObjectStatement
    <3> QED
      BY <3>1, <3>2, <3>3, <3>4 DEF SameMarks
  <2>5. e.objects = NewObjects(d, s) /\ e.blank = NewBlank(d, s)
    BY <2>2, <2>4 DEF NewObjects, NewBlank, Creates
  <2> QED
    BY <2>2, <2>4, <2>5
<1>2. CASE \E c \in Names : s = Stmt("rename", c)
  <2>1. PICK c \in Names : s = Stmt("rename", c)
    BY <1>2
  <2>2. s.op = "rename" /\ s.on = c
    BY <2>1 DEF Stmt
  <2>3. /\ e \in Database /\ SameRest(e, d) /\ e.lowered = d.lowered
        /\ e.readonly <=> d.readonly
        /\ e.objects = (d.objects \ {c}) \cup {TempName} /\ e.blank = d.blank
    BY <2>1, RenameStatement
  <2> HIDE DEF e
  <2>4. e.objects = NewObjects(d, s) /\ e.blank = NewBlank(d, s)
    BY <2>2, <2>3 DEF NewObjects, NewBlank, Creates
  <2> QED
    BY <2>2, <2>3, <2>4
<1>3. CASE \E op \in {"copy", "empty_to_null"}, c \in Names : s = Stmt(op, c)
  <2>1. PICK op \in {"copy", "empty_to_null"}, c \in Names : s = Stmt(op, c)
    BY <1>3
  <2>2. s.op = op
    BY <2>1 DEF Stmt
  <2>3. e \in Database /\ SameRest(e, d) /\ SameTables(e, d)
    BY <2>1, CellStatement
  <2> HIDE DEF e
  <2>4. e.objects = NewObjects(d, s) /\ e.blank = NewBlank(d, s)
    BY <2>2, <2>3 DEF NewObjects, NewBlank, Creates, SameTables
  <2> QED
    BY <2>2, <2>3, <2>4 DEF SameTables
<1>4. CASE \E c \in Names \cup {TempName} : s = Stmt("drop", c)
  <2>1. PICK c \in Names \cup {TempName} : s = Stmt("drop", c)
    BY <1>4
  <2>2. s.op = "drop" /\ s.on = c
    BY <2>1 DEF Stmt
  <2>3. /\ e \in Database /\ SameRest(e, d) /\ e.lowered = d.lowered
        /\ e.readonly <=> d.readonly
        /\ e.objects = d.objects \ {c} /\ e.blank = d.blank
    BY <2>1, DropStatement
  <2> HIDE DEF e
  <2>4. e.objects = NewObjects(d, s) /\ e.blank = NewBlank(d, s)
    BY <2>2, <2>3 DEF NewObjects, NewBlank, Creates
  <2> QED
    BY <2>2, <2>3, <2>4
<1>5. CASE s = Stmt("move", "users")
  <2>1. s.op = "move"
    BY <1>5 DEF Stmt
  <2>2. e \in Database /\ SameRest(e, d) /\ SameTables(e, d)
    BY <1>5, MoveStatement
  <2> HIDE DEF e
  <2>3. e.objects = NewObjects(d, s) /\ e.blank = NewBlank(d, s)
    BY <2>1, <2>2 DEF NewObjects, NewBlank, Creates, SameTables
  <2> QED
    BY <2>1, <2>2, <2>3 DEF SameTables
<1>6. CASE \E op \in {"lower", "deduplicate", "try_rename_group"},
              x \in LowerCase \cup {"memberships", "lldap_readonly"} :
              s = Stmt(op, x) /\ (op = "lower" => x \in LowerCase)
  <2>1. PICK op \in {"lower", "deduplicate", "try_rename_group"},
             x \in LowerCase \cup {"memberships", "lldap_readonly"} :
             s = Stmt(op, x) /\ (op = "lower" => x \in LowerCase)
    BY <1>6
  <2>2. s.op = op /\ s.on = x
    BY <2>1 DEF Stmt
  <2>3. e = Executed(d, Stmt(op, x))
    BY <2>1
  <2> HIDE DEF e
  <2>4. /\ e \in Database /\ SameRest(e, d) /\ e.objects = d.objects /\ e.blank = d.blank
    BY <2>1, <2>3, OtherStatement
  <2>6. d.lowered \subseteq e.lowered /\ (op = "lower" => x \in e.lowered)
    BY <2>1, <2>3, OtherStatement
  <2>7. e.readonly <=> d.readonly /\ op # "try_rename_group"
    BY <2>1, <2>3, OtherStatement
  <2>5. e.objects = NewObjects(d, s) /\ e.blank = NewBlank(d, s)
    BY <2>2, <2>4 DEF NewObjects, NewBlank, Creates
  <2> QED
    BY <2>2, <2>4, <2>5, <2>6, <2>7
<1> HIDE DEF e
<1>7. CASE \E op \in {"rename", "copy", "empty_to_null"}, c \in Names : s = Stmt(op, c)
  BY <1>2, <1>3, <1>7
<1> QED
  BY <1>1, <1>4, <1>5, <1>6, <1>7 DEF WellFormed

-----------------------------------------------------------------------------
(* The type invariant.                                                      *)

LEMMA NewObjectsTyped ==
  ASSUME NEW k \in 1 .. LastVersion
  PROVE  NewIn[k] \in SUBSET (Object \ {TempName})
<1>1. k \in {1, 2, 3, 4, 5, 6, 7, 8, 9, 10}
  BY DEF LastVersion
<1>2. CASE k = 1
  BY <1>2 DEF NewIn, Object, Names, TempName, Indexes
<1>3. CASE k = 2
  BY <1>3 DEF NewIn, Object, Names, TempName, Indexes
<1>4. CASE k = 3
  BY <1>4 DEF NewIn, Object, Names, TempName, Indexes
<1>5. CASE k = 4
  BY <1>5 DEF NewIn, Object, Names, TempName, Indexes
<1>6. CASE k = 5
  BY <1>6 DEF NewIn, Object, Names, TempName, Indexes
<1>7. CASE k = 6
  BY <1>7 DEF NewIn, Object, Names, TempName, Indexes
<1>8. CASE k = 7
  BY <1>8 DEF NewIn, Object, Names, TempName, Indexes
<1>9. CASE k = 8
  BY <1>9 DEF NewIn, Object, Names, TempName, Indexes
<1>10. CASE k = 9
  BY <1>10 DEF NewIn, Object, Names, TempName, Indexes
<1>11. CASE k = 10
  BY <1>11 DEF NewIn, Object, Names, TempName, Indexes
<1> QED
  BY <1>1, <1>2, <1>3, <1>4, <1>5, <1>6, <1>7, <1>8, <1>9, <1>10, <1>11

LEMMA ObjectsTyped ==
  ASSUME NEW v \in Nat
  PROVE  ObjectsAt(v) \in SUBSET (Object \ {TempName})
<1>1. \A k \in 1 .. LastVersion : NewIn[k] \in SUBSET (Object \ {TempName})
  BY NewObjectsTyped
<1> QED
  BY <1>1 DEF ObjectsAt

LEMMA SingletonSeq ==
  ASSUME NEW S, NEW x \in S
  PROVE  <<x>> \in Seq(S) /\ <<>> \in Seq(S)
  OBVIOUS

LEMMA FreshTyped == Fresh \in Database
  BY DEF Fresh, Database, Cells, Names, TempName, Null, Rows, LowerCase

LEMMA FilledTyped ==
  ASSUME NEW v \in OldVersions, NEW objects \in SUBSET (Object \ {TempName}),
         NEW n \in [Names -> Cells], NEW x \in SUBSET Conflicts, NEW ro \in BOOLEAN
  PROVE  Filled(v, objects, n, x, ro) \in Database
<1> DEFINE m == IF v = 0 THEN <<>> ELSE <<v>>
           C == [c \in Names \cup {TempName} |-> IF c \in objects THEN n[c] ELSE Null]
           V == [c \in Names |-> IF c \in objects THEN Null ELSE n[c]]
           l == IF v >= 6 THEN LowerCase ELSE {}
<1>1. m \in Seq(1 .. LastVersion + 1)
  <2>1. v \in 0 .. LastVersion + 1
    BY MigrationsAssumption
  <2>2. CASE v = 0
    BY <2>2
  <2>3. CASE v # 0
    <3>1. v \in 1 .. LastVersion + 1
      BY <2>1, <2>3 DEF LastVersion
    <3> QED
      BY <2>3, <3>1, SingletonSeq
  <2> QED
    BY <2>2, <2>3
<1>2. C \in [Names \cup {TempName} -> Cells] /\ V \in [Names -> Cells]
  BY DEF Cells
<1>3. l \in SUBSET LowerCase
  OBVIOUS
<1>4. Filled(v, objects, n, x, ro) =
        [objects |-> objects, meta |-> m, rows |-> Users \cup Groups, blank |-> {}, cell |-> C,
         value |-> V, conflicts |-> x, lowered |-> l, readonly |-> ro]
  BY DEF Filled
<1> HIDE DEF m, C, V, l
<1> QED
  BY <1>1, <1>2, <1>3, <1>4 DEF Database, Rows

\* The objects of a database that an older server left.
OldObjects(v, late) ==
    IF v = 0 THEN {"users", "groups", "memberships"} \cup Names \cup late ELSE ObjectsAt(v)

LEMMA OldObjectsTyped ==
  ASSUME NEW v \in OldVersions, NEW late \in SUBSET LateColumns
  PROVE  OldObjects(v, late) \in SUBSET (Object \ {TempName})
<1>1. v \in Nat
  BY MigrationsAssumption DEF LastVersion
<1>2. {"users", "groups", "memberships"} \cup Names \cup late \in SUBSET (Object \ {TempName})
  BY DEF LateColumns, Object, Names, TempName
<1> QED
  BY <1>1, <1>2, ObjectsTyped DEF OldObjects

\* Where the servers before left the database.
LEMMA InitialDisk ==
  ASSUME Init
  PROVE  \/ disk = Fresh /\ origin = [c \in Names |-> Null]
         \/ \E v \in OldVersions, x \in SUBSET Conflicts, late \in SUBSET LateColumns,
               ro \in BOOLEAN :
               /\ origin \in [Names -> Cells]
               /\ \A c \in Names : origin[c] \in CellsAt(v, c)
               /\ v > 0 => ~ro
               /\ disk = Filled(v, OldObjects(v, late), origin, x, ro)
  BY DEF Init, OldObjects

LEMMA TypesInit == Init => Types
<1> SUFFICES ASSUME Init PROVE Types
  OBVIOUS
<1>1. disk \in Database /\ origin \in [Names -> Cells]
  <2>1. CASE disk = Fresh /\ origin = [c \in Names |-> Null]
    BY <2>1, FreshTyped DEF Cells
  <2>2. ASSUME NEW v \in OldVersions, NEW x \in SUBSET Conflicts, NEW late \in SUBSET LateColumns,
               NEW ro \in BOOLEAN, origin \in [Names -> Cells],
               disk = Filled(v, OldObjects(v, late), origin, x, ro)
        PROVE  disk \in Database
    BY <2>2, FilledTyped, OldObjectsTyped
  <2> QED
    BY <2>1, <2>2, InitialDisk
<1>2. <<1, 1>> \in (1 .. LastVersion) \X (1 .. 15)
  BY DEF LastVersion
<1> QED
  BY <1>1, <1>2 DEF Init, Types

\* The next statement.
LEMMA StatementFacts ==
  ASSUME Types, HasStatement
  PROVE  /\ at[1] \in 1 .. LastVersion /\ at[2] \in 1 .. Len(Script[at[1]])
         /\ at = <<at[1], at[2]>> /\ WellFormed(Statement)
         /\ Len(Script[at[1]]) \in 2 .. 14
<1>1. at[1] \in 1 .. LastVersion /\ at[2] \in 1 .. 15 /\ at = <<at[1], at[2]>>
  BY DEF Types
<1>2. Len(Script[at[1]]) \in 2 .. 14
  BY <1>1, ScriptLengths
<1>3. at[2] \in 1 .. Len(Script[at[1]])
  BY <1>1, <1>2 DEF HasStatement
<1> QED
  BY <1>1, <1>2, <1>3, ScriptsWellFormed DEF Statement

\* The places a running process can be at.
LEMMA PlaceTyped ==
  ASSUME NEW v \in 1 .. LastVersion, NEW q \in 1 .. Len(Script[v]) + 1
  PROVE  /\ <<v, q>> \in (1 .. LastVersion) \X (1 .. 15)
         /\ <<v, q>>[1] = v /\ <<v, q>>[2] = q
<1>1. Len(Script[v]) \in 2 .. 14
  BY ScriptLengths
<1>2. q \in 1 .. 15
  <2> DEFINE L == Len(Script[v])
  <2>1. L \in 2 .. 14 /\ q \in 1 .. L + 1
    BY <1>1
  <2> HIDE DEF L
  <2> QED
    BY <2>1
<1> QED
  BY <1>2

LEMMA FirstPlace ==
  ASSUME NEW v \in 1 .. LastVersion
  PROVE  /\ <<v, 1>> \in (1 .. LastVersion) \X (1 .. 15)
         /\ <<v, 1>>[1] = v /\ <<v, 1>>[2] = 1 /\ 1 <= Len(Script[v]) + 1
<1>1. Len(Script[v]) \in 2 .. 14
  BY ScriptLengths
<1> QED
  BY <1>1

LEMMA ElementOfSeq ==
  ASSUME NEW S, NEW s \in Seq(S), NEW i \in DOMAIN s
  PROVE  s[i] \in S
  OBVIOUS

LEMMA ConstantSeq ==
  ASSUME NEW S, NEW s \in Seq(S), NEW x \in S
  PROVE  [i \in DOMAIN s |-> x] \in Seq(S)
<1>1. DOMAIN s = 1 .. Len(s) /\ Len(s) \in Nat
  OBVIOUS
<1> QED
  BY <1>1

LEMMA RangeTyped ==
  ASSUME NEW d \in Database, NEW v \in Range(d.meta)
  PROVE  v \in 1 .. LastVersion + 1
<1>1. d.meta \in Seq(1 .. LastVersion + 1)
  BY DEF Database
<1>2. PICK i \in DOMAIN d.meta : v = d.meta[i]
  BY DEF Range
<1> DEFINE m == d.meta
           S == 1 .. LastVersion + 1
<1>3. m \in Seq(S) /\ i \in DOMAIN m /\ v = m[i]
  BY <1>1, <1>2
<1> HIDE DEF m, S
<1>4. v \in S
  BY <1>3, ElementOfSeq
<1> QED
  BY <1>4 DEF S

LEMMA V5Operations ==
  /\ Script[5][1].op = "create" /\ Script[5][2].op = "create"
  /\ Script[5][3].op = "create" /\ Script[5][4].op = "create"
  /\ Script[5][5].op = "insert" /\ Script[5][6].op = "move" /\ Script[5][7].op = "drop"
  /\ Script[5][8].op = "drop" /\ Script[5][9].op = "drop"
  BY V5Statements DEF Stmt

\* After the next statement, and after the ones that SkipTo leaves out.
LEMMA SkipFacts ==
  ASSUME Types, HasStatement, Statement.op \in {"try_add", "try_rename_group"}
  PROVE  /\ at[1] = 1 /\ SkipTo \in 1 .. Len(Script[1]) + 1
         /\ SkipTo > at[2]
<1>1. /\ at[1] \in 1 .. LastVersion /\ at[2] \in 1 .. Len(Script[at[1]])
  BY StatementFacts
<1>2. at[1] = 1
  <2>1. at[1] \in {1, 2, 3, 4, 5, 6, 7, 8, 9, 10}
    BY <1>1, ScriptLengths
  <2>2. at[1] # 2
    <3> SUFFICES ASSUME at[1] = 2 PROVE FALSE
      OBVIOUS
    <3>1. at[2] \in {1, 2, 3, 4, 5}
      BY <1>1, V2Statements
    <3> QED
      BY <3>1, V2Statements DEF Statement, Stmt
  <2>3. at[1] # 3
    <3> SUFFICES ASSUME at[1] = 3 PROVE FALSE
      OBVIOUS
    <3>1. at[2] \in {1, 2, 3, 4, 5, 6, 7, 8, 9, 10, 11, 12, 13, 14}
      BY <1>1, V3Statements
    <3> QED
      BY <3>1, V3Statements DEF Statement, Stmt
  <2>4. at[1] # 4
    BY <1>1, V4Statements DEF Statement, Stmt
  <2>5. at[1] # 5
    <3> SUFFICES ASSUME at[1] = 5 PROVE FALSE
      OBVIOUS
    <3>1. Len(Script[5]) = 9
      BY V5Statements
    <3>2. at[2] \in {1, 2, 3, 4, 5, 6, 7, 8, 9}
      BY <1>1, <3>1
    <3> QED
      BY <3>2, V5Operations DEF Statement
  <2>6. at[1] # 6
    BY <1>1, V6Statements DEF Statement, Stmt
  <2>7. at[1] \notin {7, 8, 9, 10}
    BY <1>1, LateStatements DEF Statement, Stmt
  <2> QED
    BY <2>1, <2>2, <2>3, <2>4, <2>5, <2>6, <2>7
<1>3. at[2] \in 1 .. 10
  BY <1>1, <1>2, V1Statements
<1>4. at[2] = 10 => Statement.op = "ensure"
  BY <1>2, V1Statements DEF Statement, Stmt
<1>5. at[2] <= 9
  BY <1>3, <1>4
<1> QED
  BY <1>2, <1>3, <1>5, V1Statements DEF SkipTo

LEMMA TypesNext == Types /\ [Next]_vars => Types'
<1> SUFFICES ASSUME Types, [Next]_vars PROVE Types'
  OBVIOUS
<1>1. /\ backend \in Backends /\ disk \in Database /\ db \in Database
      /\ at \in (1 .. LastVersion) \X (1 .. 15) /\ kills \in Nat /\ errors \in Nat
      /\ torn \in BOOLEAN /\ origin \in [Names -> Cells]
      /\ pc # "running" => db = disk
  BY DEF Types
<1>2. 1 \in 1 .. LastVersion /\ 2 \in 1 .. LastVersion
  BY DEF LastVersion
\* A process that ends, and one that begins a migration.
<1>3. ASSUME Down, disk' = disk, backend' = backend, kills' \in Nat, errors' = errors,
             torn' \in BOOLEAN, origin' = origin
      PROVE  Types'
  BY <1>1, <1>2, <1>3, FirstPlace DEF Types, Down
<1>4. ASSUME NEW v \in 1 .. LastVersion, Migrate(v), db' = db, disk' = disk,
             v = 1 => db = disk,
             UNCHANGED <<backend, kills, history>>, errors' \in Nat
      PROVE  Types'
  <2>1. <<v, 1>>[1] = v /\ <<v, 1>> \in (1 .. LastVersion) \X (1 .. 15) /\ <<v, 1>>[2] = 1
        /\ 1 <= Len(Script[v]) + 1
    BY FirstPlace
  <2> QED
    BY <1>1, <1>4, <2>1 DEF Types, Migrate, history
<1>5. ASSUME HasStatement, pc' = "running", NEW q \in 1 .. Len(Script[at[1]]) + 1,
             at' = <<at[1], q>>, db' \in Database, disk' \in Database,
             at[1] = 1 => db' = disk',
             UNCHANGED <<backend, kills, history>>, errors' \in Nat
      PROVE  Types'
  <2>1. at[1] \in 1 .. LastVersion
    BY StatementFacts, <1>5
  <2>2. at' \in (1 .. LastVersion) \X (1 .. 15) /\ at'[1] = at[1] /\ at'[2] = q
    BY <1>5, <2>1, PlaceTyped
  <2>3. at'[2] <= Len(Script[at'[1]]) + 1
    <3> DEFINE L == Len(Script[at[1]])
    <3>1. q \in 1 .. L + 1 /\ L \in Nat
      BY <1>5, StatementFacts
    <3> HIDE DEF L
    <3>2. q <= L + 1
      BY <3>1
    <3> QED
      BY <2>2, <3>2 DEF L
  <2> QED
    BY <1>1, <1>5, <2>2, <2>3 DEF Types, history
<1>6. CASE StartFromVersion
  <2>1. PICK v \in Range(disk.meta) :
          \/ v < LastVersion /\ Migrate(v + 1)
          \/ v = LastVersion /\ pc' = "serving" /\ UNCHANGED at
          \/ v > LastVersion /\ UNCHANGED <<pc, at>>
    BY <1>6 DEF StartFromVersion
  <2>2. v \in 1 .. LastVersion + 1
    BY <1>1, RangeTyped
  <2>3. CASE v < LastVersion /\ Migrate(v + 1)
    <3>1. v + 1 \in 1 .. LastVersion /\ v + 1 # 1
      BY <2>2, <2>3 DEF LastVersion
    <3> QED
      BY <1>1, <1>4, <1>6, <2>3, <3>1 DEF StartFromVersion
  <2>4. CASE v = LastVersion /\ pc' = "serving" /\ UNCHANGED at
    BY <1>1, <1>6, <2>4 DEF StartFromVersion, history, Types
  <2>5. CASE v > LastVersion /\ UNCHANGED <<pc, at>>
    BY <1>6, <2>5 DEF StartFromVersion, history, Types
  <2> QED
    BY <2>1, <2>3, <2>4, <2>5
<1>7. CASE StartWithoutVersion
  BY <1>1, <1>2, <1>4, <1>7 DEF StartWithoutVersion
<1>8. CASE VersionUnread
  BY <1>1, <1>2, <1>4, <1>8 DEF VersionUnread
<1>9. CASE Execute
  <2> DEFINE e == Executed(db, Statement)
  <2>1. HasStatement /\ Statement.op # "fill" /\ Write(e, Statement)
    BY <1>9 DEF Execute
  <2>2. WellFormed(Statement) /\ at[2] \in 1 .. Len(Script[at[1]])
    BY <2>1, StatementFacts
  <2>3. e \in Database
    BY <1>1, <2>1, <2>2, Effect
  <2> HIDE DEF e
  <2>4. db' = e /\ disk' \in {disk, e} /\ (at[1] = 1 => disk' = e)
    BY <2>1 DEF Write
  <2>5. at[2] + 1 \in 1 .. Len(Script[at[1]]) + 1
    <3> DEFINE L == Len(Script[at[1]])
    <3>1. at[2] \in 1 .. L /\ L \in Nat
      BY <2>1, StatementFacts
    <3> HIDE DEF L
    <3>2. at[2] + 1 \in 1 .. L + 1
      BY <3>1
    <3> QED
      BY <3>2 DEF L
  <2>6. pc' = "running" /\ UNCHANGED <<backend, kills, history>> /\ errors' \in Nat
        /\ at' = <<at[1], at[2] + 1>>
    BY <1>1, <1>9 DEF Execute, HasStatement
  <2> QED
    BY <1>1, <1>5, <2>1, <2>3, <2>4, <2>5, <2>6
<1>10. ASSUME NEW r \in Users \cup Groups, FillUuid(r)
       PROVE  Types'
  <2> DEFINE e == [db EXCEPT !.blank = db.blank \ {r}]
  <2>1. HasStatement /\ Write(e, Statement)
    BY <1>10 DEF FillUuid
  <2>2. e \in Database
    BY <1>1 DEF Database
  <2> HIDE DEF e
  <2>3. db' = e /\ disk' \in {disk, e} /\ (at[1] = 1 => disk' = e)
    BY <2>1 DEF Write
  <2>4. UNCHANGED <<backend, pc, at, kills, errors, history>>
    BY <1>10 DEF FillUuid
  <2> QED
    BY <1>1, <2>1, <2>2, <2>3, <2>4 DEF Types, history, HasStatement
<1>11. CASE FillDone
  <2>1. HasStatement /\ at' = <<at[1], at[2] + 1>>
        /\ UNCHANGED <<backend, disk, db, pc, kills, errors, history>>
    BY <1>11 DEF FillDone
  <2>2. at[2] + 1 \in 1 .. Len(Script[at[1]]) + 1
    <3> DEFINE L == Len(Script[at[1]])
    <3>1. at[2] \in 1 .. L /\ L \in Nat
      BY <2>1, StatementFacts
    <3> HIDE DEF L
    <3>2. at[2] + 1 \in 1 .. L + 1
      BY <3>1
    <3> QED
      BY <3>2 DEF L
  <2>3. pc = "running" /\ (at[1] = 1 => db = disk)
    BY <2>1 DEF HasStatement, Types
  <2> QED
    BY <1>1, <1>5, <2>1, <2>2, <2>3
<1>12. CASE ColumnExists
  <2>1. /\ HasStatement /\ at' = <<at[1], SkipTo>> /\ Statement.op = "try_add"
        /\ UNCHANGED <<backend, disk, db, pc, kills, errors, history>>
    BY <1>12 DEF ColumnExists
  <2>2. SkipTo \in 1 .. Len(Script[at[1]]) + 1
    BY <2>1, SkipFacts
  <2>3. pc = "running" /\ (at[1] = 1 => db = disk)
    BY <2>1 DEF HasStatement, Types
  <2> QED
    BY <1>1, <1>5, <2>1, <2>2, <2>3
<1>13. CASE ErrorIgnored
  <2>1. /\ HasStatement /\ at' = <<at[1], SkipTo>>
        /\ Statement.op \in {"try_add", "try_rename_group"} /\ errors' \in Nat
        /\ UNCHANGED <<backend, disk, db, pc, kills, history>>
    BY <1>1, <1>13 DEF ErrorIgnored
  <2>2. SkipTo \in 1 .. Len(Script[at[1]]) + 1
    BY <2>1, SkipFacts
  <2>3. pc = "running" /\ (at[1] = 1 => db = disk)
    BY <2>1 DEF HasStatement, Types
  <2> QED
    BY <1>1, <1>5, <2>1, <2>2, <2>3
<1>14. CASE StatementRefused
  BY <1>1, <1>3, <1>14 DEF StatementRefused, history
<1>15. CASE Commit
  <2> DEFINE m == NewVersion(at[1])
             e == [db EXCEPT !.meta = m]
  <2>1. at[1] \in 1 .. LastVersion
    BY <1>1
  <2>2. m \in Seq(1 .. LastVersion + 1)
    <3>1. db.meta \in Seq(1 .. LastVersion + 1) /\ at[1] \in 1 .. LastVersion + 1
      BY <1>1, <2>1 DEF Database, LastVersion
    <3>2. CASE at[1] = 1
      BY <3>1, <3>2 DEF NewVersion
    <3>3. CASE at[1] # 1
      BY <3>1, <3>3, ConstantSeq DEF NewVersion
    <3> QED
      BY <3>2, <3>3
  <2>3. db' = e /\ disk' = e
    BY <1>15 DEF Commit
  <2> HIDE DEF m
  <2>4. e \in Database
    BY <1>1, <2>2 DEF Database
  <2> HIDE DEF e
  <2>5. /\ \/ pc' = "asserting" /\ UNCHANGED at
           \/ at[1] \in 2 .. LastVersion - 1 /\ Migrate(at[1] + 1)
           \/ pc' = "serving" /\ at' = <<1, 1>>
        /\ UNCHANGED <<backend, kills, errors, history>>
    BY <1>15 DEF Commit
  <2>6. CASE pc' = "asserting" /\ UNCHANGED at
    BY <1>1, <2>3, <2>4, <2>5, <2>6 DEF Types, history
  <2>7. CASE pc' = "serving" /\ at' = <<1, 1>>
    BY <1>1, <1>2, <2>3, <2>4, <2>5, <2>7, FirstPlace DEF Types, history
  <2>8. CASE at[1] \in 2 .. LastVersion - 1 /\ Migrate(at[1] + 1)
    <3> DEFINE v == at[1] + 1
    <3>1. v \in 1 .. LastVersion
      BY <2>8 DEF LastVersion
    <3>2. pc' = "running" /\ at' = <<v, 1>>
      BY <2>8 DEF Migrate
    <3> HIDE DEF v
    <3> QED
      BY <1>1, <2>3, <2>4, <2>5, <3>1, <3>2, FirstPlace DEF Types, history
  <2> QED
    BY <2>5, <2>6, <2>7, <2>8
<1>16. CASE AssertVersion
  <2>1. /\ pc = "asserting" /\ UNCHANGED <<backend, disk, kills, errors, history>>
        /\ (Migrate(2) /\ db' = db) \/ Down
    BY <1>16 DEF AssertVersion
  <2>2. CASE Migrate(2) /\ db' = db
    BY <1>1, <1>2, <1>4, <2>1, <2>2
  <2>3. CASE Down
    BY <1>1, <1>3, <2>1, <2>3 DEF history
  <2> QED
    BY <2>1, <2>2, <2>3
<1>17. CASE Kill
  <2>1. torn' \in BOOLEAN
    BY <1>17 DEF Kill
  <2> QED
    BY <1>1, <1>3, <1>17, <2>1 DEF Kill
<1>18. CASE Stop
  BY <1>1, <1>3, <1>18 DEF Stop, history
<1>19. ASSUME NEW x \in Conflicts, RemoveConflict(x)
       PROVE  Types'
  <2> DEFINE K == disk.conflicts \ (IF x = "unique-user-lower-email"
                                    THEN {x, "unique-user-email"} ELSE {x})
             e == [disk EXCEPT !.conflicts = K]
  <2>1. disk' = e /\ db' = e /\ pc = "down"
        /\ UNCHANGED <<backend, pc, at, kills, errors, history>>
    BY <1>19 DEF RemoveConflict
  <2>2. K \in SUBSET Conflicts
    BY <1>1 DEF Database
  <2> HIDE DEF K
  <2>3. e \in Database
    BY <1>1, <2>2 DEF Database
  <2> HIDE DEF e
  <2> QED
    BY <1>1, <2>1, <2>3 DEF Types, history
<1>20. CASE UNCHANGED vars
  BY <1>20 DEF vars, Types
<1> QED
  BY <1>6, <1>7, <1>8, <1>9, <1>10, <1>11, <1>12, <1>13, <1>14, <1>15, <1>16, <1>17, <1>18,
     <1>19, <1>20 DEF Next, Starting, Running

-----------------------------------------------------------------------------
(* Empty uuids.                                                             *)

LEMMA UuidStatements ==
  ASSUME NEW v \in 1 .. LastVersion, NEW p \in 1 .. Len(Script[v]),
         Script[v][p].op \in {"add", "try_add"}, Script[v][p].on \in {"users.uuid", "groups.uuid"}
  PROVE  v = 1 /\ p \in {4, 6}
<1>0. v \in {1, 2, 3, 4, 5, 6, 7, 8, 9, 10}
  BY ScriptLengths
<1>1. CASE v = 1
  <2>1. p \in {1, 2, 3, 4, 5, 6, 7, 8, 9, 10}
    BY <1>1, V1Statements
  <2>2. p \notin {1, 2, 3, 5, 7, 8, 9, 10}
    BY <1>1, V1Statements DEF Stmt
  <2> QED
    BY <1>1, <2>1, <2>2
<1>2. CASE v = 2
  <2>1. p \in {1, 2, 3, 4, 5}
    BY <1>2, V2Statements
  <2>2. Script[v][p].on \in {"display_name", "temp_name"}
    BY <1>2, <2>1, V2Statements DEF Stmt, TempName
  <2> QED
    BY <2>2
<1>3. CASE v = 3
  <2>1. p \in {1, 2, 3, 4, 5, 6, 7, 8, 9, 10, 11, 12, 13, 14}
    BY <1>3, V3Statements
  <2>2. Script[v][p].on \in {"first_name", "last_name", "avatar", "temp_name"}
    BY <1>3, <2>1, V3Statements DEF Stmt, TempName
  <2> QED
    BY <2>2
<1>4. CASE v = 4
  BY <1>4, V4Statements DEF Stmt
<1>5. CASE v = 5
  <2>0. Len(Script[5]) = 9
    BY V5Statements
  <2>1. p \in {1, 2, 3, 4, 5, 6, 7, 8, 9}
    BY <1>5, <2>0
  <2> QED
    BY <1>5, <2>1, V5Operations
<1>6. CASE v = 6
  BY <1>6, V6Statements DEF Stmt
<1>7. CASE v \in {7, 8, 9, 10}
  BY <1>7, LateStatements DEF Stmt
<1> QED
  BY <1>0, <1>1, <1>2, <1>3, <1>4, <1>5, <1>6, <1>7

\* A statement leaves uuids alone, except that the columns are added right before they
\* are filled in.
LEMMA BlankStep ==
  ASSUME NEW d \in Database, NEW v \in 1 .. LastVersion, NEW p \in 1 .. Len(Script[v])
  PROVE  \/ NewBlank(d, Script[v][p]) = d.blank
         \/ /\ v = 1 /\ p \in {4, 6} /\ Script[1][p + 1].op = "fill"
            /\ NewBlank(d, Script[v][p]) \subseteq
                  d.blank \cup RowsOf(TableOf(Script[1][p + 1].on))
<1> DEFINE s == Script[v][p]
<1>1. CASE v = 1 /\ p \in {4, 6}
  <2>1. Script[1][p + 1].op = "fill" /\ Script[1][p + 1].on = s.on
    BY <1>1, V1Statements DEF Stmt
  <2> HIDE DEF s
  <2>2. NewBlank(d, s) \subseteq d.blank \cup RowsOf(TableOf(s.on))
    BY DEF NewBlank, BlankAfter
  <2> QED
    BY <1>1, <2>1, <2>2 DEF s
<1>2. CASE ~(v = 1 /\ p \in {4, 6})
  <2>1. ~(s.op \in {"add", "try_add"} /\ s.on \in {"users.uuid", "groups.uuid"})
    BY <1>2, UuidStatements
  <2> HIDE DEF s
  <2>2. NewBlank(d, s) = d.blank
    BY <2>1 DEF NewBlank, BlankAfter
  <2> QED
    BY <2>2 DEF s
<1> QED
  BY <1>1, <1>2

\* Uuids are filled in at two places.
LEMMA FillStatements ==
  ASSUME Types, HasStatement, Statement.op = "fill"
  PROVE  at \in {<<1, 5>>, <<1, 7>>} /\ at[1] = 1 /\ db = disk
<1>1. /\ at[1] \in 1 .. LastVersion /\ at[2] \in 1 .. Len(Script[at[1]])
      /\ at = <<at[1], at[2]>>
  BY StatementFacts
<1> DEFINE v == at[1]
           p == at[2]
<1>2. \A op, x : Stmt(op, x).op = op
  BY DEF Stmt
<1>3. v = 1 /\ p \in {5, 7}
  <2>1. v \in 1 .. LastVersion /\ p \in 1 .. Len(Script[v]) /\ Script[v][p].op = "fill"
    BY <1>1 DEF Statement
  <2> HIDE DEF v, p
  <2>2. ~Creating(Script[v][p])
    BY <1>2, <2>1 DEF Creating, Creates
  <2>3. v # 2
    <3>1. v = 2 => p \in {1, 2, 3, 4, 5}
      BY <2>1, V2Statements
    <3> QED
      BY <2>1, <3>1, V2Statements DEF Stmt
  <2>4. v # 3
    <3> SUFFICES ASSUME v = 3 PROVE FALSE
      OBVIOUS
    <3>1. p \in {1, 2, 3, 4, 5, 6, 7, 8, 9, 10, 11, 12, 13, 14}
      BY <2>1, V3Statements
    <3> QED
      BY <2>1, <3>1, V3Statements DEF Stmt
  <2>5. ~(v = 5 /\ p \in 6 .. 9)
    <3>1. v = 5 /\ p \in 6 .. 9 => p \in {6, 7, 8, 9}
      OBVIOUS
    <3> QED
      BY <2>1, <3>1, V5Operations
  <2> QED
    BY <1>2, <2>1, <2>2, <2>3, <2>4, <2>5, StatementKinds
<1> QED
  BY <1>1, <1>3 DEF Types, HasStatement

LEMMA BlanksInit == Init => Blanks
<1> SUFFICES ASSUME Init PROVE disk.blank = {} /\ db.blank = {}
  BY DEF Blanks
<1>1. disk.blank = {}
  BY InitialDisk DEF Fresh, Filled
<1> QED
  BY <1>1 DEF Init

LEMMA BlanksNext == Types /\ Blanks /\ [Next]_vars => Blanks'
<1> SUFFICES ASSUME Types, Blanks, [Next]_vars PROVE Blanks'
  OBVIOUS
<1> DEFINE Clean == db.blank = {} /\ disk.blank = {}
<1>1. torn' = torn \/ Kill
  BY DEF Next, Starting, Running, StartFromVersion, StartWithoutVersion, Execute, FillDone,
         ColumnExists, StatementRefused, Commit, AssertVersion, FillUuid, VersionUnread,
         ErrorIgnored, Stop, RemoveConflict, vars, history
<1>2. CASE torn
  <2>1. torn'
    BY <1>1, <1>2 DEF Kill, Types
  <2> QED
    BY <2>1 DEF Blanks
<1>3. ASSUME Clean \/ Filling(disk)
      PROVE  Blanks'
  \* Where uuids are being filled in, the statement says so.
  <2>1. Filling(disk) => HasStatement /\ Statement.op = "fill" /\ db = disk
    <3>1. \A op, x : Stmt(op, x).op = op
      BY DEF Stmt
    <3>2. ASSUME Filling(disk)
          PROVE  HasStatement /\ Statement.op = "fill" /\ db = disk
      <4>1. at[1] = 1 /\ at[2] \in {5, 7} /\ pc = "running"
        BY <3>2 DEF Filling
      <4> QED
        BY <3>1, <4>1, V1Statements DEF HasStatement, Statement, Types
    <3> QED
      BY <3>2
  <2>2. ASSUME Clean, db'.blank = {}, disk'.blank = {}
        PROVE  Blanks'
    BY <2>2 DEF Blanks
  <2>4. CASE StartFromVersion \/ StartWithoutVersion \/ VersionUnread
    <3>1. pc = "down" /\ UNCHANGED <<disk, db>>
      BY <2>4 DEF StartFromVersion, StartWithoutVersion, VersionUnread
    <3>2. Clean
      BY <1>3, <3>1 DEF Filling
    <3> QED
      BY <2>2, <3>1, <3>2
  <2>5. CASE Execute
    <3>1. /\ HasStatement /\ Statement.op # "fill" /\ Write(Executed(db, Statement), Statement)
          /\ at' = <<at[1], at[2] + 1>> /\ pc' = pc
      BY <2>5 DEF Execute
    <3>2. Clean
      BY <1>3, <2>1, <3>1
    <3>3. db'.blank = NewBlank(db, Statement) /\ disk' \in {db', disk}
          /\ (at[1] = 1 => disk' = db')
      <4>1. WellFormed(Statement) /\ db \in Database
        BY <3>1, StatementFacts DEF Types
      <4>2. Executed(db, Statement).blank = NewBlank(db, Statement)
        BY <3>1, <4>1, Effect
      <4> QED
        BY <3>1, <4>2 DEF Write
    <3> DEFINE v == at[1]
               p == at[2]
    <3>4. /\ v \in 1 .. LastVersion /\ p \in 1 .. Len(Script[v]) /\ Statement = Script[v][p]
          /\ db \in Database
      BY <3>1, StatementFacts DEF Statement, Types
    <3>5. CASE NewBlank(db, Statement) = db.blank
      BY <2>2, <3>2, <3>3, <3>5
    <3>6. CASE /\ v = 1 /\ p \in {4, 6} /\ Script[1][p + 1].op = "fill"
               /\ NewBlank(db, Statement) \subseteq
                     db.blank \cup RowsOf(TableOf(Script[1][p + 1].on))
      <4>1. pc' = "running" /\ at' \in {<<1, 5>>, <<1, 7>>} /\ disk' = db'
        BY <3>1, <3>3, <3>6 DEF HasStatement
      <4>2. Statement' = Script[1][p + 1]
        BY <3>1, <3>6 DEF Statement
      <4>3. disk'.blank \subseteq RowsOf(TableOf(Statement'.on))
        BY <3>2, <3>3, <3>6, <4>1, <4>2
      <4> QED
        BY <4>1, <4>3 DEF Blanks, Filling
    <3> HIDE DEF v, p
    <3> QED
      BY <3>4, <3>5, <3>6, BlankStep
  <2>6. ASSUME NEW r \in Users \cup Groups, FillUuid(r)
        PROVE  Blanks'
    <3> DEFINE e == [db EXCEPT !.blank = db.blank \ {r}]
    <3>1. /\ HasStatement /\ Statement.op = "fill" /\ r \in db.blank
          /\ Write(e, Statement) /\ pc' = pc /\ at' = at
      BY <2>6 DEF FillUuid
    <3>2. Filling(disk)
      BY <1>3, <3>1
    <3>3. at[1] = 1 /\ db = disk
      BY <3>1, FillStatements
    <3>4. disk' = e /\ e.blank = db.blank \ {r}
      BY <3>1, <3>3 DEF Write, Types, Database
    <3>5. Statement' = Statement
      BY <3>1 DEF Statement
    <3> QED
      BY <3>1, <3>2, <3>3, <3>4, <3>5 DEF Blanks, Filling
  <2>7. CASE FillDone
    <3>1. /\ HasStatement /\ Statement.op = "fill" /\ UNCHANGED <<disk, db>>
          /\ db.blank \cap RowsOf(TableOf(Statement.on)) = {}
      BY <2>7 DEF FillDone
    <3>2. db = disk
      BY <3>1, FillStatements
    <3>3. Clean
      BY <1>3, <3>1, <3>2 DEF Filling
    <3> QED
      BY <2>2, <3>1, <3>3
  <2>8. CASE ColumnExists \/ ErrorIgnored
    <3>1. Statement.op # "fill" /\ UNCHANGED <<disk, db>>
      BY <2>8 DEF ColumnExists, ErrorIgnored
    <3>2. Clean
      BY <1>3, <2>1, <3>1
    <3> QED
      BY <2>2, <3>1, <3>2
  <2>9. CASE StatementRefused
    <3>1. HasStatement /\ Refused(db, Statement) /\ disk' = disk /\ db' = disk
      BY <2>9 DEF StatementRefused, Down
    <3>2. Statement.op # "fill"
      BY <3>1 DEF Refused
    <3>3. Clean
      BY <1>3, <2>1, <3>2
    <3> QED
      BY <2>2, <3>1, <3>3
  <2>10. CASE Commit
    <3>1. ~HasStatement /\ db' = [db EXCEPT !.meta = NewVersion(at[1])] /\ disk' = db'
      <4>1. at[2] > Len(Script[at[1]])
        BY <2>10 DEF Commit
      <4>2. at[2] \in Nat /\ Len(Script[at[1]]) \in Nat
        <5>1. at[1] \in 1 .. LastVersion /\ at[2] \in 1 .. 15
          BY DEF Types
        <5> QED
          BY <5>1, ScriptLengths
      <4>3. ~HasStatement
        BY <4>1, <4>2 DEF HasStatement
      <4> QED
        BY <2>10, <4>3 DEF Commit
    <3>2. Clean
      BY <1>3, <2>1, <3>1
    <3>3. db'.blank = db.blank
      BY <3>1 DEF Types, Database
    <3> QED
      BY <2>2, <3>1, <3>2, <3>3
  <2>11. CASE AssertVersion \/ Stop
    <3>1. pc # "running" /\ disk' = disk /\ (db' = db \/ db' = disk)
      BY <2>11 DEF AssertVersion, Stop, Down
    <3>2. Clean
      BY <1>3, <3>1 DEF Filling
    <3> QED
      BY <2>2, <3>1, <3>2
  <2>12. CASE Kill
    <3>1. /\ disk' = disk /\ db' = disk
          /\ torn' = (torn \/ (HasStatement /\ Statement.op = "fill"
                         /\ db.blank \cap RowsOf(TableOf(Statement.on)) # {}))
      BY <2>12 DEF Kill, Down
    <3>2. CASE Clean
      BY <2>2, <3>1, <3>2
    <3>3. CASE Filling(disk)
      <4>1. disk.blank # {} => torn'
        BY <2>1, <3>1, <3>3 DEF Filling
      <4> QED
        BY <3>1, <4>1 DEF Blanks
    <3> QED
      BY <1>3, <3>2, <3>3
  <2>13. ASSUME NEW x \in Conflicts, RemoveConflict(x)
         PROVE  Blanks'
    <3>1. pc = "down" /\ disk'.blank = disk.blank /\ db' = disk'
      BY <2>13 DEF RemoveConflict, Types, Database
    <3>2. Clean
      BY <1>3, <3>1 DEF Filling
    <3> QED
      BY <2>2, <3>1, <3>2
  <2>14. CASE UNCHANGED vars
    BY <2>14 DEF Blanks, Filling, Statement, vars
  <2> QED
    BY <2>4, <2>5, <2>6, <2>7, <2>8, <2>9, <2>10, <2>11, <2>12, <2>13, <2>14
       DEF Next, Starting, Running
<1> QED
  BY <1>2, <1>3 DEF Blanks

-----------------------------------------------------------------------------
(* The texts, in every step.                                                *)

\* The texts depend on the tables and the cells only.
LEMMA SameSound ==
  ASSUME NEW d, NEW e, NEW o, Sound(d, o), e.objects = d.objects, SameTexts(e, d)
  PROVE  Sound(e, o)
  BY DEF Sound, SameTexts, Holds

LEMMA SameColumns ==
  ASSUME NEW d, NEW e, ColumnsOrValues(d), e.objects = d.objects, SameTexts(e, d)
  PROVE  ColumnsOrValues(e)
  BY DEF ColumnsOrValues, SameTexts

LEMMA FirstStage ==
  ASSUME NEW d, NEW v, ColumnsOrValues(d)
  PROVE  Stage(d, v, 1)
  BY DEF Stage

\* Only the move of the cells leaves both columns and values.
LEMMA StageColumns ==
  ASSUME NEW d, NEW v \in 1 .. LastVersion, NEW p \in Nat, Stage(d, v, p), ~(v = 5 /\ p = 7)
  PROVE  ColumnsOrValues(d)
  BY DEF Stage

LEMMA FreshSound ==
  ASSUME NEW o, o = [c \in Names |-> Null]
  PROVE  Sound(Fresh, o) /\ ColumnsOrValues(Fresh)
<1>1. \A c \in Names : c # Null
  BY DEF Names, Null
<1>2. "display_name" \in Names
  BY DEF Names
<1> QED
  BY <1>1, <1>2 DEF Sound, ColumnsOrValues, Fresh, Holds

LEMMA FilledSound ==
  ASSUME NEW v \in Nat, NEW objects, TempName \notin objects, "users" \in objects,
         "display_name" \in objects,
         "first_name" \in objects => Names \subseteq objects,
         NEW n \in [Names -> Cells], \A c \in Names : n[c] \in CellsAt(v, c), NEW x, NEW ro
  PROVE  LET d == Filled(v, objects, n, x, ro) IN Sound(d, n) /\ ColumnsOrValues(d)
<1> DEFINE d == Filled(v, objects, n, x, ro)
<1>1. /\ d.objects = objects
      /\ d.cell = [c \in Names \cup {TempName} |-> IF c \in objects THEN n[c] ELSE Null]
      /\ d.value = [c \in Names |-> IF c \in objects THEN Null ELSE n[c]]
  BY DEF Filled
<1> HIDE DEF d
<1>2. \A c \in Names : n[c] \in {Null, Empty, c} /\ c # Null
  BY DEF CellsAt, Names, Null, Empty
<1>3. "display_name" \in Names
  BY DEF Names
<1>4. Sound(d, n)
  BY <1>1, <1>2, <1>3 DEF Sound, Holds
<1>5. ColumnsOrValues(d)
  BY <1>1 DEF ColumnsOrValues
<1> QED
  BY <1>4, <1>5 DEF d

\* The objects of a version, one by one.
LEMMA ObjectsAtMember ==
  ASSUME NEW v \in Nat, NEW x
  PROVE  x \in ObjectsAt(v) <=> /\ \E k \in 1 .. LastVersion : k <= v /\ x \in NewIn[k]
                                /\ v >= 5 => x \notin Names \ {"display_name"}
<1> DEFINE U == UNION {NewIn[k] : k \in {j \in 1 .. LastVersion : j <= v}}
<1>1. x \in U <=> \E k \in 1 .. LastVersion : k <= v /\ x \in NewIn[k]
  OBVIOUS
<1>2. ObjectsAt(v) = U \ (IF v >= 5 THEN Names \ {"display_name"} ELSE {})
  BY DEF ObjectsAt
<1> HIDE DEF U
<1>3. CASE v >= 5
  BY <1>1, <1>2, <1>3
<1>4. CASE ~(v >= 5)
  BY <1>1, <1>2, <1>4
<1> QED
  BY <1>3, <1>4

LEMMA NewInV1 ==
  NewIn[1] = {"users", "groups", "memberships", "metadata"} \cup Names
                \cup {"users.uuid", "groups.uuid", "groups.creation_date"}
  BY DEF NewIn

LEMMA OldObjectsFacts ==
  ASSUME NEW v \in OldVersions, NEW late \in SUBSET LateColumns
  PROVE  /\ v \in Nat /\ v <= LastVersion + 1
         /\ {"users", "display_name"} \subseteq OldObjects(v, late)
         /\ "first_name" \in OldObjects(v, late) => Names \subseteq OldObjects(v, late)
<1>1. v \in Nat /\ v <= LastVersion + 1
  BY MigrationsAssumption DEF LastVersion
<1>2. CASE v = 0
  BY <1>1, <1>2 DEF OldObjects, Names
<1>3. CASE v # 0
  <2>1. 1 \in 1 .. LastVersion /\ 1 <= v
    BY <1>1, <1>3 DEF LastVersion
  <2>2. {"users", "display_name"} \cup Names \subseteq NewIn[1]
    BY NewInV1 DEF Names
  <2>3. {"users", "display_name"} \subseteq ObjectsAt(v)
    <3>1. "users" \notin Names \ {"display_name"}
      BY DEF Names
    <3> QED
      BY <1>1, <2>1, <2>2, <3>1, ObjectsAtMember
  <2>4. "first_name" \in ObjectsAt(v) => Names \subseteq ObjectsAt(v)
    <3>1. "first_name" \in Names \ {"display_name"}
      BY DEF Names
    <3> QED
      BY <1>1, <2>1, <2>2, <3>1, ObjectsAtMember
  <2> QED
    BY <1>1, <1>3, <2>3, <2>4 DEF OldObjects
<1> QED
  BY <1>2, <1>3

LEMMA TextsInit == Init => Texts
<1> SUFFICES ASSUME Init PROVE Sound(disk, origin) /\ ColumnsOrValues(disk)
  BY DEF Texts, Init
<1>1. CASE disk = Fresh /\ origin = [c \in Names |-> Null]
  BY <1>1, FreshSound
<1>2. ASSUME NEW v \in OldVersions, NEW x \in SUBSET Conflicts, NEW late \in SUBSET LateColumns,
             NEW ro \in BOOLEAN, origin \in [Names -> Cells],
             \A c \in Names : origin[c] \in CellsAt(v, c),
             disk = Filled(v, OldObjects(v, late), origin, x, ro)
      PROVE  Sound(disk, origin) /\ ColumnsOrValues(disk)
  <2> DEFINE O == OldObjects(v, late)
  <2>1. /\ v \in Nat /\ TempName \notin O /\ "users" \in O /\ "display_name" \in O
        /\ "first_name" \in O => Names \subseteq O
    BY OldObjectsFacts, OldObjectsTyped
  <2> HIDE DEF O
  <2> QED
    BY <1>2, <2>1, FilledSound DEF O
<1> QED
  BY <1>1, <1>2, InitialDisk

LEMMA TextsNext == Types /\ Texts /\ [Next]_vars => Texts'
<1> SUFFICES ASSUME Types, Texts, [Next]_vars PROVE Texts'
  OBVIOUS
<1>1. /\ Sound(disk, origin) /\ ColumnsOrValues(disk) /\ disk \in Database /\ db \in Database
      /\ pc = "running" => Sound(db, origin) /\ Stage(db, at[1], at[2])
      /\ pc # "running" \/ at[1] = 1 => db = disk
  BY DEF Texts, Types
<1>2. origin' = origin
  BY DEF Next, Starting, Running, StartFromVersion, StartWithoutVersion, Execute, FillDone,
         ColumnExists, StatementRefused, Commit, AssertVersion, FillUuid, VersionUnread,
         ErrorIgnored, Kill, Stop, RemoveConflict, vars, history
\* The durable texts are as before, and no migration goes on.
<1>3. ASSUME pc' # "running", disk' = disk
      PROVE  Texts'
  BY <1>1, <1>2, <1>3 DEF Texts
\* A migration begins.
<1>4. ASSUME NEW v \in 1 .. LastVersion, Migrate(v), UNCHANGED <<db, disk>>, pc # "running"
      PROVE  Texts'
  <2>1. at'[1] = v /\ at'[2] = 1 /\ db = disk
    BY <1>1, <1>4 DEF Migrate
  <2>2. Stage(db, v, 1)
    BY <1>1, <2>1, FirstStage
  <2> QED
    BY <1>1, <1>2, <1>4, <2>1, <2>2 DEF Texts
\* Version 1 leaves the texts where they are.
<1>5. ASSUME HasStatement, at[1] = 1, at'[1] = 1,
             db'.objects = db.objects, SameTexts(db', db), disk' = db'
      PROVE  Texts'
  <2>1. ColumnsOrValues(db) /\ Sound(db, origin)
    BY <1>1, <1>5
  <2>2. ColumnsOrValues(db') /\ Sound(db', origin)
    BY <1>5, <2>1, SameSound, SameColumns
  <2>3. Stage(db', 1, at'[2])
    BY <2>2 DEF Stage
  <2> QED
    BY <1>2, <1>5, <2>2, <2>3 DEF Texts
<1>6. CASE StartFromVersion
  <2>1. PICK v \in Range(disk.meta) :
          \/ v < LastVersion /\ Migrate(v + 1)
          \/ v = LastVersion /\ pc' = "serving" /\ UNCHANGED at
          \/ v > LastVersion /\ UNCHANGED <<pc, at>>
    BY <1>6 DEF StartFromVersion
  <2>2. v \in 1 .. LastVersion + 1
    BY <1>1, RangeTyped
  <2>3. pc = "down" /\ UNCHANGED <<disk, db>>
    BY <1>6 DEF StartFromVersion
  <2>4. CASE v < LastVersion /\ Migrate(v + 1)
    <3>1. v + 1 \in 1 .. LastVersion
      BY <2>2, <2>4 DEF LastVersion
    <3> QED
      BY <1>4, <2>3, <2>4, <3>1
  <2> QED
    BY <1>3, <2>1, <2>3, <2>4
<1>7. CASE StartWithoutVersion \/ VersionUnread
  <2>1. 1 \in 1 .. LastVersion
    BY DEF LastVersion
  <2> QED
    BY <1>4, <1>7, <2>1 DEF StartWithoutVersion, VersionUnread
<1>8. CASE Execute
  <2> DEFINE e == Executed(db, Statement)
             v == at[1]
             p == at[2]
  <2>1. /\ HasStatement /\ Statement.op # "fill" /\ ~Refused(db, Statement) /\ Write(e, Statement)
        /\ at' = <<v, p + 1>> /\ pc' = pc /\ pc = "running"
    BY <1>8 DEF Execute, HasStatement
  <2>2. /\ v \in 1 .. LastVersion /\ p \in 1 .. Len(Script[v]) /\ Statement = Script[v][p]
    BY <2>1, StatementFacts DEF Statement
  <2>3. Sound(e, origin) /\ Stage(e, v, p + 1)
    <3>1. Sound(db, origin) /\ Stage(db, v, p)
      BY <1>1, <2>1
    <3> HIDE DEF v, p
    <3> QED
      BY <1>1, <2>1, <2>2, <3>1, TextStep
  <2>4. disk' # disk => ColumnsOrValues(e)
    <3>1. CASE v = 5 /\ p = 6
      <4>1. Statement = Stmt("move", "users")
        BY <2>2, <3>1, V5Statements
      <4>2. ~IsDdl(Statement)
        BY <4>1 DEF IsDdl, Stmt
      <4> QED
        BY <2>1, <3>1, <4>2 DEF Write
    <3>2. CASE ~(v = 5 /\ p = 6)
      <4>1. p + 1 \in Nat /\ ~(v = 5 /\ p + 1 = 7)
        BY <2>2, <3>2
      <4> HIDE DEF v, p, e
      <4> QED
        BY <2>2, <2>3, <4>1, StageColumns
    <3> QED
      BY <3>1, <3>2
  <2>5. db' = e /\ disk' \in {disk, e} /\ at'[1] = v /\ at'[2] = p + 1
    BY <2>1 DEF Write
  <2> HIDE DEF e, v, p
  <2> QED
    BY <1>1, <1>2, <2>1, <2>3, <2>4, <2>5 DEF Texts
<1>9. ASSUME NEW r \in Users \cup Groups, FillUuid(r)
      PROVE  Texts'
  <2>1. /\ HasStatement /\ Statement.op = "fill" /\ at' = at
        /\ Write([db EXCEPT !.blank = @ \ {r}], Statement)
    BY <1>9 DEF FillUuid
  <2>2. at[1] = 1
    BY <2>1, FillStatements
  <2>3. db'.objects = db.objects /\ SameTexts(db', db) /\ disk' = db'
    BY <1>1, <2>1, <2>2 DEF Write, Database, SameTexts
  <2> QED
    BY <1>5, <2>1, <2>2, <2>3
<1>10. CASE FillDone \/ ColumnExists \/ ErrorIgnored
  <2>1. HasStatement /\ at'[1] = at[1] /\ UNCHANGED <<disk, db>>
        /\ Statement.op \in {"fill", "try_add", "try_rename_group"}
    BY <1>10 DEF FillDone, ColumnExists, ErrorIgnored
  <2>2. at[1] = 1
    BY <2>1, FillStatements, SkipFacts
  <2>3. disk' = db'
    BY <1>1, <2>1, <2>2
  <2> QED
    BY <1>5, <2>1, <2>2, <2>3 DEF SameTexts
<1>11. CASE StatementRefused \/ Kill \/ Stop
  BY <1>3, <1>11 DEF StatementRefused, Kill, Stop, Down
<1>12. CASE Commit
  <2> DEFINE v == at[1]
  <2>1. pc = "running" /\ v \in 1 .. LastVersion /\ at[2] \in 1 .. 15 /\ at[2] > Len(Script[v])
    BY <1>12 DEF Commit, Types
  <2>2. ~(v = 5 /\ at[2] = 7)
    <3> SUFFICES ASSUME v = 5, at[2] = 7 PROVE FALSE
      OBVIOUS
    <3>1. Len(Script[5]) = 9
      BY V5Statements
    <3>2. at[2] > 9
      BY <2>1, <3>1
    <3> QED
      BY <3>2
  <2>3. ColumnsOrValues(db) /\ Sound(db, origin)
    BY <1>1, <2>1, <2>2, StageColumns
  <2>4. db'.objects = db.objects /\ SameTexts(db', db) /\ disk' = db'
    BY <1>1, <1>12 DEF Commit, Database, SameTexts
  <2>5. ColumnsOrValues(db') /\ Sound(db', origin)
    BY <2>3, <2>4, SameSound, SameColumns
  <2>6. CASE pc' # "running"
    BY <1>2, <2>4, <2>5, <2>6 DEF Texts
  <2>7. CASE Migrate(v + 1)
    <3>1. at'[2] = 1
      BY <2>7 DEF Migrate
    <3>2. Stage(db', at'[1], 1)
      BY <2>5, FirstStage
    <3> QED
      BY <1>2, <2>4, <2>5, <3>1, <3>2 DEF Texts
  <2> QED
    BY <1>12, <2>6, <2>7 DEF Commit
<1>13. CASE AssertVersion
  <2>1. 2 \in 1 .. LastVersion
    BY DEF LastVersion
  <2>2. pc = "asserting" /\ disk' = disk /\ ((Migrate(2) /\ UNCHANGED db) \/ Down)
    BY <1>13 DEF AssertVersion
  <2> QED
    BY <1>3, <1>4, <2>1, <2>2 DEF Down
<1>14. ASSUME NEW x \in Conflicts, RemoveConflict(x)
       PROVE  Texts'
  <2>1. disk'.objects = disk.objects /\ SameTexts(disk', disk) /\ pc' = "down"
    BY <1>1, <1>14 DEF RemoveConflict, Database, SameTexts
  <2>2. Sound(disk', origin) /\ ColumnsOrValues(disk')
    BY <1>1, <2>1, SameSound, SameColumns
  <2> QED
    BY <1>2, <2>1, <2>2 DEF Texts
<1>15. CASE UNCHANGED vars
  BY <1>15 DEF vars, Texts
<1> QED
  BY <1>6, <1>7, <1>8, <1>9, <1>10, <1>11, <1>12, <1>13, <1>14, <1>15
     DEF Next, Starting, Running

-----------------------------------------------------------------------------
(* The tables of a version, statement by statement.                         *)

LEMMA BeforeMember ==
  ASSUME NEW v, NEW p, NEW ops, NEW x
  PROVE  x \in Before(v, p, ops) <=>
            \E j \in 1 .. Len(Script[v]) :
                j < p /\ Script[v][j].op \in ops /\ x = Script[v][j].on
  BY DEF Before

LEMMA BeforeFirst ==
  ASSUME NEW v \in 1 .. LastVersion, NEW ops
  PROVE  Before(v, 1, ops) = {}
<1>1. Len(Script[v]) \in Nat
  BY ScriptLengths
<1>2. ~\E j \in 1 .. Len(Script[v]) : j < 1
  BY <1>1
<1> QED
  BY <1>2, BeforeMember

LEMMA BeforeStep ==
  ASSUME NEW v \in 1 .. LastVersion, NEW p \in 1 .. Len(Script[v]), NEW ops, NEW x
  PROVE  x \in Before(v, p + 1, ops) <=>
            \/ x \in Before(v, p, ops)
            \/ Script[v][p].op \in ops /\ x = Script[v][p].on
<1>1. Len(Script[v]) \in Nat
  BY ScriptLengths
<1>2. \A j \in 1 .. Len(Script[v]) : j < p + 1 <=> j < p \/ j = p
  BY <1>1
<1> QED
  BY <1>2, BeforeMember

\* What a migration creates: the objects of its creating statements.
LEMMA MadeMember ==
  ASSUME NEW v, NEW p, NEW x, x \notin Names \cup {TempName},
         \E j \in 1 .. Len(Script[v]) : j < p /\ Script[v][j].op \in Creates /\ x = Script[v][j].on
  PROVE  x \in Made(v, p)
  BY BeforeMember DEF Made

LEMMA MadeAt ==
  ASSUME NEW v \in 1 .. LastVersion, NEW j \in 1 .. Len(Script[v]), NEW op \in Creates,
         NEW x, x \notin Names \cup {TempName}, Script[v][j] = Stmt(op, x)
  PROVE  x \in Made(v, Len(Script[v]) + 1)
<1>1. Len(Script[v]) \in Nat
  BY ScriptLengths
<1>2. j < Len(Script[v]) + 1
  BY <1>1
<1> QED
  BY <1>2, MadeMember DEF Stmt

LEMMA MadeV1 == NewIn[1] \ Names \subseteq Made(1, Len(Script[1]) + 1)
<1>0. Len(Script[1]) = 10 /\ 1 \in 1 .. LastVersion
  BY V1Statements DEF LastVersion
<1>1. "users" \in Made(1, Len(Script[1]) + 1)
  <2>1. 1 \in 1 .. Len(Script[1]) /\ Script[1][1] = Stmt("ensure", "users")
    BY <1>0, V1Statements
  <2> QED
    BY <1>0, <2>1, MadeAt DEF Creates, Names, TempName
<1>2. "groups" \in Made(1, Len(Script[1]) + 1)
  <2>1. 2 \in 1 .. Len(Script[1]) /\ Script[1][2] = Stmt("ensure", "groups")
    BY <1>0, V1Statements
  <2> QED
    BY <1>0, <2>1, MadeAt DEF Creates, Names, TempName
<1>3. "groups.creation_date" \in Made(1, Len(Script[1]) + 1)
  <2>1. 3 \in 1 .. Len(Script[1]) /\ Script[1][3] = Stmt("try_add", "groups.creation_date")
    BY <1>0, V1Statements
  <2> QED
    BY <1>0, <2>1, MadeAt DEF Creates, Names, TempName
<1>4. "groups.uuid" \in Made(1, Len(Script[1]) + 1)
  <2>1. 4 \in 1 .. Len(Script[1]) /\ Script[1][4] = Stmt("try_add", "groups.uuid")
    BY <1>0, V1Statements
  <2> QED
    BY <1>0, <2>1, MadeAt DEF Creates, Names, TempName
<1>5. "users.uuid" \in Made(1, Len(Script[1]) + 1)
  <2>1. 6 \in 1 .. Len(Script[1]) /\ Script[1][6] = Stmt("try_add", "users.uuid")
    BY <1>0, V1Statements
  <2> QED
    BY <1>0, <2>1, MadeAt DEF Creates, Names, TempName
<1>6. "memberships" \in Made(1, Len(Script[1]) + 1)
  <2>1. 8 \in 1 .. Len(Script[1]) /\ Script[1][8] = Stmt("ensure", "memberships")
    BY <1>0, V1Statements
  <2> QED
    BY <1>0, <2>1, MadeAt DEF Creates, Names, TempName
<1>7. "metadata" \in Made(1, Len(Script[1]) + 1)
  <2>1. 10 \in 1 .. Len(Script[1]) /\ Script[1][10] = Stmt("ensure", "metadata")
    BY <1>0, V1Statements
  <2> QED
    BY <1>0, <2>1, MadeAt DEF Creates, Names, TempName
<1> QED
  BY <1>1, <1>2, <1>3, <1>4, <1>5, <1>6, <1>7, NewInV1

LEMMA MadeLater ==
  ASSUME NEW v \in 2 .. LastVersion
  PROVE  NewIn[v] \subseteq Made(v, Len(Script[v]) + 1)
<1>0. v \in {2, 3, 4, 5, 6, 7, 8, 9, 10}
  BY DEF LastVersion
<1>1. NewIn[2] = {} /\ NewIn[3] = {}
  BY DEF NewIn
<1>4. CASE v = 4
  <2>0. Len(Script[4]) = 3 /\ 4 \in 1 .. LastVersion
    BY V4Statements DEF LastVersion
  <2>1. "unique-user-email" \in Made(4, Len(Script[4]) + 1)
    <3>1. 1 \in 1 .. Len(Script[4]) /\ Script[4][1] = Stmt("index", "unique-user-email")
      BY <2>0, V4Statements
    <3> QED
      BY <2>0, <3>1, MadeAt DEF Creates, Names, TempName
  <2>2. "unique-user-uuid" \in Made(4, Len(Script[4]) + 1)
    <3>1. 2 \in 1 .. Len(Script[4]) /\ Script[4][2] = Stmt("index", "unique-user-uuid")
      BY <2>0, V4Statements
    <3> QED
      BY <2>0, <3>1, MadeAt DEF Creates, Names, TempName
  <2>3. "unique-group-uuid" \in Made(4, Len(Script[4]) + 1)
    <3>1. 3 \in 1 .. Len(Script[4]) /\ Script[4][3] = Stmt("index", "unique-group-uuid")
      BY <2>0, V4Statements
    <3> QED
      BY <2>0, <3>1, MadeAt DEF Creates, Names, TempName
  <2>9. NewIn[4] = {"unique-user-email", "unique-user-uuid", "unique-group-uuid"}
    BY DEF NewIn
  <2> QED
    BY <1>4, <2>1, <2>2, <2>3, <2>9
<1>5. CASE v = 5
  <2>0. Len(Script[5]) = 9 /\ 5 \in 1 .. LastVersion
    BY V5Statements DEF LastVersion
  <2>1. "user_attribute_schema" \in Made(5, Len(Script[5]) + 1)
    <3>1. 1 \in 1 .. Len(Script[5]) /\ Script[5][1] = Stmt("create", "user_attribute_schema")
      BY <2>0, V5Statements
    <3> QED
      BY <2>0, <3>1, MadeAt DEF Creates, Names, TempName
  <2>2. "group_attribute_schema" \in Made(5, Len(Script[5]) + 1)
    <3>1. 2 \in 1 .. Len(Script[5]) /\ Script[5][2] = Stmt("create", "group_attribute_schema")
      BY <2>0, V5Statements
    <3> QED
      BY <2>0, <3>1, MadeAt DEF Creates, Names, TempName
  <2>3. "user_attributes" \in Made(5, Len(Script[5]) + 1)
    <3>1. 3 \in 1 .. Len(Script[5]) /\ Script[5][3] = Stmt("create", "user_attributes")
      BY <2>0, V5Statements
    <3> QED
      BY <2>0, <3>1, MadeAt DEF Creates, Names, TempName
  <2>4. "group_attributes" \in Made(5, Len(Script[5]) + 1)
    <3>1. 4 \in 1 .. Len(Script[5]) /\ Script[5][4] = Stmt("create", "group_attributes")
      BY <2>0, V5Statements
    <3> QED
      BY <2>0, <3>1, MadeAt DEF Creates, Names, TempName
  <2>5. "hardcoded_attributes" \in Made(5, Len(Script[5]) + 1)
    <3>1. 5 \in 1 .. Len(Script[5]) /\ Script[5][5] = Stmt("insert", "hardcoded_attributes")
      BY <2>0, V5Statements
    <3> QED
      BY <2>0, <3>1, MadeAt DEF Creates, Names, TempName
  <2>9. NewIn[5] = {"user_attribute_schema", "group_attribute_schema",
                    "user_attributes", "group_attributes", "hardcoded_attributes"}
    BY DEF NewIn
  <2> QED
    BY <1>5, <2>1, <2>2, <2>3, <2>4, <2>5, <2>9
<1>6. CASE v = 6
  <2>0. Len(Script[6]) = 4 /\ 6 \in 1 .. LastVersion
    BY V6Statements DEF LastVersion
  <2>1. "groups.lowercase_display_name" \in Made(6, Len(Script[6]) + 1)
    <3>1. 1 \in 1 .. Len(Script[6]) /\ Script[6][1] = Stmt("add", "groups.lowercase_display_name")
      BY <2>0, V6Statements
    <3> QED
      BY <2>0, <3>1, MadeAt DEF Creates, Names, TempName
  <2>2. "users.lowercase_email" \in Made(6, Len(Script[6]) + 1)
    <3>1. 2 \in 1 .. Len(Script[6]) /\ Script[6][2] = Stmt("add", "users.lowercase_email")
      BY <2>0, V6Statements
    <3> QED
      BY <2>0, <3>1, MadeAt DEF Creates, Names, TempName
  <2>9. NewIn[6] = {"groups.lowercase_display_name", "users.lowercase_email"}
    BY DEF NewIn
  <2> QED
    BY <1>6, <2>1, <2>2, <2>9
<1>7. CASE v = 7
  <2>0. Len(Script[7]) = 2 /\ 7 \in 1 .. LastVersion
    BY LateStatements DEF LastVersion
  <2>1. "metadata.private_key_hash" \in Made(7, Len(Script[7]) + 1)
    <3>1. 1 \in 1 .. Len(Script[7]) /\ Script[7][1] = Stmt("add", "metadata.private_key_hash")
      BY <2>0, LateStatements
    <3> QED
      BY <2>0, <3>1, MadeAt DEF Creates, Names, TempName
  <2>2. "metadata.private_key_location" \in Made(7, Len(Script[7]) + 1)
    <3>1. 2 \in 1 .. Len(Script[7]) /\ Script[7][2] = Stmt("add", "metadata.private_key_location")
      BY <2>0, LateStatements
    <3> QED
      BY <2>0, <3>1, MadeAt DEF Creates, Names, TempName
  <2>9. NewIn[7] = {"metadata.private_key_hash", "metadata.private_key_location"}
    BY DEF NewIn
  <2> QED
    BY <1>7, <2>1, <2>2, <2>9
<1>8. CASE v = 8
  <2>0. Len(Script[8]) = 2 /\ 8 \in 1 .. LastVersion
    BY LateStatements DEF LastVersion
  <2>1. "unique-memberships" \in Made(8, Len(Script[8]) + 1)
    <3>1. 2 \in 1 .. Len(Script[8]) /\ Script[8][2] = Stmt("index", "unique-memberships")
      BY <2>0, LateStatements
    <3> QED
      BY <2>0, <3>1, MadeAt DEF Creates, Names, TempName
  <2>9. NewIn[8] = {"unique-memberships"}
    BY DEF NewIn
  <2> QED
    BY <1>8, <2>1, <2>9
<1>9. CASE v = 9
  <2>0. Len(Script[9]) = 2 /\ 9 \in 1 .. LastVersion
    BY LateStatements DEF LastVersion
  <2>1. "user_object_classes" \in Made(9, Len(Script[9]) + 1)
    <3>1. 1 \in 1 .. Len(Script[9]) /\ Script[9][1] = Stmt("ensure", "user_object_classes")
      BY <2>0, LateStatements
    <3> QED
      BY <2>0, <3>1, MadeAt DEF Creates, Names, TempName
  <2>2. "group_object_classes" \in Made(9, Len(Script[9]) + 1)
    <3>1. 2 \in 1 .. Len(Script[9]) /\ Script[9][2] = Stmt("ensure", "group_object_classes")
      BY <2>0, LateStatements
    <3> QED
      BY <2>0, <3>1, MadeAt DEF Creates, Names, TempName
  <2>9. NewIn[9] = {"user_object_classes", "group_object_classes"}
    BY DEF NewIn
  <2> QED
    BY <1>9, <2>1, <2>2, <2>9
<1>10. CASE v = 10
  <2>0. Len(Script[10]) = 2 /\ 10 \in 1 .. LastVersion
    BY LateStatements DEF LastVersion
  <2>1. "unique-group-id" \in Made(10, Len(Script[10]) + 1)
    <3>1. 1 \in 1 .. Len(Script[10]) /\ Script[10][1] = Stmt("index", "unique-group-id")
      BY <2>0, LateStatements
    <3> QED
      BY <2>0, <3>1, MadeAt DEF Creates, Names, TempName
  <2>2. "unique-user-lower-email" \in Made(10, Len(Script[10]) + 1)
    <3>1. 2 \in 1 .. Len(Script[10]) /\ Script[10][2] = Stmt("index", "unique-user-lower-email")
      BY <2>0, LateStatements
    <3> QED
      BY <2>0, <3>1, MadeAt DEF Creates, Names, TempName
  <2>9. NewIn[10] = {"unique-group-id", "unique-user-lower-email"}
    BY DEF NewIn
  <2> QED
    BY <1>10, <2>1, <2>2, <2>9
<1> QED
  BY <1>0, <1>1, <1>4, <1>5, <1>6, <1>7, <1>8, <1>9, <1>10

LEMMA LastingMember ==
  ASSUME NEW v \in Nat, NEW x
  PROVE  x \in Lasting(v) <=>
            x \notin Names /\ \E k \in 1 .. LastVersion : k <= v /\ x \in NewIn[k]
  BY ObjectsAtMember DEF Lasting

\* Together with what was there, that is all of the next version.
LEMMA LastingStep ==
  ASSUME NEW v \in 1 .. LastVersion
  PROVE  /\ v = 1 => Lasting(v) \subseteq Made(v, Len(Script[v]) + 1)
         /\ v > 1 => Lasting(v) \subseteq Lasting(v - 1) \cup Made(v, Len(Script[v]) + 1)
<1>0. v \in Nat /\ v - 1 \in Nat
  OBVIOUS
<1>1. CASE v = 1
  <2>1. \A k \in 1 .. LastVersion : k <= v => k = 1
    BY <1>1
  <2> QED
    BY <1>0, <1>1, <2>1, LastingMember, MadeV1
<1>2. CASE v > 1
  <2>1. v \in 2 .. LastVersion
    BY <1>2
  <2>2. \A k \in 1 .. LastVersion : k <= v => k <= v - 1 \/ k = v
    OBVIOUS
  <2>3. NewIn[v] \subseteq Made(v, Len(Script[v]) + 1)
    BY <2>1, MadeLater
  <2> QED
    BY <1>0, <1>2, <2>2, <2>3, LastingMember
<1> QED
  BY <1>1, <1>2

\* Only the columns under replacement go away, and nothing but "users" brings names.
LEMMA NewObjectsFacts ==
  ASSUME NEW d, NEW s
  PROVE  /\ s.op \notin {"rename", "drop"} \/ s.on \in Names \cup {TempName} =>
               d.objects \ (Names \cup {TempName}) \subseteq NewObjects(d, s)
         /\ s.op \in Creates => s.on \in NewObjects(d, s) /\ d.objects \subseteq NewObjects(d, s)
<1>1. CASE s.op \in Creates
  <2>1. NewObjects(d, s) = ObjectsAfter(d, s.op, s.on)
    BY <1>1 DEF NewObjects
  <2>2. d.objects \cup {s.on} \subseteq ObjectsAfter(d, s.op, s.on)
    BY DEF ObjectsAfter
  <2> QED
    BY <2>1, <2>2
<1>2. CASE s.op = "rename"
  <2>1. NewObjects(d, s) = (d.objects \ {s.on}) \cup {TempName} /\ s.op \notin Creates
    BY <1>2 DEF NewObjects, Creates
  <2> QED
    BY <1>2, <2>1
<1>3. CASE s.op = "drop"
  <2>1. NewObjects(d, s) = d.objects \ {s.on} /\ s.op \notin Creates
    BY <1>3 DEF NewObjects, Creates
  <2> QED
    BY <1>3, <2>1
<1>4. CASE s.op \notin Creates /\ s.op # "rename" /\ s.op # "drop"
  <2>1. NewObjects(d, s) = d.objects
    BY <1>4 DEF NewObjects
  <2> QED
    BY <1>4, <2>1
<1> QED
  BY <1>1, <1>2, <1>3, <1>4

LEMMA WellFormedOn ==
  ASSUME NEW s, WellFormed(s), s.op \in {"rename", "drop"}
  PROVE  s.on \in Names \cup {TempName}
<1>1. \A op, x : Stmt(op, x).op = op /\ Stmt(op, x).on = x
  BY DEF Stmt
<1> QED
  BY <1>1 DEF WellFormed, Creates

LEMMA LastingObjects ==
  ASSUME NEW v \in Nat, NEW d, NEW s, WellFormed(s), Lasting(v) \subseteq d.objects
  PROVE  Lasting(v) \subseteq NewObjects(d, s)
<1>1. \A x \in Lasting(v) : x \notin Names \cup {TempName}
  BY ObjectsTyped DEF Lasting
<1> QED
  BY <1>1, NewObjectsFacts, WellFormedOn

\* With the table "users" there, creating statements add no names.
LEMMA NoNewNames ==
  ASSUME NEW d, NEW s, Creating(s), "users" \in d.objects
  PROVE  NewObjects(d, s) \cap Names = d.objects \cap Names
<1>1. PICK op \in Creates, x \in Object \ (Names \cup {TempName}) : s = Stmt(op, x)
  BY DEF Creating
<1>2. s.op = op /\ s.on = x
  BY <1>1 DEF Stmt
<1>3. x # "users" => ColumnsOf(x) \cap Names = {}
  BY DEF ColumnsOf, Names
<1>4. NewObjects(d, s) = ObjectsAfter(d, op, x)
  BY <1>2 DEF NewObjects
<1> QED
  BY <1>3, <1>4 DEF ObjectsAfter

\* A migration after the fifth creates its tables, or fills them in.
LEMMA LateKinds ==
  ASSUME NEW v \in 1 .. LastVersion, NEW p \in 1 .. Len(Script[v]), v >= 6
  PROVE  Creating(Script[v][p]) \/ Script[v][p].op \in {"lower", "deduplicate", "try_rename_group"}
<1>1. \A op, x : Stmt(op, x).op = op
  BY DEF Stmt
<1> QED
  BY <1>1, StatementKinds

LEMMA ReadyKept ==
  ASSUME NEW d \in Database, NEW v \in 2 .. LastVersion, NEW p \in 1 .. Len(Script[v]),
         Script[v][p].op # "fill", Ready(d, v - 1)
  PROVE  Ready(Executed(d, Script[v][p]), v - 1)
<1> DEFINE s == Script[v][p]
           e == Executed(d, s)
           u == v - 1
<1>1. WellFormed(s) /\ u \in Nat
  BY ScriptsWellFormed
<1>2. /\ e \in Database /\ e.objects = NewObjects(d, s) /\ d.lowered \subseteq e.lowered
      /\ e.readonly => d.readonly
  BY <1>1, Effect
<1>3. u >= 5 => Creating(s) \/ s.op \in {"lower", "deduplicate", "try_rename_group"}
  BY LateKinds
<1>4. "users" \in d.objects
  <2>1. "users" \in NewIn[1] /\ "users" \notin Names /\ 1 \in 1 .. LastVersion /\ 1 <= u
    BY NewInV1 DEF Names, LastVersion
  <2>2. "users" \in Lasting(u)
    BY <1>1, <2>1, LastingMember
  <2> QED
    BY <2>2 DEF Ready
<1> HIDE DEF e, s, u
<1>5. Ready(d, u)
  BY DEF u
<1>6. Lasting(u) \subseteq e.objects
  BY <1>1, <1>2, <1>5, LastingObjects DEF Ready
<1>7. u >= 5 => e.objects \cap Names \subseteq {"display_name"}
  <2>1. CASE u >= 5 /\ Creating(s)
    BY <1>2, <1>4, <1>5, <2>1, NoNewNames DEF Ready
  <2>2. CASE s.op \in {"lower", "deduplicate", "try_rename_group"}
    BY <1>2, <1>5, <2>2 DEF Ready, NewObjects, Creates
  <2> QED
    BY <1>3, <2>1, <2>2
<1>8. u >= 6 => e.lowered = LowerCase
  BY <1>2, <1>5 DEF Ready, Database
<1>9. ~e.readonly
  BY <1>2, <1>5 DEF Ready
<1> QED
  BY <1>6, <1>7, <1>8, <1>9 DEF Ready, e, s, u

\* The columns that become attributes are dropped at the end of the fifth migration.
LEMMA DroppedV5 ==
  /\ \A p \in 1 .. 7 : Before(5, p, {"drop"}) = {}
  /\ {"first_name", "last_name", "avatar"} \subseteq Before(5, 10, {"drop"})
<1>0. Len(Script[5]) = 9
  BY V5Statements
<1>1. ASSUME NEW p \in 1 .. 7
      PROVE  Before(5, p, {"drop"}) = {}
  <2> SUFFICES ASSUME NEW x \in Before(5, p, {"drop"}) PROVE FALSE
    OBVIOUS
  <2>1. PICK j \in 1 .. 9 : j < p /\ Script[5][j].op = "drop"
    BY <1>0, BeforeMember
  <2>2. j \in {1, 2, 3, 4, 5, 6}
    BY <2>1
  <2> QED
    BY <2>1, <2>2, V5Operations
<1>2. Script[5][7].on = "first_name" /\ Script[5][8].on = "last_name" /\ Script[5][9].on = "avatar"
  BY V5Statements DEF Stmt
<1>3. "first_name" \in Before(5, 10, {"drop"})
  <2>1. 7 \in 1 .. Len(Script[5]) /\ 7 < 10
    BY <1>0
  <2> QED
    BY <1>2, <2>1, V5Operations, BeforeMember
<1>4. "last_name" \in Before(5, 10, {"drop"})
  <2>1. 8 \in 1 .. Len(Script[5]) /\ 8 < 10
    BY <1>0
  <2> QED
    BY <1>2, <2>1, V5Operations, BeforeMember
<1>5. "avatar" \in Before(5, 10, {"drop"})
  <2>1. 9 \in 1 .. Len(Script[5]) /\ 9 < 10
    BY <1>0
  <2> QED
    BY <1>2, <2>1, V5Operations, BeforeMember
<1> QED
  BY <1>1, <1>3, <1>4, <1>5

LEMMA LoweredV6 == LowerCase \subseteq Before(6, 5, {"lower"})
<1>0. Len(Script[6]) = 4
  BY V6Statements
<1>1. /\ Script[6][3].op = "lower" /\ Script[6][3].on = "groups.lowercase_display_name"
      /\ Script[6][4].op = "lower" /\ Script[6][4].on = "users.lowercase_email"
  BY V6Statements DEF Stmt
<1>2. "groups.lowercase_display_name" \in Before(6, 5, {"lower"})
  <2>1. 3 \in 1 .. Len(Script[6]) /\ 3 < 5
    BY <1>0
  <2> QED
    BY <1>1, <2>1, BeforeMember
<1>3. "users.lowercase_email" \in Before(6, 5, {"lower"})
  <2>1. 4 \in 1 .. Len(Script[6]) /\ 4 < 5
    BY <1>0
  <2> QED
    BY <1>1, <2>1, BeforeMember
<1> QED
  BY <1>2, <1>3 DEF LowerCase

\* The statements of a migration are done one by one.
LEMMA ProgressStep ==
  ASSUME NEW d \in Database, NEW v \in 1 .. LastVersion, NEW p \in 1 .. Len(Script[v]),
         Script[v][p].op # "fill", Progress(d, v, p)
  PROVE  Progress(Executed(d, Script[v][p]), v, p + 1)
<1> DEFINE s == Script[v][p]
           e == Executed(d, s)
<1>1. WellFormed(s) /\ s.op # "fill"
  BY ScriptsWellFormed
<1>2. /\ e \in Database /\ e.objects = NewObjects(d, s) /\ d.lowered \subseteq e.lowered
      /\ s.op = "lower" => s.on \in e.lowered
      /\ e.readonly => d.readonly /\ s.op # "try_rename_group"
  BY <1>1, Effect
<1>3. v > 1 => Ready(e, v - 1)
  <2>1. v > 1 => v \in 2 .. LastVersion /\ Ready(d, v - 1)
    BY DEF Progress
  <2> QED
    BY <2>1, ReadyKept
<1>4. \A ops, x : x \in Before(v, p + 1, ops) <=>
                     x \in Before(v, p, ops) \/ (s.op \in ops /\ x = s.on)
  BY BeforeStep
<1>5. v = 5 => Before(v, p + 1, {"drop"}) \cap e.objects = {}
  <2> SUFFICES ASSUME v = 5 PROVE Before(v, p + 1, {"drop"}) \cap e.objects = {}
    OBVIOUS
  <2>1. p \in 1 .. 9
    <3>1. Len(Script[5]) = 9
      BY V5Statements
    <3> QED
      BY <3>1
  <2>2. CASE p \in 1 .. 6
    <3>1. p + 1 \in 1 .. 7
      BY <2>2
    <3> QED
      BY <3>1, DroppedV5
  <2>3. CASE p \in {7, 8, 9}
    <3>1. s.op = "drop"
      BY <2>3, V5Operations
    <3>2. e.objects = d.objects \ {s.on}
      BY <1>2, <3>1 DEF NewObjects, Creates
    <3> HIDE DEF e, s
    <3> QED
      BY <1>4, <3>2 DEF Progress
  <2> QED
    BY <2>1, <2>2, <2>3
<1>6. v = 1 /\ p + 1 >= 10 => ~e.readonly
  <2> SUFFICES ASSUME v = 1, p + 1 >= 10 PROVE ~e.readonly
    OBVIOUS
  <2>1. CASE p = 9
    <3>1. s.op = "try_rename_group"
      BY <2>1, V1Statements DEF Stmt
    <3> QED
      BY <1>2, <3>1
  <2>2. CASE p >= 10
    BY <1>2, <2>2 DEF Progress
  <2> QED
    BY <2>1, <2>2
<1> HIDE DEF e, s
<1>7. Made(v, p + 1) \subseteq e.objects
  <2>1. Made(v, p) \subseteq d.objects \ (Names \cup {TempName})
    BY DEF Progress, Made
  <2>2. Made(v, p) \subseteq e.objects
    BY <1>1, <1>2, <2>1, NewObjectsFacts, WellFormedOn
  <2>3. s.op \in Creates => s.on \in e.objects
    BY <1>2, NewObjectsFacts
  <2> QED
    BY <1>4, <2>2, <2>3 DEF Made
<1>8. Before(v, p + 1, {"lower"}) \subseteq e.lowered
  BY <1>2, <1>4 DEF Progress
<1>9. Progress(e, v, p + 1)
  BY <1>3, <1>5, <1>6, <1>7, <1>8 DEF Progress
<1> QED
  BY <1>9 DEF e, s

\* At its end, the tables are those of its version.
LEMMA ProgressDone ==
  ASSUME NEW d \in Database, NEW v \in 1 .. LastVersion, NEW p \in Nat,
         p = Len(Script[v]) + 1, Progress(d, v, p)
  PROVE  Ready(d, v)
<1>0. Made(v, p) \subseteq d.objects /\ (v > 1 => Ready(d, v - 1))
  BY DEF Progress
<1>1. Lasting(v) \subseteq d.objects
  BY <1>0, LastingStep DEF Ready
<1>2. v >= 5 => d.objects \cap Names \subseteq {"display_name"}
  <2>1. CASE v = 5
    <3>1. p = 10
      BY <2>1, V5Statements
    <3>2. Before(5, 10, {"drop"}) \cap d.objects = {}
      BY <2>1, <3>1 DEF Progress
    <3> QED
      BY <3>2, DroppedV5 DEF Names
  <2>2. CASE v > 5
    <3>1. v - 1 >= 5
      BY <2>2
    <3> QED
      BY <1>0, <2>2, <3>1 DEF Ready
  <2> QED
    BY <2>1, <2>2
<1>3. v >= 6 => d.lowered = LowerCase
  <2>1. CASE v = 6
    <3>1. p = 5
      BY <2>1, V6Statements
    <3>2. LowerCase \subseteq d.lowered
      BY <2>1, <3>1, LoweredV6 DEF Progress
    <3> QED
      BY <3>2 DEF Database
  <2>2. CASE v > 6
    <3>1. v - 1 >= 6
      BY <2>2
    <3> QED
      BY <1>0, <2>2, <3>1 DEF Ready
  <2> QED
    BY <2>1, <2>2
<1>4. ~d.readonly
  <2>1. CASE v = 1
    BY <2>1, V1Statements DEF Progress
  <2>2. CASE v > 1
    BY <1>0, <2>2 DEF Ready
  <2> QED
    BY <2>1, <2>2
<1> QED
  BY <1>1, <1>2, <1>3, <1>4 DEF Ready

LEMMA ProgressFirst ==
  ASSUME NEW d, NEW v \in 1 .. LastVersion, v > 1 => Ready(d, v - 1)
  PROVE  Progress(d, v, 1)
  BY BeforeFirst DEF Progress, Made

-----------------------------------------------------------------------------
(* The recorded version, in every step.                                     *)

SameForVersion(e, d) ==
    /\ e.objects = d.objects /\ e.lowered = d.lowered
    /\ e.readonly <=> d.readonly

LEMMA SameReady ==
  ASSUME NEW d, NEW e, NEW v, Ready(d, v), SameForVersion(e, d)
  PROVE  Ready(e, v)
  BY DEF Ready, SameForVersion

LEMMA SameProgress ==
  ASSUME NEW d, NEW e, NEW v, NEW p, Progress(d, v, p), SameForVersion(e, d)
  PROVE  Progress(e, v, p)
  BY DEF Progress, Ready, SameForVersion

\* All uuids are filled in.
LEMMA ProgressFill ==
  ASSUME NEW d, NEW p \in {5, 7}, Progress(d, 1, p)
  PROVE  Progress(d, 1, p + 1)
<1>1. /\ 1 \in 1 .. LastVersion /\ p \in 1 .. Len(Script[1]) /\ Script[1][p].op = "fill"
      /\ ~(p + 1 >= 10)
  BY V1Statements DEF LastVersion, Stmt
<1>2. \A ops, x : x \in Before(1, p + 1, ops) <=>
                     x \in Before(1, p, ops) \/ ("fill" \in ops /\ x = Script[1][p].on)
  BY <1>1, BeforeStep
<1>3. \A x : /\ x \in Before(1, p + 1, Creates) <=> x \in Before(1, p, Creates)
             /\ x \in Before(1, p + 1, {"lower"}) <=> x \in Before(1, p, {"lower"})
  BY <1>2 DEF Creates
<1> QED
  BY <1>1, <1>3 DEF Progress, Made

\* A column that is there already is skipped, with what fills it in.
LEMMA ProgressSkip ==
  ASSUME Types, HasStatement, Statement.op = "try_add", Statement.on \in db.objects,
         Progress(db, 1, at[2])
  PROVE  Progress(db, 1, SkipTo)
<1> DEFINE p == at[2]
<1>1. at[1] = 1 /\ p \in 1 .. 10
  BY SkipFacts, StatementFacts, V1Statements
<1>2. p \in {3, 4, 6}
  <2>1. p \in {1, 2, 3, 4, 5, 6, 7, 8, 9, 10}
    BY <1>1
  <2>2. p \notin {1, 2, 5, 7, 8, 9, 10}
    BY <1>1, V1Statements DEF Statement, Stmt
  <2> QED
    BY <2>1, <2>2
<1>3. Progress(db, 1, p + 1)
  <2>1. /\ 1 \in 1 .. LastVersion /\ p \in 1 .. Len(Script[1]) /\ ~(p + 1 >= 10)
    BY <1>2, V1Statements DEF LastVersion
  <2>2. \A ops, x : x \in Before(1, p + 1, ops) <=>
                     x \in Before(1, p, ops) \/ ("try_add" \in ops /\ x = Statement.on)
    <3>1. Script[1][p].op = "try_add" /\ Script[1][p].on = Statement.on
      BY <1>1 DEF Statement
    <3> QED
      BY <2>1, <3>1, BeforeStep
  <2>3. \A x : x \in Before(1, p + 1, {"lower"}) <=> x \in Before(1, p, {"lower"})
    BY <2>2
  <2>4. \A x \in Before(1, p + 1, Creates) : x \in Before(1, p, Creates) \/ x = Statement.on
    BY <2>2
  <2> HIDE DEF p
  <2>5. Progress(db, 1, p)
    BY DEF p
  <2>6. Made(1, p + 1) \subseteq db.objects
    BY <2>4, <2>5 DEF Progress, Made
  <2> QED
    BY <2>1, <2>3, <2>5, <2>6 DEF Progress
<1>4. CASE p = 3
  <2>1. SkipTo = p + 1
    BY <1>1, <1>4, V1Statements DEF SkipTo, Statement, Stmt
  <2> QED
    BY <1>3, <2>1
<1>5. CASE p \in {4, 6}
  <2>1. SkipTo = p + 2
    BY <1>1, <1>5, V1Statements DEF SkipTo, Statement, Stmt
  <2>2. p + 1 \in {5, 7} /\ p + 2 = (p + 1) + 1
    BY <1>5
  <2> QED
    BY <1>3, <2>1, <2>2, ProgressFill
<1> QED
  BY <1>2, <1>4, <1>5

LEMMA VersionsInit == Init => Versions
<1> SUFFICES ASSUME Init, disk.meta # <<>>
             PROVE  \E v \in 1 .. LastVersion + 1 : disk.meta = <<v>> /\ Ready(disk, v)
  BY DEF Versions, Init
<1>1. disk # Fresh
  BY DEF Fresh
<1>2. PICK v \in OldVersions, x \in SUBSET Conflicts, late \in SUBSET LateColumns, ro \in BOOLEAN :
               /\ v > 0 => ~ro
               /\ disk = Filled(v, OldObjects(v, late), origin, x, ro)
  BY <1>1, InitialDisk
<1>3. /\ disk.objects = OldObjects(v, late) /\ disk.meta = (IF v = 0 THEN <<>> ELSE <<v>>)
      /\ disk.lowered = (IF v >= 6 THEN LowerCase ELSE {})
      /\ disk.readonly = ro
  BY <1>2 DEF Filled
<1>4. v \in 1 .. LastVersion + 1 /\ disk.meta = <<v>> /\ disk.objects = ObjectsAt(v) /\ ~disk.readonly
  <2>1. v \in Nat /\ v <= LastVersion + 1 /\ v # 0
    BY <1>3, OldObjectsFacts
  <2> QED
    BY <1>2, <1>3, <2>1 DEF OldObjects
<1>5. v >= 5 => disk.objects \cap Names \subseteq {"display_name"}
  BY <1>4, ObjectsAtMember
<1>6. Ready(disk, v)
  BY <1>3, <1>4, <1>5 DEF Ready, Lasting
<1> QED
  BY <1>4, <1>6

LEMMA NoErrorYet ==
  ASSUME Types, [Next]_vars, errors' = 0
  PROVE  errors = 0 /\ ~VersionUnread /\ ~ErrorIgnored
<1>1. errors \in Nat
  BY DEF Types
<1>2. errors' = errors \/ errors' = errors + 1
  BY DEF Next, Starting, Running, StartFromVersion, StartWithoutVersion, Execute, FillDone,
         ColumnExists, StatementRefused, Commit, AssertVersion, FillUuid, VersionUnread,
         ErrorIgnored, Kill, Stop, RemoveConflict, vars
<1>3. VersionUnread \/ ErrorIgnored => errors' = errors + 1
  BY DEF VersionUnread, ErrorIgnored
<1> QED
  BY <1>1, <1>2, <1>3

\* A migration is committed after its last statement, and records its version.
LEMMA CommitPlace ==
  ASSUME Types, Commit
  PROVE  /\ pc = "running" /\ at[2] = Len(Script[at[1]]) + 1 /\ at[1] \in 1 .. LastVersion
<1> DEFINE L == Len(Script[at[1]])
<1>1. at[1] \in 1 .. LastVersion /\ at[2] \in 1 .. 15
  BY DEF Types
<1>2. L \in Nat /\ at[2] > L /\ pc = "running"
  BY <1>1, ScriptLengths DEF Commit
<1>3. at[2] <= L + 1
  BY <1>2 DEF Types
<1> HIDE DEF L
<1>4. at[2] = L + 1
  BY <1>1, <1>2, <1>3
<1> QED
  BY <1>1, <1>2, <1>4 DEF L

LEMMA CommitVersion ==
  ASSUME Versions, errors = 0, pc = "running"
  PROVE  NewVersion(at[1]) = <<at[1]>>
<1>1. db.meta = (IF at[1] = 1 THEN <<>> ELSE <<at[1] - 1>>)
  BY DEF Versions
<1>2. CASE at[1] = 1
  <2>1. Append(<<>>, 1) = <<1>>
    OBVIOUS
  <2> QED
    BY <1>1, <1>2, <2>1 DEF NewVersion
<1>3. CASE at[1] # 1
  BY <1>1, <1>3 DEF NewVersion
<1> QED
  BY <1>2, <1>3

LEMMA VersionsNext == Types /\ Versions /\ [Next]_vars => Versions'
<1> SUFFICES ASSUME Types, Versions, [Next]_vars, errors' = 0 PROVE Versions'
  BY DEF Versions
<1>0. errors = 0 /\ ~VersionUnread /\ ~ErrorIgnored
  BY NoErrorYet
<1>1. /\ disk.meta # <<>> => \E v \in 1 .. LastVersion + 1 : disk.meta = <<v>> /\ Ready(disk, v)
      /\ pc = "running" =>
              /\ disk.meta = (IF at[1] = 1 THEN <<>> ELSE <<at[1] - 1>>)
              /\ db.meta = disk.meta
              /\ Progress(db, at[1], at[2])
      /\ pc = "asserting" => disk.meta = <<1>>
      /\ disk \in Database /\ db \in Database
      /\ pc # "running" \/ at[1] = 1 => db = disk
      /\ at[1] \in 1 .. LastVersion /\ at[2] \in 1 .. 15
  BY <1>0 DEF Versions, Types
\* The version that is found is the one that is recorded.
<1>2. ASSUME NEW v \in Range(disk.meta)
      PROVE  v \in 1 .. LastVersion + 1 /\ disk.meta = <<v>> /\ Ready(disk, v)
  <2>1. disk.meta # <<>>
    BY <1>2 DEF Range
  <2>2. PICK w \in 1 .. LastVersion + 1 : disk.meta = <<w>> /\ Ready(disk, w)
    BY <1>1, <2>1
  <2>3. v = w
    BY <1>2, <2>2 DEF Range
  <2> QED
    BY <2>2, <2>3
<1>3. ASSUME disk' = disk, pc' \notin {"running", "asserting"}
      PROVE  Versions'
  BY <1>1, <1>3 DEF Versions
\* A migration begins.
<1>4. ASSUME NEW v \in 1 .. LastVersion, Migrate(v), disk' = db',
             v = 1 => disk'.meta = <<>>, v > 1 => disk'.meta = <<v - 1>> /\ Ready(db', v - 1)
      PROVE  Versions'
  <2>1. at'[1] = v /\ at'[2] = 1 /\ pc' = "running"
    BY <1>4 DEF Migrate
  <2>2. Progress(db', v, 1)
    BY <1>4, ProgressFirst
  <2>3. v > 1 => v - 1 \in 1 .. LastVersion + 1
    BY DEF LastVersion
  <2> QED
    BY <1>4, <2>1, <2>2, <2>3 DEF Versions
\* A migration goes on.
<1>5. ASSUME pc = "running", pc' = "running", at'[1] = at[1], db'.meta = db.meta,
             Progress(db', at[1], at'[2]), disk' \in {disk, db'}
      PROVE  Versions'
  <2>1. disk'.meta = disk.meta
    BY <1>1, <1>5
  <2>2. disk'.meta # <<>> =>
            \E v \in 1 .. LastVersion + 1 : disk'.meta = <<v>> /\ Ready(disk', v)
    <3>1. CASE disk' = disk
      BY <1>1, <3>1
    <3>2. CASE disk' = db' /\ at[1] = 1
      BY <1>1, <1>5, <2>1, <3>2
    <3>3. CASE disk' = db' /\ at[1] # 1
      <4>1. at[1] > 1 /\ at[1] - 1 \in 1 .. LastVersion + 1
        BY <1>1, <3>3 DEF LastVersion
      <4>2. Ready(db', at[1] - 1)
        BY <1>5, <4>1 DEF Progress
      <4>3. disk'.meta = <<at[1] - 1>>
        BY <1>1, <1>5, <2>1, <3>3
      <4> QED
        BY <3>3, <4>1, <4>2, <4>3
    <3> QED
      BY <1>5, <3>1, <3>2, <3>3
  <2> QED
    BY <1>1, <1>5, <2>1, <2>2 DEF Versions
<1>6. CASE StartFromVersion
  <2>1. PICK v \in Range(disk.meta) :
          \/ v < LastVersion /\ Migrate(v + 1)
          \/ v = LastVersion /\ pc' = "serving" /\ UNCHANGED at
          \/ v > LastVersion /\ UNCHANGED <<pc, at>>
    BY <1>6 DEF StartFromVersion
  <2>2. v \in 1 .. LastVersion + 1 /\ disk.meta = <<v>> /\ Ready(disk, v)
    BY <1>2
  <2>3. pc = "down" /\ UNCHANGED <<disk, db>> /\ db = disk
    BY <1>1, <1>6 DEF StartFromVersion
  <2>4. CASE v < LastVersion /\ Migrate(v + 1)
    <3>1. v + 1 \in 1 .. LastVersion /\ v + 1 > 1 /\ (v + 1) - 1 = v
      BY <2>2, <2>4 DEF LastVersion
    <3>2. disk'.meta = <<(v + 1) - 1>> /\ Ready(db', (v + 1) - 1)
      BY <2>2, <2>3, <3>1
    <3> QED
      BY <1>4, <2>3, <2>4, <3>1, <3>2
  <2> QED
    BY <1>3, <2>1, <2>3, <2>4
<1>7. CASE StartWithoutVersion
  <2>1. 1 \in 1 .. LastVersion /\ ~(1 > 1)
    BY DEF LastVersion
  <2>2. Migrate(1) /\ disk' = db' /\ disk'.meta = <<>>
    BY <1>1, <1>7 DEF StartWithoutVersion
  <2> QED
    BY <1>4, <2>1, <2>2
<1>8. CASE Execute
  <2> DEFINE e == Executed(db, Statement)
             v == at[1]
             p == at[2]
  <2>1. /\ HasStatement /\ Statement.op # "fill" /\ Write(e, Statement)
        /\ at' = <<v, p + 1>> /\ pc' = pc /\ pc = "running"
    BY <1>8 DEF Execute, HasStatement
  <2>2. /\ v \in 1 .. LastVersion /\ p \in 1 .. Len(Script[v]) /\ Statement = Script[v][p]
        /\ WellFormed(Statement)
    BY <2>1, StatementFacts DEF Statement
  <2>3. Progress(e, v, p + 1)
    <3>1. Progress(db, v, p)
      BY <1>1, <2>1
    <3> HIDE DEF v, p
    <3> QED
      BY <1>1, <2>1, <2>2, <3>1, ProgressStep
  <2>4. SameRest(e, db)
    BY <1>1, <2>1, <2>2, Effect
  <2>5. db' = e /\ disk' \in {disk, e} /\ at'[1] = v /\ at'[2] = p + 1
    BY <2>1 DEF Write
  <2> HIDE DEF e
  <2> QED
    BY <1>5, <2>1, <2>3, <2>4, <2>5 DEF SameRest
<1>9. ASSUME NEW r \in Users \cup Groups, FillUuid(r)
      PROVE  Versions'
  <2>1. /\ HasStatement /\ Statement.op = "fill" /\ at' = at /\ pc' = pc /\ pc = "running"
        /\ Write([db EXCEPT !.blank = @ \ {r}], Statement)
    BY <1>9 DEF FillUuid, HasStatement
  <2>2. SameForVersion(db', db) /\ db'.meta = db.meta /\ disk' \in {disk, db'}
    BY <1>1, <2>1 DEF Write, Database, SameForVersion
  <2>3. Progress(db', at[1], at[2])
    BY <1>1, <2>1, <2>2, SameProgress
  <2> QED
    BY <1>5, <2>1, <2>2, <2>3
<1>10. CASE FillDone
  <2>1. /\ HasStatement /\ Statement.op = "fill" /\ UNCHANGED <<disk, db, pc>> /\ pc = "running"
        /\ at' = <<at[1], at[2] + 1>>
    BY <1>10 DEF FillDone, HasStatement
  <2>2. at[1] = 1 /\ at[2] \in {5, 7}
    BY <2>1, FillStatements
  <2>3. Progress(db, at[1], at[2] + 1)
    BY <1>1, <2>1, <2>2, ProgressFill
  <2> QED
    BY <1>5, <2>1, <2>3
<1>11. CASE ColumnExists
  <2>1. /\ HasStatement /\ Statement.op = "try_add" /\ UNCHANGED <<disk, db, pc>> /\ pc = "running"
        /\ at' = <<at[1], SkipTo>> /\ Refused(db, Statement)
    BY <1>11 DEF ColumnExists, HasStatement
  <2>2. Statement.on \in db.objects
    BY <2>1 DEF Refused
  <2>3. at[1] = 1
    BY <2>1, SkipFacts
  <2>4. Progress(db, at[1], SkipTo)
    BY <1>1, <2>1, <2>2, <2>3, ProgressSkip
  <2>5. at'[1] = at[1] /\ at'[2] = SkipTo
    BY <2>1
  <2> QED
    BY <1>5, <2>1, <2>4, <2>5
<1>12. CASE StatementRefused \/ Kill \/ Stop
  BY <1>3, <1>12 DEF StatementRefused, Kill, Stop, Down
<1>13. CASE Commit
  <2> DEFINE v == at[1]
             m == NewVersion(v)
  <2>1. pc = "running" /\ at[2] = Len(Script[v]) + 1 /\ v \in 1 .. LastVersion
    BY <1>13, CommitPlace
  <2>2. Ready(db, v)
    BY <1>1, <2>1, ProgressDone
  <2>3. m = <<v>>
    BY <1>0, <2>1, CommitVersion
  <2>4. db' = [db EXCEPT !.meta = m] /\ disk' = db'
    BY <1>13 DEF Commit
  <2> HIDE DEF m
  <2>5. db'.meta = <<v>> /\ SameForVersion(db', db)
    BY <1>1, <2>3, <2>4 DEF Database, SameForVersion
  <2>6. Ready(db', v)
    BY <2>2, <2>5, SameReady
  <2>7. v \in 1 .. LastVersion + 1
    BY <2>1 DEF LastVersion
  <2>8. CASE v = 1 /\ pc' = "asserting"
    BY <2>4, <2>5, <2>6, <2>7, <2>8 DEF Versions
  <2>9. CASE pc' = "serving"
    BY <2>4, <2>5, <2>6, <2>7, <2>9 DEF Versions
  <2>10. CASE v \in 2 .. LastVersion - 1 /\ Migrate(v + 1)
    <3>1. v + 1 \in 1 .. LastVersion /\ v + 1 > 1 /\ v + 1 # 1 /\ (v + 1) - 1 = v
      BY <2>10 DEF LastVersion
    <3>2. disk'.meta = <<(v + 1) - 1>> /\ Ready(db', (v + 1) - 1)
      BY <2>4, <2>5, <2>6, <3>1
    <3> QED
      BY <1>4, <2>4, <2>10, <3>1, <3>2
  <2> QED
    BY <1>13, <2>8, <2>9, <2>10 DEF Commit
<1>14. CASE AssertVersion
  <2>1. 2 \in 1 .. LastVersion /\ 2 > 1 /\ 2 - 1 = 1 /\ 2 # 1
    BY DEF LastVersion
  <2>2. PICK v \in Range(disk.meta) :
          \/ v = 1 /\ Migrate(2) /\ UNCHANGED db
          \/ v # 1 /\ Down
    BY <1>14 DEF AssertVersion
  <2>3. disk' = disk /\ pc = "asserting" /\ db = disk
    BY <1>1, <1>14 DEF AssertVersion
  <2>4. disk.meta = <<v>> /\ Ready(disk, v)
    BY <1>2
  <2>5. CASE v = 1 /\ Migrate(2) /\ UNCHANGED db
    <3>1. disk'.meta = <<2 - 1>> /\ Ready(db', 2 - 1) /\ disk' = db'
      BY <2>1, <2>3, <2>4, <2>5
    <3> QED
      BY <1>4, <2>1, <2>5, <3>1
  <2>6. CASE Down
    BY <1>3, <2>3, <2>6 DEF Down
  <2> QED
    BY <2>2, <2>5, <2>6
<1>15. ASSUME NEW x \in Conflicts, RemoveConflict(x)
       PROVE  Versions'
  <2>1. SameForVersion(disk', disk) /\ disk'.meta = disk.meta /\ pc' = "down"
    BY <1>1, <1>15 DEF RemoveConflict, Database, SameForVersion
  <2>2. \A v : Ready(disk, v) => Ready(disk', v)
    BY <2>1, SameReady
  <2> QED
    BY <1>1, <2>1, <2>2 DEF Versions
<1>16. CASE UNCHANGED vars
  BY <1>16 DEF vars, Versions
<1> QED
  BY <1>0, <1>6, <1>7, <1>8, <1>9, <1>10, <1>11, <1>12, <1>13, <1>14, <1>15, <1>16
     DEF Next, Starting, Running

-----------------------------------------------------------------------------
(* The exact tables, with transactional DDL.                                *)

LEMMA ObjectsAtV1 == ObjectsAt(1) = NewIn[1]
<1>1. \A k \in 1 .. LastVersion : k <= 1 <=> k = 1
  OBVIOUS
<1>2. 1 \in 1 .. LastVersion /\ ~(1 >= 5)
  BY DEF LastVersion
<1>3. \A x : x \in ObjectsAt(1) <=> x \in NewIn[1]
  BY <1>1, <1>2, ObjectsAtMember
<1> QED
  BY <1>3

\* What a creating statement creates belongs to the version.
LEMMA CreatingNew ==
  ASSUME NEW v \in 1 .. LastVersion, NEW p \in 1 .. Len(Script[v]), v \notin {2, 3},
         Script[v][p].op \in Creates
  PROVE  Script[v][p].on \in NewIn[v]
<1>0. v \in {1, 4, 5, 6, 7, 8, 9, 10}
  BY ScriptLengths
<1>1. CASE v = 1
  <2>0. Len(Script[1]) = 10
    BY V1Statements
  <2>1. p \in {1, 2, 3, 4, 5, 6, 7, 8, 9, 10}
    BY <1>1, <2>0
  <2>2. p \notin {5, 7, 9}
    BY <1>1, V1Statements DEF Stmt, Creates
  <2>3. Script[v][p].on \in {"users", "groups", "memberships", "metadata", "users.uuid",
                             "groups.uuid", "groups.creation_date"}
    BY <1>1, <2>1, <2>2, V1Statements DEF Stmt
  <2> QED
    BY <1>1, <2>3, NewInV1
<1>2. CASE v = 4
  <2>1. p \in {1, 2, 3}
    BY <1>2, V4Statements
  <2> QED
    BY <1>2, <2>1, V4Statements DEF Stmt, NewIn
<1>3. CASE v = 5
  <2>0. Len(Script[5]) = 9
    BY V5Statements
  <2>1. p \in {1, 2, 3, 4, 5, 6, 7, 8, 9}
    BY <1>3, <2>0
  <2>2. p \notin {6, 7, 8, 9}
    BY <1>3, V5Operations DEF Creates
  <2>3. Script[5][p].on \in {"user_attribute_schema", "group_attribute_schema",
                    "user_attributes", "group_attributes", "hardcoded_attributes"}
    BY <2>1, <2>2, V5Statements DEF Stmt
  <2> QED
    BY <1>3, <2>3 DEF NewIn
<1>4. CASE v = 6
  <2>1. p \in {1, 2, 3, 4}
    BY <1>4, V6Statements
  <2> QED
    BY <1>4, <2>1, V6Statements DEF Stmt, NewIn, Creates
<1>5. CASE v = 7
  <2>1. p \in {1, 2}
    BY <1>5, LateStatements
  <2> QED
    BY <1>5, <2>1, LateStatements DEF Stmt, NewIn
<1>6. CASE v = 8
  <2>1. p \in {1, 2}
    BY <1>6, LateStatements
  <2> QED
    BY <1>6, <2>1, LateStatements DEF Stmt, NewIn, Creates
<1>7. CASE v = 9
  <2>1. p \in {1, 2}
    BY <1>7, LateStatements
  <2> QED
    BY <1>7, <2>1, LateStatements DEF Stmt, NewIn
<1>8. CASE v = 10
  <2>1. p \in {1, 2}
    BY <1>8, LateStatements
  <2> QED
    BY <1>8, <2>1, LateStatements DEF Stmt, NewIn
<1> QED
  BY <1>0, <1>1, <1>2, <1>3, <1>4, <1>5, <1>6, <1>7, <1>8

\* No columns are dropped before the end of the fifth migration, nor after it.
LEMMA NoDrops ==
  ASSUME NEW v \in 1 .. LastVersion, NEW p \in 1 .. Len(Script[v]) + 1, v \notin {2, 3},
         v = 5 => p <= 7
  PROVE  Before(v, p, {"drop"}) = {}
<1>1. CASE v = 5
  <2>1. p \in 1 .. 7
    BY <1>1
  <2> QED
    BY <1>1, <2>1, DroppedV5
<1>2. CASE v # 5
  <2> SUFFICES ASSUME NEW x \in Before(v, p, {"drop"}) PROVE FALSE
    OBVIOUS
  <2>1. PICK j \in 1 .. Len(Script[v]) : Script[v][j].op = "drop"
    BY BeforeMember
  <2>2. \A op, y : Stmt(op, y).op = op
    BY DEF Stmt
  <2>3. ~Creating(Script[v][j])
    BY <2>1, <2>2 DEF Creating, Creates
  <2> QED
    BY <1>2, <2>1, <2>2, <2>3, StatementKinds
<1> QED
  BY <1>1, <1>2

LEMMA DropsV5 == Before(5, 10, {"drop"}) = Names \ {"display_name"}
<1>0. Len(Script[5]) = 9
  BY V5Statements
<1>1. ASSUME NEW x \in Before(5, 10, {"drop"})
      PROVE  x \in {"first_name", "last_name", "avatar"}
  <2>1. PICK j \in 1 .. 9 : Script[5][j].op = "drop" /\ x = Script[5][j].on
    BY <1>0, BeforeMember
  <2>2. j \in {1, 2, 3, 4, 5, 6, 7, 8, 9}
    OBVIOUS
  <2>3. j \in {7, 8, 9}
    BY <2>1, <2>2, V5Operations
  <2> QED
    BY <2>1, <2>3, V5Statements DEF Stmt
<1> QED
  BY <1>1, DroppedV5 DEF Names

\* From the second migration on, a created object comes without columns.
LEMMA CreatedAlone ==
  ASSUME NEW d, NEW s, s.op \in Creates, {"users", "groups"} \subseteq d.objects
  PROVE  NewObjects(d, s) = d.objects \cup {s.on}
<1>1. s.on \notin {"users", "groups"} => ColumnsOf(s.on) = {}
  BY DEF ColumnsOf
<1>2. NewObjects(d, s) = ObjectsAfter(d, s.op, s.on)
  BY DEF NewObjects
<1> QED
  BY <1>1, <1>2 DEF ObjectsAfter

LEMMA TablesAt ==
  ASSUME NEW v \in Nat, v >= 1
  PROVE  /\ {"users", "groups"} \subseteq ObjectsAt(v)
         /\ v < 5 => Names \subseteq ObjectsAt(v)
         /\ TempName \notin ObjectsAt(v)
<1>1. 1 \in 1 .. LastVersion /\ 1 <= v
  BY DEF LastVersion
<1>2. {"users", "groups"} \cup Names \subseteq NewIn[1]
  BY NewInV1
<1>3. "users" \notin Names /\ "groups" \notin Names
  BY DEF Names
<1>4. TempName \notin ObjectsAt(v)
  BY ObjectsTyped
<1>5. {"users", "groups"} \subseteq ObjectsAt(v)
  BY <1>1, <1>2, <1>3, ObjectsAtMember
<1>6. v < 5 => Names \subseteq ObjectsAt(v)
  BY <1>1, <1>2, ObjectsAtMember
<1> QED
  BY <1>4, <1>5, <1>6

LEMMA ReplaceStep ==
  ASSUME NEW d, NEW v \in {2, 3}, NEW p \in 1 .. Len(Script[v]), d.objects = ObjectsBefore(v, p)
  PROVE  NewObjects(d, Script[v][p]) = ObjectsBefore(v, p + 1)
<1> DEFINE O == ObjectsAt(v - 1)
           c == Replaced(v, p)
           s == Script[v][p]
<1>1. Names \subseteq O /\ TempName \notin O
  <2>1. v - 1 \in Nat /\ v - 1 >= 1 /\ v - 1 < 5
    OBVIOUS
  <2> QED
    BY <2>1, TablesAt
<1>2. c \in Names
  BY DEF Replaced, Names
<1>3. /\ v = 2 => p \in {1, 2, 3, 4, 5}
      /\ v = 3 => p \in {1, 2, 3, 4, 5, 6, 7, 8, 9, 10, 11, 12, 13, 14}
  <2>1. Len(Script[2]) = 5 /\ Len(Script[3]) = 14
    BY V2Statements, V3Statements
  <2>2. v = 2 => p \in 1 .. 5
    BY <2>1
  <2>3. v = 3 => p \in 1 .. 14
    BY <2>1
  <2> HIDE DEF O, c, s
  <2>4. v = 2 => p \in {1, 2, 3, 4, 5}
    BY <2>2
  <2>5. v = 3 => p \in {1, 2, 3, 4, 5, 6, 7, 8, 9, 10, 11, 12, 13, 14}
    BY <2>3
  <2> QED
    BY <2>4, <2>5
<1>4. CASE p \in {1, 6, 11}
  <2>1. s = Stmt("rename", c) /\ c = Replaced(v, p + 1)
    <3>1. CASE v = 2
      BY <1>3, <1>4, <3>1, V2Statements DEF Replaced
    <3>2. CASE v = 3
      BY <1>3, <1>4, <3>2, V3Statements DEF Replaced
    <3> QED
      BY <3>1, <3>2
  <2>2. d.objects = O /\ ObjectsBefore(v, p + 1) = (O \ {c}) \cup {TempName}
    BY <1>4, <2>1 DEF ObjectsBefore
  <2>3. NewObjects(d, s) = (d.objects \ {c}) \cup {TempName}
    BY <2>1 DEF NewObjects, Creates, Stmt
  <2> QED
    BY <2>2, <2>3
<1>5. CASE p \in {2, 7, 12}
  <2>1. s = Stmt("add", c)
    <3>1. CASE v = 2
      BY <1>3, <1>5, <3>1, V2Statements DEF Replaced
    <3>2. CASE v = 3
      BY <1>3, <1>5, <3>2, V3Statements DEF Replaced
    <3> QED
      BY <3>1, <3>2
  <2>2. d.objects = (O \ {c}) \cup {TempName} /\ ObjectsBefore(v, p + 1) = O \cup {TempName}
    BY <1>5 DEF ObjectsBefore
  <2>3. NewObjects(d, s) = d.objects \cup {c}
    BY <2>1 DEF NewObjects, Creates, Stmt, ObjectsAfter
  <2> HIDE DEF O, c, s
  <2>4. NewObjects(d, s) = ObjectsBefore(v, p + 1)
    BY <1>1, <1>2, <2>2, <2>3
  <2> QED
    BY <2>4 DEF s
<1>6. CASE p \in {3, 8, 13} \/ p \in {4, 9}
  <2>1. s.op \in {"copy", "empty_to_null"}
    <3>1. CASE v = 2
      BY <1>3, <1>6, <3>1, V2Statements DEF Stmt
    <3>2. CASE v = 3
      BY <1>3, <1>6, <3>2, V3Statements DEF Stmt
    <3> QED
      BY <3>1, <3>2
  <2>2. ObjectsBefore(v, p + 1) = O \cup {TempName} /\ d.objects = O \cup {TempName}
    BY <1>6 DEF ObjectsBefore
  <2>3. NewObjects(d, s) = d.objects
    BY <2>1 DEF NewObjects, Creates
  <2> QED
    BY <2>2, <2>3
<1>7. CASE p \in {5, 10, 14}
  <2>1. s = Stmt("drop", TempName)
    <3>1. CASE v = 2
      BY <1>3, <1>7, <3>1, V2Statements
    <3>2. CASE v = 3
      BY <1>3, <1>7, <3>2, V3Statements
    <3> QED
      BY <3>1, <3>2
  <2>2. ObjectsBefore(v, p + 1) = O /\ d.objects = O \cup {TempName}
    BY <1>7 DEF ObjectsBefore
  <2>3. NewObjects(d, s) = d.objects \ {TempName}
    BY <2>1 DEF NewObjects, Creates, Stmt
  <2> HIDE DEF O, c, s
  <2>4. NewObjects(d, s) = ObjectsBefore(v, p + 1)
    BY <1>1, <2>2, <2>3
  <2> QED
    BY <2>4 DEF s
<1> QED
  BY <1>3, <1>4, <1>5, <1>6, <1>7

LEMMA ObjectsStep ==
  ASSUME NEW d, NEW v \in 2 .. LastVersion, NEW p \in 1 .. Len(Script[v]),
         Script[v][p].op # "fill", d.objects = ObjectsBefore(v, p)
  PROVE  NewObjects(d, Script[v][p]) = ObjectsBefore(v, p + 1)
<1> DEFINE O == ObjectsAt(v - 1)
           s == Script[v][p]
           B(q) == Before(v, q, {"drop"})
<1>0. v \in 1 .. LastVersion
  OBVIOUS
<1>1. CASE v \in {2, 3}
  BY <1>1, ReplaceStep
<1>2. CASE v \notin {2, 3}
  <2>1. /\ d.objects = (O \cup Made(v, p)) \ B(p)
        /\ ObjectsBefore(v, p + 1) = (O \cup Made(v, p + 1)) \ B(p + 1)
    BY <1>2 DEF ObjectsBefore
  <2>2. \A ops, x : x \in Before(v, p + 1, ops) <=>
                     x \in Before(v, p, ops) \/ (s.op \in ops /\ x = s.on)
    BY <1>0, BeforeStep
  <2>3. \A x : x \in B(p + 1) <=> x \in B(p) \/ (s.op = "drop" /\ x = s.on)
    BY <2>2
  <2>4. CASE Creating(s) /\ ~(v = 5 /\ p > 5)
    <3>1. PICK op \in Creates, y \in Object \ (Names \cup {TempName}) : s = Stmt(op, y)
      BY <2>4 DEF Creating
    <3>2. s.op \in Creates /\ s.on \notin Names \cup {TempName} /\ s.op # "drop"
      BY <3>1 DEF Stmt, Creates
    <3>3. B(p) = {} /\ B(p + 1) = {}
      <4>1. Len(Script[v]) \in Nat
        BY <1>0, ScriptLengths
      <4>2. /\ p \in 1 .. Len(Script[v]) + 1 /\ p + 1 \in 1 .. Len(Script[v]) + 1
            /\ v = 5 => p <= 7 /\ p + 1 <= 7
        BY <2>4, <4>1
      <4> QED
        BY <1>0, <1>2, <4>2, NoDrops
    <3>4. {"users", "groups"} \subseteq d.objects
      <4>1. v - 1 \in Nat /\ v - 1 >= 1
        OBVIOUS
      <4> QED
        BY <2>1, <3>3, <4>1, TablesAt
    <3>5. NewObjects(d, s) = d.objects \cup {s.on}
      BY <3>2, <3>4, CreatedAlone
    <3>6. Made(v, p + 1) = Made(v, p) \cup {s.on}
      BY <2>2, <3>2 DEF Made
    <3> HIDE DEF O, s, B
    <3>7. NewObjects(d, s) = ObjectsBefore(v, p + 1)
      BY <2>1, <3>3, <3>5, <3>6
    <3> QED
      BY <3>7 DEF s
  <2>5. CASE s.op \notin Creates /\ s.op \notin {"rename", "drop"}
    <3>1. NewObjects(d, s) = d.objects
      BY <2>5 DEF NewObjects
    <3>2. Made(v, p + 1) = Made(v, p) /\ B(p + 1) = B(p)
      BY <2>2, <2>3, <2>5 DEF Made
    <3> QED
      BY <2>1, <3>1, <3>2
  <2>6. CASE s.op = "drop"
    <3>1. NewObjects(d, s) = d.objects \ {s.on} /\ s.op \notin Creates
      BY <2>6 DEF NewObjects, Creates
    <3>2. Made(v, p + 1) = Made(v, p)
      BY <2>2, <3>1 DEF Made
    <3>3. B(p + 1) = B(p) \cup {s.on}
      BY <2>3, <2>6
    <3> HIDE DEF O, s, B
    <3>4. NewObjects(d, s) = ObjectsBefore(v, p + 1)
      BY <2>1, <3>1, <3>2, <3>3
    <3> QED
      BY <3>4 DEF s
  <2>7. \/ Creating(s) /\ ~(v = 5 /\ p > 5)
        \/ s.op \notin Creates /\ s.op \notin {"rename", "drop"}
        \/ s.op = "drop"
    <3>1. \A op, x : Stmt(op, x).op = op
      BY DEF Stmt
    <3>2. CASE v = 5 /\ p \in 6 .. 9
      <4>1. p \in {6, 7, 8, 9}
        BY <3>2
      <4> QED
        BY <3>2, <4>1, V5Operations DEF Creates
    <3>3. CASE \E op \in {"lower", "deduplicate", "try_rename_group"},
                  x \in LowerCase \cup {"memberships", "lldap_readonly"} : s = Stmt(op, x)
      BY <3>1, <3>3 DEF Creates
    <3> QED
      BY <1>0, <1>2, <3>2, <3>3, StatementKinds
  <2> QED
    BY <2>4, <2>5, <2>6, <2>7
<1> QED
  BY <1>1, <1>2

\* At the end of a migration, the tables are those of its version.
LEMMA ObjectsDone ==
  ASSUME NEW v \in 2 .. LastVersion
  PROVE  ObjectsBefore(v, Len(Script[v]) + 1) = ObjectsAt(v)
<1> DEFINE q == Len(Script[v]) + 1
<1>0. v \in 1 .. LastVersion /\ v \in Nat /\ v - 1 \in Nat
  OBVIOUS
<1>1. \A k \in 1 .. LastVersion : k <= v <=> k <= v - 1 \/ k = v
  OBVIOUS
<1>2. CASE v \in {2, 3}
  <2>0. (v = 2 /\ q = 6) \/ (v = 3 /\ q = 15)
    <3>1. Len(Script[2]) = 5 /\ Len(Script[3]) = 14
      BY V2Statements, V3Statements
    <3> DEFINE L == Len(Script[v])
    <3>2. v = 2 => L = 5
      BY <3>1
    <3>3. v = 3 => L = 14
      BY <3>1
    <3>4. q = L + 1
      OBVIOUS
    <3> HIDE DEF L, q
    <3>5. v = 2 => q = 6
      BY <3>2, <3>4
    <3>6. v = 3 => q = 15
      BY <3>3, <3>4
    <3> QED
      BY <1>2, <3>5, <3>6
  <2>1. ObjectsBefore(v, q) = ObjectsAt(v - 1)
    BY <2>0 DEF ObjectsBefore
  <2>2. NewIn[v] = {} /\ ~(v >= 5) /\ ~(v - 1 >= 5)
    BY <1>2 DEF NewIn
  <2>3. \A x : x \in ObjectsAt(v) <=> x \in ObjectsAt(v - 1)
    BY <1>0, <1>1, <2>2, ObjectsAtMember
  <2> QED
    BY <2>1, <2>3
<1>3. CASE v \notin {2, 3}
  <2>1. ObjectsBefore(v, q) = (ObjectsAt(v - 1) \cup Made(v, q)) \ Before(v, q, {"drop"})
    BY <1>3 DEF ObjectsBefore
  <2>2. Made(v, q) \subseteq NewIn[v]
    <3> SUFFICES ASSUME NEW x \in Made(v, q) PROVE x \in NewIn[v]
      OBVIOUS
    <3>1. PICK j \in 1 .. Len(Script[v]) : Script[v][j].op \in Creates /\ x = Script[v][j].on
      BY BeforeMember DEF Made
    <3> QED
      BY <1>0, <1>3, <3>1, CreatingNew
  <2>3. NewIn[v] \subseteq Made(v, q)
    BY MadeLater
  <2>4. NewIn[v] \cap Names = {}
    BY <2>3 DEF Made
  <2>5. Before(v, q, {"drop"}) = IF v = 5 THEN Names \ {"display_name"} ELSE {}
    <3>1. CASE v = 5
      <4>1. q = 10
        BY <3>1, V5Statements
      <4> QED
        BY <3>1, <4>1, DropsV5
    <3>2. CASE v # 5
      <4>1. Len(Script[v]) \in Nat
        BY <1>0, ScriptLengths
      <4>2. q \in 1 .. Len(Script[v]) + 1
        BY <4>1
      <4> QED
        BY <1>0, <1>3, <3>2, <4>2, NoDrops
    <3> QED
      BY <3>1, <3>2
  <2>6. ASSUME NEW x
        PROVE  x \in ObjectsBefore(v, q) <=> x \in ObjectsAt(v)
    <3>1. x \in ObjectsAt(v) <=>
             /\ (\E k \in 1 .. LastVersion : k <= v - 1 /\ x \in NewIn[k]) \/ x \in NewIn[v]
             /\ v >= 5 => x \notin Names \ {"display_name"}
      BY <1>0, <1>1, ObjectsAtMember
    <3>2. x \in ObjectsAt(v - 1) <=>
             /\ \E k \in 1 .. LastVersion : k <= v - 1 /\ x \in NewIn[k]
             /\ v - 1 >= 5 => x \notin Names \ {"display_name"}
      BY <1>0, ObjectsAtMember
    <3> DEFINE P == \E k \in 1 .. LastVersion : k <= v - 1 /\ x \in NewIn[k]
    <3> HIDE DEF q, P
    <3>3. x \in ObjectsBefore(v, q) <=>
            /\ x \in ObjectsAt(v - 1) \/ x \in NewIn[v]
            /\ v = 5 => x \notin Names \ {"display_name"}
      BY <2>1, <2>2, <2>3, <2>5
    <3>4. CASE v < 5
      BY <3>1, <3>2, <3>3, <3>4 DEF P
    <3>5. CASE v = 5
      BY <3>1, <3>2, <3>3, <3>5 DEF P
    <3>6. CASE v > 5
      <4>1. v >= 5 /\ v - 1 >= 5 /\ v # 5
        BY <3>6
      <4> QED
        BY <2>4, <3>1, <3>2, <3>3, <4>1 DEF P
    <3> QED
      BY <3>4, <3>5, <3>6
  <2> QED
    BY <2>6
<1> QED
  BY <1>2, <1>3

LEMMA ObjectsFirst ==
  ASSUME NEW v \in 2 .. LastVersion
  PROVE  ObjectsBefore(v, 1) = ObjectsAt(v - 1)
<1>1. v \in 1 .. LastVersion
  OBVIOUS
<1>2. Before(v, 1, Creates) = {} /\ Before(v, 1, {"drop"}) = {}
  BY <1>1, BeforeFirst
<1> QED
  BY <1>2 DEF ObjectsBefore, Made

-----------------------------------------------------------------------------
(* The exact tables, in every step.                                         *)

\* Without a version: a part of the first one, and the names come with "users".
Partial(d) ==
    /\ d.objects \subseteq ObjectsAt(1)
    /\ "users" \in d.objects => Names \subseteq d.objects

\* A statement of the first migration.
LEMMA PartialStep ==
  ASSUME NEW d, NEW p \in 1 .. Len(Script[1]), Script[1][p].op # "fill", Partial(d)
  PROVE  LET S == NewObjects(d, Script[1][p])
         IN  /\ d.objects \subseteq S /\ S \subseteq ObjectsAt(1)
             /\ "users" \in S => Names \subseteq S
<1> DEFINE s == Script[1][p]
           S == NewObjects(d, s)
<1> SUFFICES d.objects \subseteq S /\ S \subseteq ObjectsAt(1) /\ ("users" \in S => Names \subseteq S)
  OBVIOUS
<1>0. 1 \in 1 .. LastVersion /\ 1 \notin {2, 3} /\ 1 # 5
  BY DEF LastVersion
<1>1. \A op, x : Stmt(op, x).op = op /\ Stmt(op, x).on = x
  BY DEF Stmt
<1>2. CASE s.op \in Creates
  <2>1. S = ObjectsAfter(d, s.op, s.on)
    BY <1>2 DEF NewObjects
  <2>2. s.on \in NewIn[1]
    BY <1>0, <1>2, CreatingNew
  <2>3. ColumnsOf(s.on) \subseteq NewIn[1]
    BY NewInV1 DEF ColumnsOf
  <2>4. s.on = "users" => s.op = "ensure"
    <3>1. p \in {1, 2, 3, 4, 5, 6, 7, 8, 9, 10}
      BY V1Statements
    <3>2. CASE p = 1
      BY <1>1, <3>2, V1Statements
    <3>3. CASE p # 1
      BY <1>1, <3>1, <3>3, V1Statements
    <3> QED
      BY <3>2, <3>3
  <2>5. Names \subseteq ColumnsOf("users")
    BY DEF ColumnsOf
  <2> HIDE DEF s, S
  <2>6. d.objects \subseteq S
    BY <2>1 DEF ObjectsAfter
  <2>7. S \subseteq ObjectsAt(1)
    BY <2>1, <2>2, <2>3, ObjectsAtV1 DEF ObjectsAfter, Partial
  <2>8. ASSUME "users" \in S PROVE Names \subseteq S
    <3>1. CASE "users" \in d.objects
      BY <2>6, <3>1 DEF Partial
    <3>2. CASE "users" \notin d.objects /\ s.on = "users"
      BY <2>1, <2>4, <2>5, <3>2 DEF ObjectsAfter
    <3>3. CASE "users" \notin d.objects /\ s.on # "users"
      <4>1. "users" \notin ColumnsOf(s.on)
        BY <3>3 DEF ColumnsOf
      <4> QED
        BY <2>1, <2>8, <3>3, <4>1 DEF ObjectsAfter
    <3> QED
      BY <3>1, <3>2, <3>3
  <2> QED
    BY <2>6, <2>7, <2>8
<1>3. CASE s.op \notin Creates
  <2>1. s.op \notin {"rename", "drop"}
    <3>1. ~Creating(s)
      BY <1>1, <1>3 DEF Creating
    <3> QED
      BY <1>0, <1>1, <3>1, StatementKinds
  <2>2. S = d.objects
    BY <1>3, <2>1 DEF NewObjects
  <2> QED
    BY <2>2 DEF Partial
<1> QED
  BY <1>2, <1>3

LEMMA SameWhole ==
  ASSUME NEW d, NEW e, WholeVersion(d), e.meta = d.meta, e.objects = d.objects
  PROVE  WholeVersion(e)
  BY DEF WholeVersion

LEMMA ExactInit == Init => Exact
<1> SUFFICES ASSUME Init PROVE WholeVersion(disk)
  BY DEF Exact, Init
<1>1. CASE disk = Fresh
  <2>1. disk.meta = <<>> /\ disk.objects = {}
    BY <1>1 DEF Fresh
  <2> QED
    BY <2>1 DEF WholeVersion
<1>2. CASE disk # Fresh
  <2>1. PICK v \in OldVersions, x \in SUBSET Conflicts, late \in SUBSET LateColumns, ro \in BOOLEAN :
               disk = Filled(v, OldObjects(v, late), origin, x, ro)
    BY <1>2, InitialDisk
  <2>2. disk.objects = OldObjects(v, late) /\ disk.meta = (IF v = 0 THEN <<>> ELSE <<v>>)
    BY <2>1 DEF Filled
  <2>3. v \in Nat /\ v <= LastVersion + 1
    BY OldObjectsFacts
  <2>4. CASE v = 0
    <3>1. disk.objects = {"users", "groups", "memberships"} \cup Names \cup late /\ disk.meta = <<>>
      BY <2>2, <2>4 DEF OldObjects
    <3>2. disk.objects \subseteq ObjectsAt(1)
      BY <3>1, ObjectsAtV1, NewInV1 DEF LateColumns
    <3> QED
      BY <3>1, <3>2 DEF WholeVersion
  <2>5. CASE v # 0
    <3>1. v \in 1 .. LastVersion + 1 /\ disk.meta = <<v>> /\ disk.objects = ObjectsAt(v)
      BY <2>2, <2>3, <2>5 DEF OldObjects
    <3>2. disk.meta # <<>>
      BY <3>1
    <3> QED
      BY <3>1, <3>2 DEF WholeVersion
  <2> QED
    BY <2>4, <2>5
<1> QED
  BY <1>1, <1>2

LEMMA ExactNext == Types /\ Versions /\ Exact /\ [Next]_vars => Exact'
<1> SUFFICES ASSUME Types, Versions, Exact, [Next]_vars, errors' = 0, Transactional' PROVE Exact'
  BY DEF Exact
<1>0. errors = 0 /\ ~VersionUnread /\ ~ErrorIgnored /\ Transactional
  <2>1. backend' = backend
    BY DEF Next, Starting, Running, StartFromVersion, StartWithoutVersion, Execute, FillDone,
           ColumnExists, StatementRefused, Commit, AssertVersion, FillUuid, VersionUnread,
           ErrorIgnored, Kill, Stop, RemoveConflict, vars
  <2> QED
    BY <2>1, NoErrorYet DEF Transactional
<1>1. /\ WholeVersion(disk)
      /\ pc = "running" /\ at[1] > 1 => db.objects = ObjectsBefore(at[1], at[2])
      /\ pc = "running" =>
              /\ disk.meta = (IF at[1] = 1 THEN <<>> ELSE <<at[1] - 1>>)
              /\ Progress(db, at[1], at[2])
      /\ disk \in Database /\ db \in Database
      /\ pc # "running" \/ at[1] = 1 => db = disk
      /\ at[1] \in 1 .. LastVersion /\ at[2] \in 1 .. 15
  BY <1>0 DEF Versions, Types, Exact
<1>2. ASSUME NEW v \in Range(disk.meta)
      PROVE  v \in 1 .. LastVersion + 1 /\ disk.meta = <<v>> /\ disk.objects = ObjectsAt(v)
  <2>1. disk.meta # <<>>
    BY <1>2 DEF Range
  <2>2. PICK w \in 1 .. LastVersion + 1 : disk.meta = <<w>> /\ disk.objects = ObjectsAt(w)
    BY <1>1, <2>1 DEF WholeVersion
  <2>3. v = w
    BY <1>2, <2>2 DEF Range
  <2> QED
    BY <2>2, <2>3
<1>3. ASSUME WholeVersion(disk'),
             pc' = "running" /\ at'[1] > 1 => db'.objects = ObjectsBefore(at'[1], at'[2])
      PROVE  Exact'
  BY <1>3 DEF Exact, WholeVersion
\* A migration begins.
<1>4. ASSUME NEW v \in 2 .. LastVersion, Migrate(v), WholeVersion(disk'),
             db'.objects = ObjectsAt(v - 1)
      PROVE  Exact'
  <2>1. at'[1] = v /\ at'[2] = 1
    BY <1>4 DEF Migrate
  <2>2. db'.objects = ObjectsBefore(v, 1)
    BY <1>4, ObjectsFirst
  <2> QED
    BY <1>3, <1>4, <2>1, <2>2
\* The first migration has no transaction, the others leave the durable tables alone.
<1>5. ASSUME pc = "running", at[1] = 1, disk' = db', Partial(db'), db'.meta = db.meta,
             at'[1] = 1
      PROVE  Exact'
  <2>1. disk'.meta = <<>>
    BY <1>1, <1>5
  <2>2. WholeVersion(disk')
    BY <1>5, <2>1 DEF WholeVersion, Partial
  <2> QED
    BY <1>3, <1>5, <2>2
<1>6. pc = "running" /\ at[1] = 1 => Partial(db)
  BY <1>1 DEF WholeVersion, Partial
<1>7. CASE StartFromVersion
  <2>1. PICK v \in Range(disk.meta) :
          \/ v < LastVersion /\ Migrate(v + 1)
          \/ v = LastVersion /\ pc' = "serving" /\ UNCHANGED at
          \/ v > LastVersion /\ UNCHANGED <<pc, at>>
    BY <1>7 DEF StartFromVersion
  <2>2. v \in 1 .. LastVersion + 1 /\ disk.objects = ObjectsAt(v)
    BY <1>2
  <2>3. pc = "down" /\ disk' = disk /\ db' = db /\ db = disk
    BY <1>1, <1>7 DEF StartFromVersion
  <2>4. WholeVersion(disk')
    BY <1>1, <2>3
  <2>5. CASE v < LastVersion /\ Migrate(v + 1)
    <3>1. v + 1 \in 2 .. LastVersion /\ (v + 1) - 1 = v
      BY <2>2, <2>5 DEF LastVersion
    <3>2. db'.objects = ObjectsAt((v + 1) - 1)
      BY <2>2, <2>3, <3>1
    <3> QED
      BY <1>4, <2>4, <2>5, <3>1, <3>2
  <2>6. CASE pc' # "running"
    BY <1>3, <2>4, <2>6
  <2> QED
    BY <2>1, <2>3, <2>5, <2>6
<1>8. CASE StartWithoutVersion
  <2>1. disk' = disk /\ at'[1] = 1
    BY <1>8 DEF StartWithoutVersion, Migrate
  <2>2. WholeVersion(disk')
    BY <1>1, <2>1
  <2> QED
    BY <1>3, <2>1, <2>2
<1>9. CASE Execute
  <2> DEFINE e == Executed(db, Statement)
             v == at[1]
             p == at[2]
  <2>1. /\ HasStatement /\ Statement.op # "fill" /\ Write(e, Statement)
        /\ at' = <<v, p + 1>> /\ pc' = pc /\ pc = "running"
    BY <1>9 DEF Execute, HasStatement
  <2>2. /\ v \in 1 .. LastVersion /\ p \in 1 .. Len(Script[v]) /\ Statement = Script[v][p]
        /\ WellFormed(Statement)
    BY <2>1, StatementFacts DEF Statement
  <2>3. SameRest(e, db) /\ e.objects = NewObjects(db, Statement)
    BY <1>1, <2>1, <2>2, Effect
  <2>4. /\ db' = e /\ at'[1] = v /\ at'[2] = p + 1
        /\ disk' = IF v = 1 THEN e ELSE disk
    BY <1>0, <2>1 DEF Write
  <2> HIDE DEF e
  <2>5. CASE v = 1
    <3>1. Partial(db) /\ Script[1][p].op # "fill" /\ p \in 1 .. Len(Script[1])
      BY <1>6, <2>1, <2>2, <2>5
    <3>2. e.objects = NewObjects(db, Script[1][p])
      BY <2>2, <2>3, <2>5
    <3> HIDE DEF p
    <3>3. Partial(e)
      BY <3>1, <3>2, PartialStep DEF Partial
    <3> QED
      BY <1>5, <2>1, <2>3, <2>4, <2>5, <3>3 DEF SameRest
  <2>6. CASE v # 1
    <3>1. v \in 2 .. LastVersion /\ v > 1
      BY <2>2, <2>6
    <3>2. db.objects = ObjectsBefore(v, p)
      BY <1>1, <2>1, <3>1
    <3>3. WholeVersion(disk')
      BY <1>1, <2>4, <2>6
    <3> HIDE DEF v, p
    <3>4. e.objects = ObjectsBefore(v, p + 1)
      BY <2>1, <2>2, <2>3, <3>1, <3>2, ObjectsStep
    <3> QED
      BY <1>3, <2>4, <3>3, <3>4
  <2> QED
    BY <2>5, <2>6
<1>10. ASSUME NEW r \in Users \cup Groups, FillUuid(r)
       PROVE  Exact'
  <2>1. /\ HasStatement /\ Statement.op = "fill" /\ at' = at /\ pc = "running"
        /\ Write([db EXCEPT !.blank = @ \ {r}], Statement)
    BY <1>10 DEF FillUuid, HasStatement
  <2>2. at[1] = 1
    BY <2>1, FillStatements
  <2>3. db'.objects = db.objects /\ db'.meta = db.meta /\ disk' = db'
    BY <1>1, <2>1, <2>2 DEF Write, Database
  <2>4. Partial(db')
    BY <1>6, <2>1, <2>2, <2>3 DEF Partial
  <2> QED
    BY <1>5, <2>1, <2>2, <2>3, <2>4
<1>11. CASE FillDone \/ ColumnExists
  <2>1. HasStatement /\ Statement.op \in {"fill", "try_add"} /\ UNCHANGED <<disk, db, pc>>
    BY <1>11 DEF FillDone, ColumnExists
  <2>2. at[1] = 1 /\ pc = "running"
    BY <2>1, FillStatements, SkipFacts DEF HasStatement
  <2>3. at'[1] = at[1]
    BY <1>11 DEF FillDone, ColumnExists
  <2> QED
    BY <1>1, <1>5, <1>6, <2>1, <2>2, <2>3
<1>12. CASE StatementRefused \/ Kill \/ Stop
  <2>1. disk' = disk /\ pc' = "down"
    BY <1>12 DEF StatementRefused, Kill, Stop, Down
  <2>2. WholeVersion(disk')
    BY <1>1, <2>1
  <2> QED
    BY <1>3, <2>1, <2>2
<1>13. CASE Commit
  <2> DEFINE v == at[1]
             m == NewVersion(v)
  <2>1. pc = "running" /\ at[2] = Len(Script[v]) + 1 /\ v \in 1 .. LastVersion
    BY <1>13, CommitPlace
  <2>2. db.objects = ObjectsAt(v)
    <3>1. CASE v = 1
      <4>1. Partial(db) /\ Ready(db, 1)
        BY <1>1, <1>6, <2>1, <3>1, ProgressDone
      <4>2. Lasting(1) \subseteq db.objects /\ Lasting(1) = ObjectsAt(1) \ Names
        BY <4>1 DEF Ready, Lasting
      <4>3. "users" \in Lasting(1)
        BY <4>2, ObjectsAtV1, NewInV1 DEF Names
      <4> QED
        BY <3>1, <4>1, <4>2, <4>3 DEF Partial
    <3>2. CASE v # 1
      <4>1. v \in 2 .. LastVersion /\ v > 1
        BY <2>1, <3>2
      <4>2. db.objects = ObjectsBefore(v, Len(Script[v]) + 1)
        BY <1>1, <2>1, <4>1
      <4> QED
        BY <4>1, <4>2, ObjectsDone
    <3> QED
      BY <3>1, <3>2
  <2>3. m = <<v>>
    BY <1>0, <2>1, CommitVersion
  <2>4. db' = [db EXCEPT !.meta = m] /\ disk' = db'
    BY <1>13 DEF Commit
  <2> HIDE DEF m
  <2>5. db'.meta = <<v>> /\ db'.objects = ObjectsAt(v)
    BY <1>1, <2>2, <2>3, <2>4 DEF Database
  <2>6. WholeVersion(disk')
    <3>1. v \in 1 .. LastVersion + 1
      BY <2>1 DEF LastVersion
    <3>2. <<v>> # <<>>
      OBVIOUS
    <3> QED
      BY <2>4, <2>5, <3>1, <3>2 DEF WholeVersion
  <2>7. CASE pc' # "running"
    BY <1>3, <2>6, <2>7
  <2>8. CASE v \in 2 .. LastVersion - 1 /\ Migrate(v + 1)
    <3>1. v + 1 \in 2 .. LastVersion /\ (v + 1) - 1 = v
      BY <2>8 DEF LastVersion
    <3>2. db'.objects = ObjectsAt((v + 1) - 1)
      BY <2>5, <3>1
    <3> QED
      BY <1>4, <2>6, <2>8, <3>1, <3>2
  <2> QED
    BY <1>13, <2>7, <2>8 DEF Commit
<1>14. CASE AssertVersion
  <2>1. PICK v \in Range(disk.meta) :
          \/ v = 1 /\ Migrate(2) /\ UNCHANGED db
          \/ v # 1 /\ Down
    BY <1>14 DEF AssertVersion
  <2>2. disk' = disk /\ pc = "asserting" /\ db = disk /\ disk.objects = ObjectsAt(v)
    BY <1>1, <1>2, <1>14 DEF AssertVersion
  <2>3. WholeVersion(disk')
    BY <1>1, <2>2
  <2>4. CASE v = 1 /\ Migrate(2) /\ UNCHANGED db
    <3>1. 2 \in 2 .. LastVersion /\ 2 - 1 = 1
      BY DEF LastVersion
    <3>2. db'.objects = ObjectsAt(2 - 1)
      BY <2>2, <2>4, <3>1
    <3> QED
      BY <1>4, <2>3, <2>4, <3>1, <3>2
  <2>5. CASE Down
    BY <1>3, <2>3, <2>5 DEF Down
  <2> QED
    BY <2>1, <2>4, <2>5
<1>15. ASSUME NEW x \in Conflicts, RemoveConflict(x)
       PROVE  Exact'
  <2>1. disk'.objects = disk.objects /\ disk'.meta = disk.meta /\ pc' = "down"
    BY <1>1, <1>15 DEF RemoveConflict, Database
  <2>2. WholeVersion(disk')
    BY <1>1, <2>1, SameWhole
  <2> QED
    BY <1>3, <2>1, <2>2
<1>16. CASE UNCHANGED vars
  BY <1>1, <1>3, <1>16 DEF vars
<1> QED
  BY <1>0, <1>7, <1>8, <1>9, <1>10, <1>11, <1>12, <1>13, <1>14, <1>15, <1>16
     DEF Next, Starting, Running

-----------------------------------------------------------------------------
(* The theorems.                                                            *)

\* The parts of the inductive invariant hold in every behaviour, whatever the kills, the
\* failing statements, the errors taken for an answer and the order of the restarts.
THEOREM Invariance == Spec => []IInv
<1>1. Init => IInv
  BY TypesInit, BlanksInit, TextsInit, VersionsInit, ExactInit DEF IInv
<1>2. IInv /\ [Next]_vars => IInv'
  BY TypesNext, BlanksNext, TextsNext, VersionsNext, ExactNext DEF IInv
<1> QED
  BY <1>1, <1>2, PTL DEF Spec

\* No text is lost or moved to another column, however the starts end: replace_column
\* keeps it in the renamed column until it is copied, and migrate_to_v5 writes the value
\* before it drops the column.
THEOREM TextsSurvive == Spec => []NamesKept
<1>1. IInv => NamesKept
  <2> SUFFICES ASSUME Sound(disk, origin) PROVE NamesKept
    BY DEF IInv, Texts
  <2>1. \A c \in Names : c # Null /\ c # Empty
    BY DEF Names, Null, Empty
  <2> QED
    BY <2>1 DEF Sound, NamesKept
<1> QED
  BY <1>1, Invariance, PTL

\* The version is recorded after the tables it stands for: whatever version
\* get_schema_version finds, all that the migrations up to it create is there, in every
\* database, also one that commits each change of a table at once.
THEOREM VersionBehindTables == Spec => []VersionNeverAhead
<1>1. IInv => VersionNeverAhead
  <2> SUFFICES ASSUME Versions, errors = 0, NEW v \in Range(disk.meta) PROVE Ready(disk, v)
    BY DEF IInv, VersionNeverAhead, Ready
  <2>1. disk.meta # <<>>
    BY DEF Range
  <2>2. PICK w \in 1 .. LastVersion + 1 : disk.meta = <<w>> /\ Ready(disk, w)
    BY <2>1 DEF Versions
  <2>3. v = w
    BY <2>2 DEF Range
  <2> QED
    BY <2>2, <2>3
<1> QED
  BY <1>1, Invariance, PTL

\* A row is without a uuid only while upgrade_to_v1 fills them in, or because an earlier
\* start ended while it did.
THEOREM BlanksExplained == Spec => []BlankOnlyIfTorn
<1>1. IInv => BlankOnlyIfTorn
  <2> SUFFICES ASSUME Filling(disk) PROVE HasStatement /\ Statement.op = "fill"
    BY DEF IInv, Blanks, BlankOnlyIfTorn
  <2>1. \A op, x : Stmt(op, x).op = op
    BY DEF Stmt
  <2>2. at[1] = 1 /\ at[2] \in {5, 7} /\ pc = "running"
    BY DEF Filling
  <2> QED
    BY <2>1, <2>2, V1Statements DEF HasStatement, Statement
<1> QED
  BY <1>1, Invariance, PTL

-----------------------------------------------------------------------------
(* The refinement.                                                          *)

\* What a server reads from the database d; o: what the first start found.
RecordedIn(d) == IF d.meta = <<>> THEN 0 ELSE d.meta[1]
ReadFrom(d, c) ==
    LET text == IF RecordedIn(d) >= 5 /\ c # "display_name" THEN d.value[c] ELSE d.cell[c]
    IN  IF text = Empty THEN Null ELSE text
Own(o) == [c \in Names |-> IF o[c] = c THEN c ELSE Null]

LEMMA RecordedFact ==
  ASSUME NEW d, WholeVersion(d)
  PROVE  \/ RecordedIn(d) = 0 /\ d.meta = <<>> /\ Partial(d)
         \/ /\ RecordedIn(d) \in 1 .. LastVersion + 1 /\ d.meta = <<RecordedIn(d)>>
            /\ d.objects = ObjectsAt(RecordedIn(d))
<1>1. CASE d.meta = <<>>
  BY <1>1 DEF RecordedIn, WholeVersion, Partial
<1>2. CASE d.meta # <<>>
  <2>1. PICK v \in 1 .. LastVersion + 1 : d.meta = <<v>> /\ d.objects = ObjectsAt(v)
    BY <1>2 DEF WholeVersion
  <2>2. RecordedIn(d) = v
    BY <1>2, <2>1 DEF RecordedIn
  <2> QED
    BY <2>1, <2>2
<1> QED
  BY <1>1, <1>2

\* Every version reads the texts that the first start found.
LEMMA ReadFact ==
  ASSUME NEW d \in Database, NEW o, Sound(d, o), ColumnsOrValues(d), WholeVersion(d),
         NEW c \in Names
  PROVE  ReadFrom(d, c) = IF o[c] = c THEN c ELSE Null
<1> DEFINE w == RecordedIn(d)
<1>0. /\ "first_name" \in Names /\ "display_name" \in Names /\ "users" \notin Names
      /\ c # Null /\ c # Empty /\ Null # Empty
  BY DEF Names, Null, Empty
<1>1. w \in Nat /\ TempName \notin d.objects
  <2>1. CASE w = 0 /\ Partial(d)
    BY <2>1, ObjectsTyped DEF Partial
  <2>2. CASE w \in 1 .. LastVersion + 1 /\ d.objects = ObjectsAt(w)
    BY <2>2, ObjectsTyped
  <2> QED
    BY <2>1, <2>2, RecordedFact
<1>2. d.cell[TempName] = Null
  BY <1>1 DEF Sound
<1>3. o[c] = c <=> d.cell[c] = c \/ d.value[c] = c
  BY <1>0, <1>2 DEF Sound, Holds
<1>4. d.cell[c] \in {Null, Empty, c} /\ d.value[c] \in {Null, Empty, c}
  BY DEF Sound
<1>5. CASE w >= 5 /\ c # "display_name"
  <2>1. d.objects = ObjectsAt(w)
    BY <1>5, RecordedFact
  <2>2. c \notin d.objects
    BY <1>1, <1>5, <2>1, ObjectsAtMember
  <2>3. d.cell[c] = Null
    BY <2>2 DEF Sound
  <2> QED
    BY <1>0, <1>3, <1>4, <1>5, <2>3 DEF ReadFrom
<1>6. CASE ~(w >= 5 /\ c # "display_name")
  <2>1. d.value[c] = Null
    <3>1. CASE c = "display_name"
      BY <3>1 DEF Sound
    <3>2. CASE w < 5 /\ w > 0
      <4>1. d.objects = ObjectsAt(w)
        BY <3>2, RecordedFact
      <4>2. "first_name" \in d.objects
        BY <1>0, <1>1, <3>2, <4>1, TablesAt
      <4> QED
        BY <4>2 DEF ColumnsOrValues
    <3>3. CASE w = 0
      <4>1. Partial(d)
        BY <3>3, RecordedFact
      <4>2. CASE "users" \in d.objects
        BY <1>0, <4>1, <4>2 DEF Partial, ColumnsOrValues
      <4>3. CASE "users" \notin d.objects
        BY <4>3 DEF Sound
      <4> QED
        BY <4>2, <4>3
    <3> QED
      BY <1>1, <1>6, <3>1, <3>2, <3>3
  <2> QED
    BY <1>0, <1>3, <1>4, <1>6, <2>1 DEF ReadFrom
<1> QED
  BY <1>5, <1>6

LEMMA TextsReadFact ==
  ASSUME IInv, errors = 0, Transactional
  PROVE  TextsRead = Own(origin) /\ Recorded = RecordedIn(disk)
<1>1. Recorded = RecordedIn(disk)
  BY DEF Recorded, RecordedIn
<1>2. TextsRead = [c \in Names |-> ReadFrom(disk, c)]
  BY <1>1 DEF TextsRead, ReadFrom
<1>3. \A c \in Names : ReadFrom(disk, c) = IF origin[c] = c THEN c ELSE Null
  BY ReadFact DEF IInv, Types, Texts, Exact
<1> QED
  BY <1>1, <1>2, <1>3 DEF Own

\* The same in the next state.
LEMMA TextsReadNext ==
  ASSUME IInv', errors' = 0, Transactional'
  PROVE  TextsRead' = Own(origin') /\ Recorded' = RecordedIn(disk')
<1>1. Recorded' = RecordedIn(disk')
  BY DEF Recorded, RecordedIn
<1>2. TextsRead' = [c \in Names |-> ReadFrom(disk', c)]
  BY <1>1 DEF TextsRead, ReadFrom
<1>3. disk' \in Database /\ Sound(disk', origin') /\ ColumnsOrValues(disk') /\ WholeVersion(disk')
  BY DEF IInv, Types, Texts, Exact, Sound, Holds, ColumnsOrValues, WholeVersion
<1>4. \A c \in Names : ReadFrom(disk', c) = IF origin'[c] = c THEN c ELSE Null
  BY <1>3, ReadFact
<1> QED
  BY <1>1, <1>2, <1>4 DEF Own

\* A write without a version: the tables grow.
LEMMA PrepareStep ==
  ASSUME Types, Exact, errors = 0, Transactional, disk.meta = <<>>,
         Execute \/ (\E r \in Users \cup Groups : FillUuid(r)), at[1] = 1
  PROVE  disk.objects \subseteq disk'.objects /\ disk'.meta = disk.meta
<1>1. disk \in Database /\ db = disk /\ Partial(disk)
  BY DEF Types, Exact, WholeVersion, Partial
<1>2. CASE Execute
  <2> DEFINE e == Executed(db, Statement)
             p == at[2]
  <2>1. HasStatement /\ Statement.op # "fill" /\ Write(e, Statement)
    BY <1>2 DEF Execute
  <2>2. /\ 1 \in 1 .. LastVersion /\ p \in 1 .. Len(Script[1]) /\ Statement = Script[1][p]
        /\ WellFormed(Statement)
    BY <2>1, StatementFacts DEF Statement
  <2>3. SameRest(e, db) /\ e.objects = NewObjects(db, Script[1][p])
    BY <1>1, <2>1, <2>2, Effect
  <2>4. disk' = e
    BY <2>1 DEF Write
  <2>5. db.objects \subseteq NewObjects(db, Script[1][p])
    BY <1>1, <2>1, <2>2, PartialStep
  <2> HIDE DEF e
  <2> QED
    BY <1>1, <2>3, <2>4, <2>5 DEF SameRest
<1>3. ASSUME NEW r \in Users \cup Groups, FillUuid(r)
      PROVE  disk.objects \subseteq disk'.objects /\ disk'.meta = disk.meta
  BY <1>1, <1>3 DEF FillUuid, Write, Database
<1> QED
  BY <1>2, <1>3

\* What a step does to the durable tables and the version.
LEMMA TableStep ==
  ASSUME Types, Versions, Exact, [Next]_vars, errors' = 0, errors = 0, Transactional
  PROVE  \/ disk'.objects = disk.objects /\ disk'.meta = disk.meta
         \/ /\ disk.meta = <<>> /\ disk'.meta = <<>>
            /\ disk.objects \subseteq disk'.objects
         \/ /\ pc = "running" /\ at[1] \in 1 .. LastVersion
            /\ disk.meta = (IF at[1] = 1 THEN <<>> ELSE <<at[1] - 1>>)
            /\ disk'.meta = <<at[1]>>
<1>0. ~VersionUnread /\ ~ErrorIgnored
  BY NoErrorYet
<1>1. CASE Execute \/ (\E r \in Users \cup Groups : FillUuid(r))
  <2>0. pc = "running" /\ disk' = (IF at[1] = 1 THEN db' ELSE disk)
    BY <1>1 DEF Execute, FillUuid, Write, HasStatement
  <2>1. CASE at[1] # 1
    BY <2>0, <2>1
  <2>2. CASE at[1] = 1
    <3>1. disk.meta = <<>>
      BY <2>0, <2>2 DEF Versions
    <3> QED
      BY <1>1, <2>2, <3>1, PrepareStep
  <2> QED
    BY <2>1, <2>2
<1>2. CASE Commit
  <2>1. pc = "running" /\ at[1] \in 1 .. LastVersion
    BY <1>2, CommitPlace
  <2>2. NewVersion(at[1]) = <<at[1]>>
    BY <2>1, CommitVersion
  <2>3. disk' = [db EXCEPT !.meta = NewVersion(at[1])] /\ db \in Database
    BY <1>2 DEF Commit, Types
  <2>4. disk'.meta = <<at[1]>>
    BY <2>2, <2>3 DEF Database
  <2> QED
    BY <2>1, <2>4 DEF Versions
<1>3. ASSUME NEW x \in Conflicts, RemoveConflict(x)
      PROVE  disk'.objects = disk.objects /\ disk'.meta = disk.meta
  BY <1>3 DEF RemoveConflict, Types, Database
<1>4. CASE \/ StartFromVersion \/ StartWithoutVersion \/ FillDone \/ ColumnExists \/ Kill
           \/ StatementRefused \/ AssertVersion \/ Stop \/ UNCHANGED vars
  <2>1. disk' = disk
    BY <1>4 DEF StartFromVersion, StartWithoutVersion, FillDone, ColumnExists, Kill,
                StatementRefused, AssertVersion, Stop, Down, vars
  <2> QED
    BY <2>1
<1> QED
  BY <1>0, <1>1, <1>2, <1>3, <1>4 DEF Next, Starting, Running

\* With transactional DDL, and unless an error was taken for an answer, the durable database
\* goes from one version to the next in one step, tables and texts together
\* (migrate_from_version: one transaction per version), and every version reads the texts
\* that the first start found.
THEOREM Atomicity == Spec => UpgradeAtomic
<1>1. Init => Upgrade!Init
  <2> SUFFICES ASSUME Init, Transactional, errors = 0
               PROVE  /\ Recorded \in 0 .. LastVersion + 1
                      /\ Recorded > 0 => disk.objects = ObjectsAt(Recorded)
    BY DEF Upgrade!Init
  <2>1. WholeVersion(disk)
    BY ExactInit DEF Exact
  <2>2. Recorded = RecordedIn(disk)
    BY DEF Recorded, RecordedIn
  <2> QED
    BY <2>1, <2>2, RecordedFact DEF LastVersion
<1>2. IInv /\ IInv' /\ [Next]_vars => [Upgrade!Next]_(Upgrade!vars)
  <2> SUFFICES ASSUME IInv, IInv', [Next]_vars PROVE [Upgrade!Next]_(Upgrade!vars)
    OBVIOUS
  <2>1. CASE ~(Transactional' /\ errors' = 0)
    BY <2>1 DEF Upgrade!Next, Upgrade!Unbound
  <2>2. CASE Transactional' /\ errors' = 0
    <3>0. Types /\ Versions /\ Exact
      BY DEF IInv
    <3>1. UNCHANGED <<backend, origin>>
      BY DEF Next, Starting, Running, StartFromVersion, StartWithoutVersion, Execute, FillDone,
             ColumnExists, StatementRefused, Commit, AssertVersion, FillUuid, VersionUnread,
             ErrorIgnored, Kill, Stop, RemoveConflict, vars, history
    <3>2. Transactional /\ errors = 0
      BY <2>2, <3>0, <3>1, NoErrorYet DEF Transactional
    <3>3. /\ TextsRead' = TextsRead
          /\ Recorded = RecordedIn(disk) /\ Recorded' = RecordedIn(disk')
      BY <2>2, <3>1, <3>2, TextsReadFact, TextsReadNext
    <3>4. WholeVersion(disk) /\ WholeVersion(disk')
      BY <2>2, <3>2 DEF IInv, Exact, WholeVersion
    <3>5. (Transactional /\ errors = 0)' = (Transactional /\ errors = 0)
      BY <2>2, <3>2
    <3>6. CASE disk'.objects = disk.objects /\ disk'.meta = disk.meta
      <4>1. Recorded' = Recorded
        BY <3>3, <3>6 DEF RecordedIn
      <4> QED
        BY <3>3, <3>5, <3>6, <4>1 DEF Upgrade!vars
    <3>7. CASE disk.meta = <<>> /\ disk'.meta = <<>> /\ disk.objects \subseteq disk'.objects
      <4>1. Recorded = 0 /\ Recorded' = 0
        BY <3>3, <3>7 DEF RecordedIn
      <4> QED
        BY <3>2, <3>3, <3>5, <3>7, <4>1 DEF Upgrade!Next, Upgrade!Prepare
    <3>8. CASE /\ pc = "running" /\ at[1] \in 1 .. LastVersion
               /\ disk.meta = (IF at[1] = 1 THEN <<>> ELSE <<at[1] - 1>>)
               /\ disk'.meta = <<at[1]>>
      <4>1. RecordedIn(disk) = at[1] - 1
        <5>1. CASE at[1] = 1
          BY <3>8, <5>1 DEF RecordedIn
        <5>2. CASE at[1] # 1
          BY <3>8, <5>2 DEF RecordedIn
        <5> QED
          BY <5>1, <5>2
      <4>2. RecordedIn(disk') = at[1]
        BY <3>8 DEF RecordedIn
      <4>3. disk'.objects = ObjectsAt(Recorded')
        <5>1. RecordedIn(disk') # 0
          BY <3>8, <4>2
        <5> QED
          BY <3>3, <3>4, <5>1, RecordedFact
      <4>4. Recorded < LastVersion /\ Recorded' = Recorded + 1
        BY <3>3, <3>8, <4>1, <4>2 DEF LastVersion
      <4> QED
        BY <3>2, <3>3, <3>5, <4>3, <4>4 DEF Upgrade!Next, Upgrade!ToNextVersion
    <3> QED
      BY <2>2, <3>0, <3>2, <3>6, <3>7, <3>8, TableStep
  <2> QED
    BY <2>1, <2>2
<1> QED
  BY <1>1, <1>2, Invariance, PTL DEF Spec, UpgradeAtomic, Upgrade!Spec
=============================================================================
