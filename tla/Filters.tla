------------------------------- MODULE Filters -------------------------------
(***************************************************************************)
(* The filters of searches: those of LDAP (ldap/user.rs, ldap/group.rs)    *)
(* and of GraphQL (graphql/query.rs) are converted to the filters of the   *)
(* back end (handler.rs), and these to conditions of SQL                   *)
(* (sql_user_backend_handler.rs, sql_group_backend_handler.rs), which are  *)
(* true, false or, where a column is NULL, neither.                        *)
(*                                                                         *)
(* Names are given in their first spelling ("cn" stands for "displayname"  *)
(* and "display_name" too).  A distinguished name is written as a sequence *)
(* of pairs, the most specific one first; the text of the first may hold   *)
(* commas, equals signs and blanks, which parsing gives their meaning.  A  *)
(* substring pattern is the set of the texts in lower case that LIKE finds *)
(* for it.                                                                 *)
(*                                                                         *)
(* A filter is the sequence of its nodes, each of them after the nodes it  *)
(* combines, which it names by their places; the last one is the root.     *)
(***************************************************************************)
EXTENDS Integers, Sequences, FiniteSets, SequencesExt

CONSTANTS
    UserId,           \* user ids, in lower case
    GroupId,          \* group ids
    LowerOf,          \* the texts that change in lower case, and to what
    Pieces,           \* the texts in lower case that a parser of DNs changes, and to what
    Uuid,             \* the uuid of each user and group
    UserAttribute,    \* attributes of users besides the columns
    GroupAttribute,   \* attributes of groups
    AttributeType,    \* "String", "Integer" or "List" (of strings), by attribute
    Numeral,          \* the texts that parse_int accepts
    UserClass,        \* object classes of users
    GroupClass,       \* object classes of groups
    BaseDn            \* ldap_info.base_dn

Attribute == UserAttribute \cup GroupAttribute

ASSUME FiltersAssumption ==
    /\ UserId \cap GroupId = {} /\ DOMAIN Uuid = UserId \cup GroupId
    /\ AttributeType \in [Attribute -> {"String", "Integer", "List"}]

\* NULL in a column, no row, no text.  An empty text is a text.
NoText == "(null)"

Lower(t) == IF t \in DOMAIN LowerOf THEN LowerOf[t] ELSE t

IsSeq(s) == s \in Seq(Range(s))

\* What an attribute, or a filter, can have for a value: a text, a DN or (in a
\* filter) a pattern.
Text(t) == [text |-> t, dn |-> <<>>, like |-> {}]
Dn(d) == [text |-> "dn", dn |-> d, like |-> {}]
Pattern(p) == [text |-> "pattern", dn |-> <<>>, like |-> p]
LowerDn(d) == [i \in DOMAIN d |-> <<d[i][1], Lower(d[i][2])>>]
LowerValue(v) == [text |-> Lower(v.text), dn |-> LowerDn(v.dn), like |-> v.like]
IsValue(v) ==
    /\ v \in {Text(v.text), Dn(v.dn), Pattern(v.like)}
    /\ IsSeq(v.dn)

\* Texts that stand for something else.
Marks == {NoText, "dn", "pattern"}

\* Ids, uuids and classes are texts in lower case; the lower case of a text is
\* in lower case.
Canonical == UserId \cup {Uuid[e] : e \in DOMAIN Uuid} \cup UserClass \cup GroupClass

ASSUME TextAssumption ==
    /\ \A t \in DOMAIN LowerOf : LowerOf[t] \notin DOMAIN LowerOf \cup Marks
    /\ DOMAIN LowerOf \cap (Canonical \cup Marks \cup {"people", "groups", "groupofnames"}) = {}
    /\ Canonical \cap Marks = {}
    /\ UserClass # {}

-----------------------------------------------------------------------------
(* Distinguished names.                                                     *)

People == <<"ou", "people">>
Groups == <<"ou", "groups">>
UserDn(u) == <<<<"uid", u>>, People>> \o BaseDn
GroupDn(n) == <<<<"cn", n>>, Groups>> \o BaseDn

\* What is read where a text was written: commas begin further pairs, blanks at
\* the ends go; NoText stands for InvalidDNSyntax.
Plain(t) == t \notin DOMAIN Pieces
ReadAs(t) == IF Plain(t) THEN [value |-> t, more |-> <<>>] ELSE Pieces[t]

\* parse_distinguished_name, of a DN in lower case; no pairs stand for its error.
ParseDn(d) ==
    IF d = <<>> \/ ReadAs(d[1][2]).value = NoText THEN <<>>
    ELSE <<<<d[1][1], ReadAs(d[1][2]).value>>>> \o ReadAs(d[1][2]).more \o Tail(d)

ReadDn(d) == ParseDn(LowerDn(d))

\* What is read is in lower case, and so is the base DN, which has been parsed.
ASSUME DnAssumption ==
    /\ \A t \in DOMAIN Pieces :
          /\ Pieces[t].value \notin DOMAIN LowerOf \cup {"dn", "pattern"}
          /\ IsSeq(Pieces[t].more)
    /\ IsSeq(BaseDn) /\ BaseDn # <<>> /\ LowerDn(BaseDn) = BaseDn /\ ParseDn(BaseDn) = BaseDn
    /\ Plain("people") /\ Plain("groups")

IsSubtree(d, base) ==
    /\ Len(base) <= Len(d)
    /\ \A i \in DOMAIN base : d[Len(d) - Len(base) + i] = base[i]

\* get_id_from_distinguished_name; NoText stands for its errors.
IdFromDn(d, ou) ==
    LET parts == ParseDn(d) IN
    IF Len(parts) = Len(BaseDn) + 2 /\ IsSubtree(parts, BaseDn)
          /\ parts[2] = ou /\ parts[1][1] \in {"cn", "uid"}
    THEN parts[1][2] ELSE NoText

-----------------------------------------------------------------------------
(* Fields, under the part of the schema the caller sees.                    *)

UserFieldType ==
    [memberof |-> "MemberOf", objectclass |-> "ObjectClass", dn |-> "Dn", entrydn |-> "EntryDn",
     uid |-> "UserId", mail |-> "Email", cn |-> "DisplayName",
     createtimestamp |-> "CreationDate", entryuuid |-> "Uuid"]

GroupFieldType ==
    [dn |-> "Dn", entrydn |-> "EntryDn", objectclass |-> "ObjectClass", cn |-> "DisplayName",
     uid |-> "DisplayName", createtimestamp |-> "CreationDate", member |-> "Member",
     entryuuid |-> "Uuid"]

\* The names that map_user_field knows besides the schema.
AttributeOf(field) == IF field = "givenname" THEN "first_name" ELSE field

MapUserField(field, schema) ==
    IF field \in DOMAIN UserFieldType THEN UserFieldType[field]
    ELSE IF field = "givenname" \/ field \in schema.user THEN "Attribute" ELSE "NoMatch"

MapGroupField(field, schema) ==
    IF field \in DOMAIN GroupFieldType THEN GroupFieldType[field]
    ELSE IF field \in schema.group THEN "Attribute" ELSE "NoMatch"

\* get_custom_attribute: nothing for an attribute that is not in the schema.
CustomValues(db, e, a, visible) ==
    IF a \in visible THEN {Text(t) : t \in ToSet(db.value[e][a])} ELSE {}

GroupsOf(db, u) == {g \in GroupId : <<u, g>> \in db.members}
MembersOf(db, g) == {u \in UserId : <<u, g>> \in db.members}

\* The values that get_user_attribute collects.
UserAll(db, u, field, schema) ==
    LET kind == MapUserField(field, schema) IN
    CASE kind = "ObjectClass" -> {Text(c) : c \in UserClass}
      [] kind = "EntryDn" -> {Dn(UserDn(u))}
      [] kind = "MemberOf" -> {Dn(GroupDn(db.group[g])) : g \in GroupsOf(db, u)}
      [] kind = "UserId" -> {Text(u)}
      [] kind = "Email" -> {Text(db.mail[u])}
      [] kind = "DisplayName" -> {Text(t) : t \in {db.name[u]} \ {NoText}}
      [] kind = "Uuid" -> {Text(Uuid[u])}
      [] kind = "CreationDate" -> {Text("date")}
      [] kind = "Attribute" -> CustomValues(db, u, AttributeOf(field), schema.user)
      [] kind \in {"Dn", "NoMatch"} -> {}

\* The values that get_group_attribute collects; onlySelf is the user_filter of
\* the caller.
GroupAll(db, g, field, schema, onlySelf) ==
    LET kind == MapGroupField(field, schema) IN
    CASE kind = "ObjectClass" -> {Text(c) : c \in GroupClass}
      [] kind = "EntryDn" -> {Dn(<<<<"uid", db.group[g]>>, Groups>> \o BaseDn)}
      [] kind = "DisplayName" -> {Text(db.group[g])}
      [] kind = "CreationDate" -> {Text("date")}
      [] kind = "Member" -> {Dn(UserDn(u)) : u \in MembersOf(db, g) \cap onlySelf}
      [] kind = "Uuid" -> {Text(Uuid[g])}
      [] kind = "Attribute" -> CustomValues(db, g, field, schema.group)
      [] kind \in {"Dn", "NoMatch"} -> {}

\* A value that is alone and empty is not shown; several are.
Shown(db, e, a, kind, vs) ==
    IF vs = {Text("")} /\ (kind = "Attribute" => Len(db.value[e][a]) = 1) THEN {} ELSE vs

UserValues(db, u, field, schema) ==
    Shown(db, u, AttributeOf(field), MapUserField(field, schema), UserAll(db, u, field, schema))
GroupValues(db, g, field, schema, onlySelf) ==
    Shown(db, g, field, MapGroupField(field, schema), GroupAll(db, g, field, schema, onlySelf))

-----------------------------------------------------------------------------
(* From the filters of LDAP and GraphQL to those of the back end.           *)

Leaf(op, field, v) == [op |-> op, field |-> field, v |-> v, of |-> {}]
Node(op, of) == [op |-> op, field |-> "", v |-> Text(NoText), of |-> of]
Connective == {"And", "Or", "Not"}
Leaves(f) == {k \in DOMAIN f : f[k].op \notin Connective}

IsFilter(f) ==
    /\ IsSeq(f) /\ f # <<>>
    /\ \A k \in DOMAIN f : f[k].of \subseteq 1 .. (k - 1)
    /\ \A k \in Leaves(f) : f[k].of = {}

\* And(vec![]) or Not(And(vec![])).
FromBool(b) == Node(IF b THEN "And" ELSE "Not", {})

\* One error anywhere is an error of the whole filter.
Error == Node("Error", {})
IsError(f) == \E k \in DOMAIN f : f[k].op = "Error"

\* deserialize_attribute_value of a single text.
AttributeEquality(a, t) ==
    IF AttributeType[a] = "Integer" /\ t \notin Numeral THEN Error
    ELSE Leaf("AttributeEquality", a, <<t>>)

UserEquality(field, v, schema) ==
    LET kind == MapUserField(field, schema)
        id == IdFromDn(v.dn, People)
        group == IdFromDn(v.dn, Groups)
    IN  CASE kind = "UserId" -> Leaf("UserId", "", v.text)
          [] kind \in {"Email", "DisplayName", "CreationDate", "Uuid"} ->
                Leaf("Equality", kind, v.text)
          [] kind = "Attribute" -> AttributeEquality(AttributeOf(field), v.text)
          [] kind = "NoMatch" -> FromBool(FALSE)
          [] kind = "ObjectClass" -> FromBool(v.text \in UserClass)
          [] kind = "MemberOf" -> IF group = NoText THEN Error ELSE Leaf("MemberOf", "", group)
          [] kind \in {"Dn", "EntryDn"} ->
                IF id = NoText THEN FromBool(FALSE) ELSE Leaf("UserId", "", id)

UserSubstring(field, p, schema) ==
    LET kind == MapUserField(field, schema) IN
    CASE kind = "UserId" -> Leaf("UserIdSubString", "", p)
      [] kind = "NoMatch" -> FromBool(FALSE)
      [] kind \in {"Email", "DisplayName"} -> Leaf("SubString", kind, p)
      [] OTHER -> Error

UserNode(p, schema) ==
    CASE p.op \in Connective -> p
      [] p.op = "Equality" -> UserEquality(p.field, LowerValue(p.v), schema)
      [] p.op = "Present" -> FromBool(MapUserField(p.field, schema) # "NoMatch")
      [] p.op = "Substring" -> UserSubstring(p.field, p.v.like, schema)
      [] OTHER -> Error

ConvertUserFilter(f, schema) == [k \in DOMAIN f |-> UserNode(f[k], schema)]

GroupEquality(field, v, schema) ==
    LET kind == MapGroupField(field, schema)
        id == IdFromDn(v.dn, People)
        group == IdFromDn(v.dn, Groups)
    IN  CASE kind = "DisplayName" -> Leaf("DisplayName", "", v.text)
          [] kind = "Uuid" -> IF v.text \in {Uuid[e] : e \in DOMAIN Uuid}
                              THEN Leaf("Uuid", "", v.text) ELSE Error
          [] kind = "Member" -> IF id = NoText THEN Error ELSE Leaf("Member", "", id)
          [] kind = "ObjectClass" -> FromBool(v.text \in GroupClass \cup {"groupofnames"})
          [] kind \in {"Dn", "EntryDn"} ->
                IF group = NoText THEN FromBool(FALSE) ELSE Leaf("DisplayName", "", group)
          [] kind = "NoMatch" -> FromBool(FALSE)
          [] kind = "Attribute" -> AttributeEquality(field, v.text)
          [] kind = "CreationDate" -> Error

GroupSubstring(field, p, schema) ==
    LET kind == MapGroupField(field, schema) IN
    CASE kind = "DisplayName" -> Leaf("DisplayNameSubString", "", p)
      [] kind = "NoMatch" -> FromBool(FALSE)
      [] OTHER -> Error

GroupNode(p, schema) ==
    CASE p.op \in Connective -> p
      [] p.op = "Equality" -> GroupEquality(p.field, LowerValue(p.v), schema)
      [] p.op = "Present" -> FromBool(MapGroupField(p.field, schema) # "NoMatch")
      [] p.op = "Substring" -> GroupSubstring(p.field, p.v.like, schema)
      [] OTHER -> Error

ConvertGroupFilter(f, schema) == [k \in DOMAIN f |-> GroupNode(f[k], schema)]

\* try_into_domain_filter.  A request that sets no field of RequestFilter, or
\* several, has another op; values keep their case.
RequestEquality(field, v, schema) ==
    LET kind == MapUserField(field, schema) IN
    CASE kind = "UserId" -> Leaf("UserId", "", Lower(v.text))
      [] kind \in {"Email", "DisplayName", "CreationDate", "Uuid"} -> Leaf("Equality", kind, v.text)
      [] kind = "Attribute" /\ AttributeType[AttributeOf(field)] # "List" ->
            AttributeEquality(AttributeOf(field), v.text)
      [] kind = "MemberOf" -> Leaf("MemberOf", "", v.text)
      [] OTHER -> Error

RequestNode(p, schema) ==
    CASE p.op \in Connective -> p
      [] p.op \in {"MemberOf", "MemberOfId"} -> Leaf(p.op, "", p.v.text)
      [] p.op = "Equality" -> RequestEquality(p.field, p.v, schema)
      [] OTHER -> Error

ConvertRequestFilter(f, schema) == [k \in DOMAIN f |-> RequestNode(f[k], schema)]

-----------------------------------------------------------------------------
(* The conditions of SQL: TRUE, FALSE or NULL.                              *)

Bool(b) == IF b THEN "T" ELSE "F"
AllOf(S) == IF "F" \in S THEN "F" ELSE IF "N" \in S THEN "N" ELSE "T"
AnyOf(S) == IF "T" \in S THEN "T" ELSE IF "N" \in S THEN "N" ELSE "F"
Negation(t) == CASE t = "T" -> "F" [] t = "F" -> "T" [] t = "N" -> "N"

Combined(p, atom, values) ==
    CASE p.op = "And" -> AllOf(values)
      [] p.op = "Or" -> AnyOf(values)
      [] p.op = "Not" -> Negation(AllOf(values))
      [] OTHER -> atom

\* The value of a filter, from those of its leaves.
Truth(f, atoms) ==
    LET t[k \in DOMAIN f] == Combined(f[k], atoms[k], {t[j] : j \in f[k].of}) IN t
Value(f, atoms) == Truth(f, atoms)[Len(f)]

\* The columns of "users"; those of the e-mail address are kept in lower case
\* for comparisons, and so are the values they are compared with.
UserColumn(db, u, column) ==
    CASE column = "Email" -> Lower(db.mail[u])
      [] column = "DisplayName" -> db.name[u]
      [] column = "CreationDate" -> "date"
      [] column = "Uuid" -> Uuid[u]

Compared(column, t) == IF column = "Email" THEN Lower(t) ELSE t

\* Mutant: the table of groups is joined, and a user without groups has none
\* to compare.
JoinedMemberOf(db, u, n) ==
    IF GroupsOf(db, u) = {} THEN "N"
    ELSE Bool(\E g \in GroupsOf(db, u) : Lower(db.group[g]) = Lower(n))

\* user_id IN (SELECT ...): never NULL.
MemberOf(db, u, n) == Bool(\E g \in GroupsOf(db, u) : Lower(db.group[g]) = Lower(n))

UserAtom(db, u, p) ==
    CASE p.op = "UserId" -> Bool(u = p.v)
      [] p.op = "Equality" ->
            IF UserColumn(db, u, p.field) = NoText THEN "N"
            ELSE Bool(UserColumn(db, u, p.field) = Compared(p.field, p.v))
      [] p.op = "AttributeEquality" -> Bool(db.value[u][p.field] = p.v)
      [] p.op = "MemberOf" -> MemberOf(db, u, p.v)
      [] p.op = "MemberOfId" -> Bool(<<u, p.v>> \in db.members)
      [] p.op = "UserIdSubString" -> Bool(u \in p.v)
      [] p.op = "SubString" ->
            IF UserColumn(db, u, p.field) = NoText THEN "N"
            ELSE Bool(Lower(UserColumn(db, u, p.field)) \in p.v)

GroupAtom(db, g, p) ==
    CASE p.op = "DisplayName" -> Bool(Lower(db.group[g]) = Lower(p.v))
      [] p.op = "GroupId" -> Bool(g = p.v)
      [] p.op = "Uuid" -> Bool(Uuid[g] = p.v)
      [] p.op = "Member" -> Bool(<<p.v, g>> \in db.members)
      [] p.op = "DisplayNameSubString" -> Bool(Lower(db.group[g]) \in p.v)
      [] p.op = "AttributeEquality" -> Bool(db.value[g][p.field] = p.v)

UserCondition(db, u, f) == Value(f, [k \in Leaves(f) |-> UserAtom(db, u, f[k])])
GroupCondition(db, g, f) == Value(f, [k \in Leaves(f) |-> GroupAtom(db, g, f[k])])

\* What list_users and list_groups select.
UsersSelected(db, f) == {u \in db.users : UserCondition(db, u, f) = "T"}
GroupsSelected(db, f) ==
    {g \in GroupId : db.group[g] # NoText /\ GroupCondition(db, g, f) = "T"}

=============================================================================
