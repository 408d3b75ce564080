------------------------------- MODULE Search --------------------------------
(***************************************************************************)
(* Searches and comparisons over LDAP (ldap_handler.rs) and the queries of *)
(* the GraphQL API (graphql/query.rs), restricted to what the caller may   *)
(* see (access_control.rs).  A request reads the schema, then the users,   *)
(* then the groups; each is a transaction of its own, and in between other *)
(* requests change the tables.                                             *)
(***************************************************************************)
EXTENDS Filters

CONSTANTS
    LdapFilter,     \* filters of LDAP
    RequestFilter,  \* filters of GraphQL
    SearchBase,     \* distinguished names that a search starts from
    Requested,      \* sets of fields that a search asks for
    Mail, Name,     \* texts for e-mail addresses, display names
    GroupName,      \* texts for names of groups
    AttributeText,  \* texts for values of attributes
    AnyFilter       \* filters of LDAP whose meaning is looked at

VARIABLES
    db,      \* the tables
    request  \* the request at hand

vars == <<db, request>>

Caller == [user : UserId, permission : {"Regular", "Readonly"}]
Idle == [pc |-> "idle"]
NoEntries == [ok |-> TRUE, entries |-> {}]
Refused == [ok |-> FALSE, entries |-> {}]

-----------------------------------------------------------------------------
(* Access control.                                                          *)

\* The user_filter of UserRestrictedListerBackendHandler, as a set of users.
UserFilter(i) == IF i.permission = "Regular" THEN {i.user} ELSE UserId

\* Mutant: everybody is told of the visible attributes only.
VisibleSchema(d, i) ==
    [user |-> {a \in UserAttribute : d.schema[a] = "visible"},
     group |-> {a \in GroupAttribute : d.schema[a] = "visible"}]

\* get_schema: a regular user is not told of hidden attributes.
GetSchema(d, i) ==
    LET shown == IF i.permission = "Regular" THEN {"visible"} ELSE {"visible", "hidden"}
    IN  [user |-> {a \in UserAttribute : d.schema[a] \in shown},
         group |-> {a \in GroupAttribute : d.schema[a] \in shown}]

\* A filter and one more leaf.
Both(f, leaf) == f \o <<leaf, Node("And", {Len(f), Len(f) + 1})>>

\* Mutant: the filter of the caller is kept only if there is no other.
EitherRestricted(i, f, leaf) == f

\* list_users, list_groups of UserRestrictedListerBackendHandler.
Restricted(i, f, leaf) ==
    IF i.permission = "Regular" THEN Both(f, Leaf(leaf, "", i.user)) ELSE f

-----------------------------------------------------------------------------
(* One search.                                                              *)

\* get_search_scope, of the pairs that were read.
Scope(d, base) ==
    LET n == Len(d) - Len(BaseDn) IN
    CASE ~IsSubtree(d, BaseDn) -> "Invalid"
      [] IsSubtree(d, BaseDn) /\ n = 0 -> "Global"
      [] IsSubtree(d, BaseDn) /\ n = 1 /\ d[1] = People -> IF base THEN "OuOnly" ELSE "Users"
      [] IsSubtree(d, BaseDn) /\ n = 1 /\ d[1] = Groups -> IF base THEN "OuOnly" ELSE "Groups"
      [] IsSubtree(d, BaseDn) /\ n = 2 /\ d[2] = People -> "User"
      [] IsSubtree(d, BaseDn) /\ n = 2 /\ d[2] = Groups -> "Group"
      [] OTHER -> "Unknown"

\* The filter of a search that starts at an entry.
Scoped(d, f, scope) ==
    IF scope \in {"User", "Group"}
    THEN Both(f, Leaf("Equality", d[1][1], Text(d[1][2]))) ELSE f

\* get_user_list, then make_ldap_search_user_result_entry.
UserList(tables, i, f, schema, fields) ==
    LET c == ConvertUserFilter(f, schema) IN
    IF IsError(c) THEN Refused
    ELSE [ok |-> TRUE, entries |->
          {[id |-> u, shown |-> [a \in fields |-> UserValues(tables, u, a, schema)]]
           : u \in UsersSelected(tables, Restricted(i, c, "UserId"))}]

\* get_groups_list, then make_ldap_search_group_result_entry.
GroupList(tables, i, f, schema, fields) ==
    LET c == ConvertGroupFilter(f, schema) IN
    IF IsError(c) THEN Refused
    ELSE [ok |-> TRUE, entries |->
          {[id |-> g, shown |->
               [a \in fields |-> GroupValues(tables, g, a, schema, UserFilter(i))]]
           : g \in GroupsSelected(tables, Restricted(i, c, "Member"))}]

\* Mutant: an error of either side is the answer.
Strict(scope, us, gs) ==
    IF us.ok /\ gs.ok THEN [ok |-> TRUE, entries |-> us.entries \cup gs.entries] ELSE Refused

\* The answer of do_search_internal: a search from the base DN puts up with an
\* error on one side.
Answer(scope, us, gs) ==
    IF (us.ok /\ gs.ok) \/ (scope = "Global" /\ (us.ok \/ gs.ok))
    THEN [ok |-> TRUE, entries |-> us.entries \cup gs.entries] ELSE Refused

ListsUsers(scope) == scope \in {"Global", "Users", "User"}
ListsGroups(scope) == scope \in {"Global", "Groups", "Group"}

\* The lists that a search needs, unless their query fails in the database.
UserPart(tables, fails, i, d, scope, f, schema, fields) ==
    IF ~ListsUsers(scope) THEN NoEntries
    ELSE IF fails THEN Refused
    ELSE UserList(tables, i, Scoped(ReadDn(d), f, scope), schema, fields)

GroupPart(tables, fails, i, d, scope, f, schema, fields) ==
    IF ~ListsGroups(scope) THEN NoEntries
    ELSE IF fails THEN Refused
    ELSE GroupList(tables, i, Scoped(ReadDn(d), f, scope), schema, fields)

\* A search that nothing interferes with but the errors of these lists.
SearchNow(i, d, f, fields, failing) ==
    LET s == GetSchema(db, i)
        scope == Scope(ReadDn(d), FALSE)
    IN  IF ReadDn(d) = <<>> THEN Refused
        ELSE Answer(scope, UserPart(db, "users" \in failing, i, d, scope, f, s, fields),
                           GroupPart(db, "groups" \in failing, i, d, scope, f, s, fields))

\* do_compare, from the entries of its search; an error of both lists is an
\* answer without entries.
CompareResult(answer, field, v) ==
    CASE Cardinality(answer.entries) > 1 -> "OperationsError"
      [] answer.entries = {} -> "NoSuchObject"
      [] OTHER -> IF \E e \in answer.entries : v \in e.shown[field]
                  THEN "CompareTrue" ELSE "CompareFalse"

DnFilter(d) == <<Leaf("Equality", "dn", Dn(d))>>

CompareNow(i, d, field, v) ==
    CompareResult(SearchNow(i, BaseDn, DnFilter(d), {field}, {}), field, v)

-----------------------------------------------------------------------------
Init ==
    /\ request = Idle
    /\ db = [users |-> {}, mail |-> [u \in UserId |-> NoText], name |-> [u \in UserId |-> NoText],
             group |-> [g \in GroupId |-> NoText], members |-> {},
             value |-> [e \in UserId \cup GroupId |-> [a \in Attribute |-> <<>>]],
             schema |-> [a \in Attribute |-> IF a = "first_name" THEN "visible" ELSE "absent"]]

\* do_search: the identity of the connection, the restricted handler and the
\* schema.  Without the schema, or a base that can be parsed, there is nothing
\* but an error.
BeginSearch(i, d, base, f, fields) ==
    /\ request = Idle
    /\ \/ request' = [pc |-> "found", by |-> i, answer |-> Refused]
       \/ /\ ReadDn(d) # <<>>
          /\ request' = [pc |-> "users", by |-> i, base |-> d, scope |-> Scope(ReadDn(d), base),
                         filter |-> f, fields |-> fields, schema |-> GetSchema(db, i),
                         users |-> NoEntries]
    /\ UNCHANGED db

\* get_user_list, unless the scope has no users.
SearchUsers(fails) ==
    /\ request.pc = "users"
    /\ request' = [request EXCEPT !.pc = "groups",
                       !.users = UserPart(db, fails, request.by, request.base, request.scope,
                                          request.filter, request.schema, request.fields)]
    /\ UNCHANGED db

\* get_group_list, and the answer.
SearchGroups(fails) ==
    /\ request.pc = "groups"
    /\ LET gs == GroupPart(db, fails, request.by, request.base, request.scope,
                           request.filter, request.schema, request.fields)
       IN  request' = [pc |-> "found", by |-> request.by,
                       answer |-> Answer(request.scope, request.users, gs)]
    /\ UNCHANGED db

\* refused: for an error of the database, an invalid filter, or nothing found.
Answered(i, added, refused, ok) ==
    request' = [pc |-> "answered", by |-> i, added |-> added, refused |-> refused, ok |-> ok]

\* The GraphQL queries: the handler for the permission, then the schema, then
\* the conversion of the filter.
BeginQuery(i, of, c, single) ==
    /\ request = Idle
    /\ \/ Answered(i, {}, TRUE, FALSE)
       \/ /\ ~IsError(c)
          /\ request' = [pc |-> "query", by |-> i, of |-> of, filter |-> c, single |-> single,
                         schema |-> GetSchema(db, i), added |-> {}]
    /\ UNCHANGED db

\* user(userId: u).
UserQuery(i, u) ==
    /\ i.permission # "Regular" \/ i.user = u
    /\ BeginQuery(i, "users", <<Leaf("UserId", "", u)>>, TRUE)

\* users(where: f).
UsersQuery(i, f) ==
    /\ i.permission # "Regular"
    /\ BeginQuery(i, "users", ConvertRequestFilter(f, GetSchema(db, i)), FALSE)

\* groups.
GroupsQuery(i) ==
    /\ i.permission # "Regular"
    /\ BeginQuery(i, "groups", <<FromBool(TRUE)>>, FALSE)

\* group(groupId: g).
GroupQuery(i, g) ==
    /\ i.permission # "Regular"
    /\ BeginQuery(i, "groups", <<Leaf("GroupId", "", g)>>, TRUE)

\* AttributeValue::from_schema: each value needs its attribute in the schema
\* that was read.
Represented(es, visible) ==
    \A e \in es : {a \in Attribute : db.value[e][a] # <<>>} \subseteq visible

\* from_user, from_group for each of those that were found.
FromUsers(us) == Represented(us, request.schema.user)
FromGroups(gs) == Represented(gs, request.schema.group)

\* get_user_details, get_group_details, list_users or list_groups, and the answer.
AnswerQuery(fails) ==
    /\ request.pc = "query"
    /\ LET es == IF request.of = "users" THEN UsersSelected(db, request.filter)
                 ELSE GroupsSelected(db, request.filter)
           refused == fails \/ (request.single /\ es = {})
           represented == IF request.of = "users" THEN FromUsers(es) ELSE FromGroups(es)
       IN  Answered(request.by, request.added, refused, ~refused /\ represented)
    /\ UNCHANGED db

Return ==
    /\ request.pc \in {"found", "answered"}
    /\ request' = Idle
    /\ UNCHANGED db

-----------------------------------------------------------------------------
(* Other requests, each of them one transaction.                            *)

\* The unique index on users.lowercase_email.
MailFree(m, u) == \A v \in db.users \ {u} : Lower(db.mail[v]) # Lower(m)

\* to_value: an empty display name is none.
ToValue(n) == IF n = "" THEN NoText ELSE n

CreateUser(u, m, n) ==
    /\ u \notin db.users /\ MailFree(m, u)
    /\ db' = [db EXCEPT !.users = @ \cup {u}, !.mail[u] = m, !.name[u] = ToValue(n)]
    /\ UNCHANGED request

UpdateUser(u, m, n) ==
    /\ u \in db.users /\ MailFree(m, u)
    /\ db' = [db EXCEPT !.mail[u] = m, !.name[u] = ToValue(n)]
    /\ UNCHANGED request

\* ON DELETE CASCADE.
MembersWithout(u) == {m \in db.members : m[1] # u}

DeleteUser(u) ==
    /\ u \in db.users
    /\ db' = [db EXCEPT !.users = @ \ {u}, !.mail[u] = NoText, !.name[u] = NoText,
                        !.members = MembersWithout(u),
                        !.value[u] = [a \in Attribute |-> <<>>]]
    /\ UNCHANGED request

\* Mutant: names are compared as they are written.
ExactNameFree(n, g) == \A h \in GroupId \ {g} : db.group[h] # n

\* The unique index on groups.lowercase_display_name.
NameFree(n, g) == \A h \in GroupId \ {g} : Lower(db.group[h]) # Lower(n)

\* create_group, and update_group with a name.
NameGroup(g, n) ==
    /\ NameFree(n, g)
    /\ db' = [db EXCEPT !.group[g] = n]
    /\ UNCHANGED request

DeleteGroup(g) ==
    /\ db.group[g] # NoText
    /\ db' = [db EXCEPT !.group[g] = NoText, !.members = {m \in db.members : m[2] # g},
                        !.value[g] = [a \in Attribute |-> <<>>]]
    /\ UNCHANGED request

AddMember(u, g) ==
    /\ u \in db.users /\ db.group[g] # NoText
    /\ db' = [db EXCEPT !.members = @ \cup {<<u, g>>}]
    /\ UNCHANGED request

RemoveMember(u, g) ==
    /\ <<u, g>> \in db.members
    /\ db' = [db EXCEPT !.members = @ \ {<<u, g>>}]
    /\ UNCHANGED request

\* A value of an attribute: one text, or for a list one or two.
ValuesOf(a) ==
    {<<t>> : t \in AttributeText}
    \cup (IF AttributeType[a] = "List" THEN AttributeText \X AttributeText ELSE {})

SetValue(e, a, v) ==
    /\ IF e \in UserId THEN e \in db.users /\ a \in UserAttribute
       ELSE db.group[e] # NoText /\ a \in GroupAttribute
    /\ db.schema[a] # "absent"
    /\ db' = [db EXCEPT !.value[e][a] = v]
    /\ UNCHANGED request

AddAttribute(a, visibility) ==
    /\ db.schema[a] = "absent"
    /\ db' = [db EXCEPT !.schema[a] = visibility]
    /\ request' = IF request.pc = "query" THEN [request EXCEPT !.added = @ \cup {a}] ELSE request

DeleteAttribute(a) ==
    /\ db.schema[a] # "absent" /\ a # "first_name"
    /\ db' = [db EXCEPT !.schema[a] = "absent",
                        !.value = [e \in DOMAIN @ |-> [@[e] EXCEPT ![a] = <<>>]]]
    /\ UNCHANGED request

Change ==
    \/ \E u \in UserId, m \in Mail, n \in Name : CreateUser(u, m, n) \/ UpdateUser(u, m, n)
    \/ \E u \in UserId : DeleteUser(u)
    \/ \E g \in GroupId, n \in GroupName : NameGroup(g, n)
    \/ \E g \in GroupId : DeleteGroup(g)
    \/ \E u \in UserId, g \in GroupId : AddMember(u, g) \/ RemoveMember(u, g)
    \/ \E e \in UserId \cup GroupId, a \in Attribute : \E v \in ValuesOf(a) : SetValue(e, a, v)
    \/ \E a \in Attribute, v \in {"hidden", "visible"} : AddAttribute(a, v)
    \/ \E a \in Attribute : DeleteAttribute(a)

Query ==
    \/ \E i \in Caller, d \in SearchBase, base \in BOOLEAN, f \in LdapFilter, fields \in Requested :
          BeginSearch(i, d, base, f, fields)
    \/ \E i \in Caller, u \in UserId : UserQuery(i, u)
    \/ \E i \in Caller, f \in RequestFilter : UsersQuery(i, f)
    \/ \E i \in Caller : GroupsQuery(i)
    \/ \E i \in Caller, g \in GroupId : GroupQuery(i, g)
    \/ \E fails \in BOOLEAN : SearchUsers(fails) \/ SearchGroups(fails) \/ AnswerQuery(fails)
    \/ Return

\* An answer that is made does not change any more: what happens before it is
\* returned can as well happen afterwards.
Next ==
    \/ request.pc \notin {"found", "answered"} /\ Change
    \/ Query

Spec == Init /\ [][Next]_vars

-----------------------------------------------------------------------------
(* What a filter means: the values an entry is found by, up to case.        *)

Field == DOMAIN UserFieldType \cup DOMAIN GroupFieldType \cup Attribute
         \cup {"unknown"} \cup (IF "first_name" \in UserAttribute THEN {"givenname"} ELSE {})

\* No text is taken for something else; a filter names known fields; "givenname"
\* is one if there is the attribute it stands for.
ASSUME SearchAssumption ==
    /\ "givenname" \in Field => "first_name" \in UserAttribute
    /\ (Mail \cup Name \cup GroupName \cup AttributeText) \cap Marks = {}
    /\ \A f \in LdapFilter \cup AnyFilter : IsFilter(f)
    /\ \A f \in AnyFilter : \A k \in Leaves(f) : IsValue(f[k].v) /\ f[k].field \in Field

Everyone == [user |-> UserId, permission |-> "Readonly"]
EitherForm(n, ou) == {Dn(<<<<r, n>>, ou>> \o BaseDn) : r \in {"cn", "uid"}}

UserKeys(u) ==
    [field \in Field |->
        CASE field \in {"dn", "entrydn"} -> EitherForm(u, People)
          [] field = "memberof" ->
                UNION {EitherForm(db.group[g], Groups) : g \in GroupsOf(db, u)}
          [] OTHER -> UserAll(db, u, field, GetSchema(db, Everyone))]

GroupKeys(g) ==
    [field \in Field |->
        CASE field \in {"dn", "entrydn"} -> EitherForm(db.group[g], Groups)
          [] field = "member" -> UNION {EitherForm(u, People) : u \in MembersOf(db, g)}
          [] field = "objectclass" -> {Text(c) : c \in GroupClass \cup {"groupofnames"}}
          [] OTHER -> GroupAll(db, g, field, GetSchema(db, Everyone), UserId)]

\* The value of a filter, with its DN as it is read.
ReadValue(v) == [text |-> Lower(v.text), dn |-> ReadDn(v.dn), like |-> v.like]

\* No value that is worth showing.
Unvalued(vs) == vs \subseteq {Text("")}

LeafMatches(p, keys) ==
    CASE p.op = "Equality" -> ReadValue(p.v) \in {LowerValue(k) : k \in keys[p.field]}
      [] p.op = "Present" -> ~Unvalued(keys[p.field])
      [] p.op = "Substring" -> \E k \in keys[p.field] : Lower(k.text) \in p.v.like

Matches(f, keys) == Value(f, [k \in Leaves(f) |-> Bool(LeafMatches(f[k], keys))]) = "T"

\* The comparison is exact on all fields but those that entries of the kind may
\* have and this one has not, and those whose values keep their case.
Exact(f, missing, cased) ==
    \A k \in DOMAIN f :
        /\ f[k].op = "Present" => f[k].field \notin missing
        /\ f[k].op \in {"Equality", "Substring"} => f[k].field \notin cased

Positive(f) == \A k \in DOMAIN f : f[k].op \notin {"Not", "Present"}

UserCased == {"cn", "givenname", "createtimestamp"} \cup Attribute

UserMissing(u) ==
    {field \in Field : /\ MapUserField(field, GetSchema(db, Everyone)) # "NoMatch"
                       /\ Unvalued(UserKeys(u)[field])}
GroupMissing(g) ==
    {field \in Field : /\ MapGroupField(field, GetSchema(db, Everyone)) # "NoMatch"
                       /\ Unvalued(GroupKeys(g)[field])}

Selected(f, c, found, e, keys, missing, cased) ==
    ~IsError(c) =>
        /\ Exact(f, missing, cased) => (e \in found <=> Matches(f, keys))
        /\ Positive(f) /\ e \in found => Matches(f, keys)

-----------------------------------------------------------------------------
(* Properties.                                                              *)

\* convert_user_filter, get_user_filter_expr and their like for groups select
\* what the filter says, NULLs, empty texts and negations included, for the
\* fields that are compared in lower case; (field=*) also finds the entries of
\* a kind that may have the field and do not.  On all fields a filter without
\* negation finds nothing it should not.
FilterMeaning ==
    request = Idle => LET s == GetSchema(db, Everyone) IN
    \A f \in AnyFilter :
        LET cu == ConvertUserFilter(f, s)
            cg == ConvertGroupFilter(f, s)
        IN  /\ \A u \in db.users :
                  Selected(f, cu, IF IsError(cu) THEN {} ELSE UsersSelected(db, cu), u,
                           UserKeys(u), UserMissing(u), UserCased)
            /\ \A g \in {h \in GroupId : db.group[h] # NoText} :
                  Selected(f, cg, IF IsError(cg) THEN {} ELSE GroupsSelected(db, cg), g,
                           GroupKeys(g), GroupMissing(g), Attribute)

Bases ==
    {<<People>> \o BaseDn, <<Groups>> \o BaseDn} \cup {UserDn(u) : u \in UserId}
    \cup {GroupDn(n) : n \in GroupName}

EntryDn(e) == IF e \in UserId THEN UserDn(e) ELSE LowerDn(GroupDn(db.group[e]))

\* A search that starts lower in the tree (get_search_scope) finds what the
\* search from the base DN finds there, no more and no less, also where the
\* latter puts up with an error on one side, of the filter or of the database
\* (do_search_internal).
SubtreeConsistent ==
    request = Idle =>
        \A i \in Caller, f \in LdapFilter, failing \in SUBSET {"users", "groups"} :
            LET all == SearchNow(i, BaseDn, f, {}, failing) IN
            \A d \in Bases :
                LET part == SearchNow(i, d, f, {}, failing) IN
                part.ok => part.entries = {e \in all.entries : IsSubtree(EntryDn(e.id), ReadDn(d))}

\* The groups that the DN of a group of this name, as it is read, is a name of.
Denoted(n) ==
    {g \in GroupId : db.group[g] # NoText /\ LowerDn(GroupDn(db.group[g])) = ReadDn(GroupDn(n))}

\* do_compare never finds several entries for the DN of a group.  To a reader
\* of everything it tells the truth about each membership of the group that
\* the DN denotes, whatever has the same name, and that there is none if its
\* name has made the DN unreadable or another one.
ComparesMembers ==
    request = Idle =>
        \A i \in Caller, u \in UserId, n \in GroupName :
            i.permission = "Readonly" =>
                CompareNow(i, GroupDn(n), "member", Dn(UserDn(u))) =
                    IF Denoted(n) = {} THEN "NoSuchObject"
                    ELSE IF \A g \in Denoted(n) : <<u, g>> \in db.members
                    THEN "CompareTrue" ELSE "CompareFalse"

\* A regular user who searches is shown their own entry, and of groups those
\* they are in, with nobody else among the members (user_filter), whatever
\* the filter says and however the tables change between the queries.
RegularSeesOwn ==
    request.pc = "found" /\ request.by.permission = "Regular" =>
        \A e \in request.answer.entries :
            IF e.id \in UserId THEN e.id = request.by.user
            ELSE "member" \in DOMAIN e.shown => e.shown["member"] = {Dn(UserDn(request.by.user))}

\* A query for users or groups by someone who may read all of them fails for an
\* error of the database, an invalid filter, or a user or group that does not
\* exist.  Besides, it fails only if an attribute was added after the query had
\* read the schema (from_schema).
QueryFailsOnlyWhenRaced ==
    request.pc = "answered" /\ request.by.permission # "Regular" /\ ~request.ok =>
        request.refused \/ request.added # {}

=============================================================================
