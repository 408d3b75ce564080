----------------------------- MODULE Attributes ------------------------------
(***************************************************************************)
(* The attribute schema and the attribute values of users                  *)
(* (sql_schema_backend_handler.rs, sql_user_backend_handler.rs, schema.rs, *)
(* deserialize.rs, graphql/mutation.rs and query.rs; groups have the same  *)
(* code in sql_group_backend_handler.rs, with updates by administrators    *)
(* only).  A value is stored as bytes; what matters is the type it was     *)
(* serialized as.  A request reads the schema in one transaction and       *)
(* writes, or reads the values, in a later one: in between administrators  *)
(* delete attributes and add others of the same name.                      *)
(***************************************************************************)
EXTENDS Naturals, FiniteSets

CONSTANTS
    Entity,      \* user ids
    Attribute,   \* attribute names
    Hardcoded,   \* attributes of the schema the migrations insert
    Virtual,     \* the attributes mail and display_name, which are columns of
                 \* "users" and which PublicSchema adds
    Type,        \* attribute types, with is_list
    BuiltinType, \* the type of each hardcoded and virtual attribute
    NoType,      \* no value, no row in the schema
    Task,        \* requests in flight
    MaxNamed     \* bound: attributes that one request names

Row == [type : Type, editable : BOOLEAN, hardcoded : BOOLEAN]

ASSUME AttributesAssumption ==
    /\ Hardcoded \subseteq Attribute /\ Virtual \subseteq Attribute
    /\ Hardcoded \cap Virtual = {}
    /\ BuiltinType \in [Hardcoded \cup Virtual -> Type]
    /\ NoType \notin Type /\ NoType \notin Row

VARIABLES
    schema,   \* rows of user_attribute_schema
    rows,     \* rows of the table "users"
    value,    \* user_attributes: the type each value was serialized as
    task,     \* requests in flight
    late,     \* history: the values of each user that were written by a request
              \* during which their attribute was added to the schema
    misread   \* history: attributes of which a value was decoded as another
              \* type, although nobody added them while it was read or written

vars == <<schema, rows, value, task, late, misread>>

Values == [Attribute -> Type \cup {NoType}]
NoValues == [a \in Attribute |-> NoType]
Idle == [op |-> "idle"]
\* added is history: the attributes added since the request read the schema.
TaskState == {Idle}
    \cup [op : {"update", "create"}, e : Entity, ins : Values, del : SUBSET Attribute,
          added : SUBSET Attribute]
    \cup [op : {"delete_attribute"}, a : Attribute]
    \cup [op : {"read"}, e : Entity, ins : Values, added : SUBSET Attribute]

\* PublicSchema: the rows of the table come first, then the virtual ones.
Public(a) ==
    IF schema[a] = NoType /\ a \in Virtual
    THEN [type |-> BuiltinType[a], editable |-> TRUE, hardcoded |-> TRUE]
    ELSE schema[a]

\* The values of the attributes as, serialized as the schema now says.
Deserialized(as) ==
    [a \in Attribute |-> IF a \in as THEN Public(a).type ELSE NoType]

Init ==
    /\ schema = [a \in Attribute |->
          IF a \in Hardcoded
          THEN [type |-> BuiltinType[a], editable |-> TRUE, hardcoded |-> TRUE]
          ELSE NoType]
    /\ rows = {} /\ value = [e \in Entity |-> NoValues]
    /\ task = [k \in Task |-> Idle]
    /\ late = [e \in Entity |-> {}]
    /\ misread = {}

Begin(k, t) ==
    /\ task[k] = Idle
    /\ task' = [task EXCEPT ![k] = t]
    /\ UNCHANGED <<schema, rows, value, late, misread>>

Done(k) == task' = [task EXCEPT ![k] = Idle]

-----------------------------------------------------------------------------
(* Users and their attributes.                                              *)

\* deserialize_attribute for each attribute to insert: it has to be in the
\* schema, and editable unless an administrator asks.
MayInsert(as, isAdmin) ==
    \A a \in as : Public(a) # NoType /\ (isAdmin \/ Public(a).editable)

BeginCreate(k, e, as) ==
    /\ Cardinality(as) <= MaxNamed
    /\ MayInsert(as, TRUE)
    /\ Begin(k, [op |-> "create", e |-> e, ins |-> Deserialized(as), del |-> {},
                 added |-> {}])

BeginUpdate(k, e, as, del, isAdmin) ==
    /\ Cardinality(as \cup del) <= MaxNamed
    /\ MayInsert(as, isAdmin)
    /\ Begin(k, [op |-> "update", e |-> e, ins |-> Deserialized(as), del |-> del,
                 added |-> {}])

Inserted(t) == {a \in Attribute : t.ins[a] # NoType}

\* Mutant: only what is inserted is looked up in the schema, not its table.
KnownSomewhere(t) == \A a \in Inserted(t) \cup t.del : Public(a) # NoType

\* The schema is read again in the transaction, without the virtual rows.
Known(t) == \A a \in Inserted(t) \cup t.del : schema[a] # NoType

\* create_user: one transaction.
CommitCreate(k) ==
    LET t == task[k] IN
    /\ t.op = "create"
    /\ Known(t) /\ t.e \notin rows
    /\ rows' = rows \cup {t.e}
    /\ value' = [value EXCEPT ![t.e] = t.ins]
    /\ late' = [late EXCEPT ![t.e] = Inserted(t) \cap t.added]
    /\ Done(k)
    /\ UNCHANGED <<schema, misread>>

\* update_user_with_transaction: deletions, then insertions.
CommitUpdate(k) ==
    LET t == task[k] IN
    /\ t.op = "update"
    /\ Known(t) /\ t.e \in rows
    /\ value' = [value EXCEPT ![t.e] = [a \in Attribute |->
          IF t.ins[a] # NoType THEN t.ins[a]
          ELSE IF a \in t.del THEN NoType ELSE value[t.e][a]]]
    /\ late' = [late EXCEPT ![t.e] =
          (@ \ (Inserted(t) \cup t.del)) \cup (Inserted(t) \cap t.added)]
    /\ Done(k)
    /\ UNCHANGED <<schema, rows, misread>>

\* A check fails, a constraint is violated or the database has an error: the
\* transaction is rolled back.
Abort(k) ==
    /\ task[k] # Idle
    /\ Done(k)
    /\ UNCHANGED <<schema, rows, value, late, misread>>

\* Mutant: the attributes of a deleted user stay.
AllValues(e) == value

\* ON DELETE CASCADE.
ValuesWithoutUser(e) == [value EXCEPT ![e] = NoValues]

DeleteUser(e) ==
    /\ e \in rows
    /\ rows' = rows \ {e}
    /\ value' = ValuesWithoutUser(e)
    /\ late' = [late EXCEPT ![e] = {}]
    /\ UNCHANGED <<schema, task, misread>>

-----------------------------------------------------------------------------
(* The schema.                                                              *)

AddAttribute(a, t, editable) ==
    /\ schema[a] = NoType
    /\ schema' = [schema EXCEPT ![a] = [type |-> t, editable |-> editable, hardcoded |-> FALSE]]
    /\ task' = [k \in Task |-> IF task[k].op \in {"update", "create", "read"}
                               THEN [task[k] EXCEPT !.added = @ \cup {a}] ELSE task[k]]
    /\ UNCHANGED <<rows, value, late, misread>>

\* Mutant: the flag is not looked at.
AnyDeletable(a) == Public(a) # NoType

Deletable(a) == Public(a) # NoType /\ ~Public(a).hardcoded

BeginDeleteAttribute(k, a) ==
    /\ Deletable(a)
    /\ Begin(k, [op |-> "delete_attribute", a |-> a])

\* Mutant: the values of a deleted attribute stay.
ValuesKept(a) == value

\* ON DELETE CASCADE.
ValuesWithout(a) == [e \in Entity |-> [value[e] EXCEPT ![a] = NoType]]

\* The row goes by its name, whatever became of it since the check.
DeleteAttribute(k) ==
    /\ task[k].op = "delete_attribute"
    /\ schema' = [schema EXCEPT ![task[k].a] = NoType]
    /\ value' = ValuesWithout(task[k].a)
    /\ late' = [e \in Entity |-> late[e] \ {task[k].a}]
    /\ Done(k)
    /\ UNCHANGED <<rows, misread>>

-----------------------------------------------------------------------------
(* Readers: GraphQL queries and LDAP searches read the schema first.        *)

BeginRead(k, e) ==
    Begin(k, [op |-> "read", e |-> e,
              ins |-> Deserialized({a \in Attribute : Public(a) # NoType}),
              added |-> {}])

\* An attribute that is not in the schema the reader has is an error or left
\* out.  Otherwise Serialized::unwrap: of a value that was serialized as
\* another type it panics, or makes a wrong value.
Misread(t, a) == t # NoType /\ a # NoType /\ t # a

Read(k) ==
    LET t == task[k] IN
    /\ t.op = "read"
    /\ misread' = misread \cup {a \in Attribute \ (t.added \cup late[t.e]) :
                                  Misread(value[t.e][a], t.ins[a])}
    /\ Done(k)
    /\ UNCHANGED <<schema, rows, value, late>>

-----------------------------------------------------------------------------
Request(k) ==
    \/ \E e \in Entity : BeginRead(k, e)
    \/ \E e \in Entity, as \in SUBSET Attribute : BeginCreate(k, e, as)
    \/ \E e \in Entity, as, del \in SUBSET Attribute, isAdmin \in BOOLEAN :
          BeginUpdate(k, e, as, del, isAdmin)
    \/ \E a \in Attribute : BeginDeleteAttribute(k, a)
    \/ CommitCreate(k) \/ CommitUpdate(k) \/ DeleteAttribute(k) \/ Read(k) \/ Abort(k)

Next ==
    \/ \E k \in Task : Request(k)
    \/ \E e \in Entity : DeleteUser(e)
    \/ \E a \in Attribute, t \in Type, editable \in BOOLEAN : AddAttribute(a, t, editable)

Spec == Init /\ [][Next]_vars

-----------------------------------------------------------------------------
(* Properties.                                                              *)

\* Every variable has its type; only existing users have values.
TypeOK ==
    /\ schema \in [Attribute -> Row \cup {NoType}]
    /\ rows \subseteq Entity
    /\ value \in [Entity -> Values]
    /\ \A e \in Entity \ rows : value[e] = NoValues
    /\ task \in [Task -> TaskState]
    /\ late \in [Entity -> SUBSET Attribute]
    /\ misread \subseteq Attribute

\* The built-in attributes stay in the schema as the migrations made them,
\* although delete_user_attribute checks one snapshot and deletes by name in
\* a later statement.
HardcodedKept ==
    \A a \in Hardcoded : schema[a] # NoType /\ schema[a].hardcoded
                         /\ schema[a].type = BuiltinType[a]

\* A value always belongs to an attribute of the schema, however updates and
\* deletions of attributes interleave.  It has the type the schema gives, also
\* when the attribute was deleted and added again with another type any number
\* of times, unless the attribute was added just while the value was being
\* written (the transaction looks for the name only; the value was serialized
\* before).
ValuesTyped ==
    \A e \in Entity, a \in Attribute : value[e][a] # NoType =>
        /\ schema[a] # NoType
        /\ a \in late[e] \/ schema[a].type = value[e][a]

\* A reader trips over a value (serialize_attribute and get_custom_attribute
\* unwrap) only when the attribute was added while the reader, or the request
\* that wrote the value, was under way.  No other history of the schema and of
\* the values does it, and a deletion during the request never does.
ReadersSafe == misread = {}

=============================================================================
