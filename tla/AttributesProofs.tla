--------------------------- MODULE AttributesProofs --------------------------
(* Proofs about the attribute schema: for any users, attributes, types and   *)
(* number of requests in flight.                                             *)
EXTENDS Attributes, TLAPS

-----------------------------------------------------------------------------
(* The inductive invariant.                                                  *)

\* What a request knows of an attribute that nobody added since it read the
\* schema is still right, if the attribute is still there.
SchemaHeld ==
    \A k \in Task, a \in Attribute :
        /\ task[k].op \in {"update", "create", "read"} /\ a \notin task[k].added
        /\ task[k].ins[a] # NoType /\ schema[a] # NoType
        => schema[a].type = task[k].ins[a]

\* No request is about to delete a built-in attribute.
HardcodedSpared ==
    \A k \in Task : task[k].op = "delete_attribute" => task[k].a \notin Hardcoded

IInv == TypeOK /\ HardcodedKept /\ HardcodedSpared /\ SchemaHeld /\ ValuesTyped /\ ReadersSafe

-----------------------------------------------------------------------------

USE AttributesAssumption

\* A request that is to write has a user and well-typed values.
LEMMA WriteTask ==
  ASSUME TypeOK, NEW k \in Task, task[k].op \in {"update", "create"}
  PROVE  /\ task[k].e \in Entity /\ task[k].ins \in Values
         /\ task[k].del \subseteq Attribute /\ task[k].added \subseteq Attribute
  BY DEF TypeOK, TaskState, Idle

\* So has a reader.
LEMMA ReadTask ==
  ASSUME TypeOK, NEW k \in Task, task[k].op = "read"
  PROVE  task[k].e \in Entity /\ task[k].ins \in Values /\ task[k].added \subseteq Attribute
  BY DEF TypeOK, TaskState, Idle

\* A request that is to delete an attribute names one.
LEMMA DeleteTask ==
  ASSUME TypeOK, NEW k \in Task, task[k].op = "delete_attribute"
  PROVE  task[k].a \in Attribute
  BY DEF TypeOK, TaskState, Idle

\* An attribute the public schema has, has a type in it.
LEMMA PublicType ==
  ASSUME TypeOK, NEW a \in Attribute, Public(a) # NoType
  PROVE  Public(a).type \in Type
  BY DEF TypeOK, Row, Public

\* What is made of attributes of the public schema are values.
LEMMA DeserializedType ==
  ASSUME TypeOK, NEW as \in SUBSET Attribute, \A a \in as : Public(a) # NoType
  PROVE  Deserialized(as) \in Values
  BY PublicType DEF Deserialized, Values

\* Their types are those of the rows of the schema, where there is one.
LEMMA DeserializedHeld ==
  ASSUME TypeOK, NEW as \in SUBSET Attribute, NEW a \in Attribute,
         Deserialized(as)[a] # NoType, schema[a] # NoType
  PROVE  schema[a].type = Deserialized(as)[a]
  BY DEF Deserialized, Public

\* Types are kept by every step.
LEMMA TypeStep ==
  ASSUME IInv, Next
  PROVE  TypeOK'
<1>0. TypeOK
  BY DEF IInv
<1>1. ASSUME NEW k \in Task, NEW e \in Entity, BeginRead(k, e)
      PROVE  TypeOK'
  <2>1. Deserialized({b \in Attribute : Public(b) # NoType}) \in Values
    BY <1>0, <1>1, DeserializedType DEF BeginRead, MayInsert
  <2>2. [op |-> "read", e |-> e, ins |-> Deserialized({b \in Attribute : Public(b) # NoType}),
         added |-> {}]
          \in TaskState
    BY <2>1 DEF TaskState
  <2>3. QED
    BY <1>0, <1>1, <2>2 DEF BeginRead, Begin, TypeOK
<1>2. ASSUME NEW k \in Task, NEW e \in Entity, NEW as \in SUBSET Attribute,
             BeginCreate(k, e, as)
      PROVE  TypeOK'
  <2>1. Deserialized(as) \in Values
    BY <1>0, <1>2, DeserializedType DEF BeginCreate, MayInsert
  <2>2. [op |-> "create", e |-> e, ins |-> Deserialized(as), del |-> {}, added |-> {}]
          \in TaskState
    BY <2>1 DEF TaskState
  <2>3. QED
    BY <1>0, <1>2, <2>2 DEF BeginCreate, Begin, TypeOK
<1>3. ASSUME NEW k \in Task, NEW e \in Entity, NEW as \in SUBSET Attribute,
             NEW del \in SUBSET Attribute, NEW isAdmin \in BOOLEAN,
             BeginUpdate(k, e, as, del, isAdmin)
      PROVE  TypeOK'
  <2>1. Deserialized(as) \in Values
    BY <1>0, <1>3, DeserializedType DEF BeginUpdate, MayInsert
  <2>2. [op |-> "update", e |-> e, ins |-> Deserialized(as), del |-> del, added |-> {}]
          \in TaskState
    BY <2>1 DEF TaskState
  <2>3. QED
    BY <1>0, <1>3, <2>2 DEF BeginUpdate, Begin, TypeOK
<1>4. ASSUME NEW k \in Task, NEW a \in Attribute, BeginDeleteAttribute(k, a)
      PROVE  TypeOK'
  BY <1>0, <1>4 DEF BeginDeleteAttribute, Begin, TaskState, Values, TypeOK
<1>5. ASSUME NEW k \in Task, CommitCreate(k)
      PROVE  TypeOK'
  BY <1>0, <1>5, WriteTask DEF CommitCreate, Done, Idle, TaskState, Values, NoValues,
     TypeOK
<1>6. ASSUME NEW k \in Task, CommitUpdate(k)
      PROVE  TypeOK'
  BY <1>0, <1>6, WriteTask DEF CommitUpdate, Done, Idle, TaskState, Values, NoValues,
     TypeOK
<1>7. ASSUME NEW k \in Task, DeleteAttribute(k)
      PROVE  TypeOK'
  BY <1>0, <1>7, DeleteTask DEF DeleteAttribute, ValuesWithout, Done, Idle, TaskState,
     Values, NoValues, TypeOK
<1>8. ASSUME NEW k \in Task, Read(k)
      PROVE  TypeOK'
  BY <1>0, <1>8, ReadTask DEF Read, Done, Idle, TaskState, TypeOK
<1>9. ASSUME NEW k \in Task, Abort(k)
      PROVE  TypeOK'
  BY <1>0, <1>9 DEF Abort, Done, Idle, TaskState, TypeOK
<1>10. ASSUME NEW e \in Entity, DeleteUser(e)
      PROVE  TypeOK'
  BY <1>0, <1>10 DEF DeleteUser, ValuesWithoutUser, Values, NoValues, TypeOK
<1>11. ASSUME NEW a \in Attribute, NEW t \in Type, NEW editable \in BOOLEAN,
             AddAttribute(a, t, editable)
      PROVE  TypeOK'
  <2>1. ASSUME NEW k \in Task PROVE task'[k] \in TaskState
    <3>1. CASE task[k].op \in {"update", "create"}
      <4>1. task[k] \in [op : {"update", "create"}, e : Entity, ins : Values,
                         del : SUBSET Attribute, added : SUBSET Attribute]
        BY <1>0, <3>1 DEF TypeOK, TaskState, Idle
      <4>2. [task[k] EXCEPT !.added = @ \cup {a}]
              \in [op : {"update", "create"}, e : Entity, ins : Values,
                  del : SUBSET Attribute, added : SUBSET Attribute]
        BY <4>1
      <4>3. QED
        BY <1>11, <3>1, <4>2 DEF AddAttribute, TaskState
    <3>2. CASE task[k].op = "read"
      <4>1. task[k] \in [op : {"read"}, e : Entity, ins : Values, added : SUBSET Attribute]
        BY <1>0, <3>2 DEF TypeOK, TaskState, Idle
      <4>2. [task[k] EXCEPT !.added = @ \cup {a}]
              \in [op : {"read"}, e : Entity, ins : Values, added : SUBSET Attribute]
        BY <4>1
      <4>3. QED
        BY <1>11, <3>2, <4>2 DEF AddAttribute, TaskState
    <3>3. CASE task[k].op \notin {"update", "create", "read"}
      BY <1>0, <1>11, <3>3 DEF AddAttribute, TypeOK
    <3>4. QED
      BY <3>1, <3>2, <3>3
  <2>2. task' \in [Task -> TaskState]
    BY <1>11, <2>1 DEF AddAttribute
  <2>3. QED
    BY <1>0, <1>11, <2>2 DEF AddAttribute, Row, TypeOK
<1>12. QED
  BY <1>0, <1>1, <1>2, <1>3, <1>4, <1>5, <1>6, <1>7, <1>8, <1>9, <1>10, <1>11 DEF Next,
     Request

\* The check of delete_user_attribute holds on until the deletion, because
\* the flag of an attribute never becomes true.
LEMMA SparedStep ==
  ASSUME IInv, Next
  PROVE  HardcodedSpared'
<1>0. TypeOK /\ HardcodedKept /\ HardcodedSpared
  BY DEF IInv
<1>1. ASSUME NEW k \in Task, NEW e \in Entity, BeginRead(k, e)
      PROVE  HardcodedSpared'
  BY <1>1, <1>0 DEF BeginRead, Begin, TypeOK, HardcodedSpared
<1>2. ASSUME NEW k \in Task, NEW e \in Entity, NEW as \in SUBSET Attribute,
             BeginCreate(k, e, as)
      PROVE  HardcodedSpared'
  BY <1>2, <1>0 DEF BeginCreate, Begin, TypeOK, HardcodedSpared
<1>3. ASSUME NEW k \in Task, NEW e \in Entity, NEW as \in SUBSET Attribute,
             NEW del \in SUBSET Attribute, NEW isAdmin \in BOOLEAN,
             BeginUpdate(k, e, as, del, isAdmin)
      PROVE  HardcodedSpared'
  BY <1>3, <1>0 DEF BeginUpdate, Begin, TypeOK, HardcodedSpared
<1>4. ASSUME NEW k \in Task, NEW a \in Attribute, BeginDeleteAttribute(k, a)
      PROVE  HardcodedSpared'
  <2>1. a \notin Hardcoded
    BY <1>4, <1>0 DEF BeginDeleteAttribute, Deletable, Public, HardcodedKept
  <2>2. QED
    BY <1>4, <1>0, <2>1 DEF BeginDeleteAttribute, Begin, TypeOK, HardcodedSpared
<1>5. ASSUME NEW k \in Task, CommitCreate(k)
      PROVE  HardcodedSpared'
  BY <1>5, <1>0 DEF CommitCreate, Done, Idle, TypeOK, HardcodedSpared
<1>6. ASSUME NEW k \in Task, CommitUpdate(k)
      PROVE  HardcodedSpared'
  BY <1>6, <1>0 DEF CommitUpdate, Done, Idle, TypeOK, HardcodedSpared
<1>7. ASSUME NEW k \in Task, DeleteAttribute(k)
      PROVE  HardcodedSpared'
  BY <1>7, <1>0 DEF DeleteAttribute, Done, Idle, TypeOK, HardcodedSpared
<1>8. ASSUME NEW k \in Task, Read(k)
      PROVE  HardcodedSpared'
  BY <1>8, <1>0 DEF Read, Done, Idle, TypeOK, HardcodedSpared
<1>9. ASSUME NEW k \in Task, Abort(k)
      PROVE  HardcodedSpared'
  BY <1>9, <1>0 DEF Abort, Done, Idle, TypeOK, HardcodedSpared
<1>10. ASSUME NEW e \in Entity, DeleteUser(e)
      PROVE  HardcodedSpared'
  BY <1>10, <1>0 DEF DeleteUser, TypeOK, HardcodedSpared
<1>11. ASSUME NEW a \in Attribute, NEW t \in Type, NEW editable \in BOOLEAN,
             AddAttribute(a, t, editable)
      PROVE  HardcodedSpared'
  BY <1>11, <1>0 DEF AddAttribute, TypeOK, HardcodedSpared
<1>12. QED
  BY <1>1, <1>2, <1>3, <1>4, <1>5, <1>6, <1>7, <1>8, <1>9, <1>10, <1>11 DEF Next, Request

\* Built-in attributes are neither deleted nor added anew.
LEMMA KeptStep ==
  ASSUME IInv, Next
  PROVE  HardcodedKept'
<1>0. TypeOK /\ HardcodedKept /\ HardcodedSpared
  BY DEF IInv
<1>1. ASSUME NEW k \in Task, NEW e \in Entity, BeginRead(k, e)
      PROVE  HardcodedKept'
  BY <1>1, <1>0 DEF BeginRead, Begin, HardcodedKept
<1>2. ASSUME NEW k \in Task, NEW e \in Entity, NEW as \in SUBSET Attribute,
             BeginCreate(k, e, as)
      PROVE  HardcodedKept'
  BY <1>2, <1>0 DEF BeginCreate, Begin, HardcodedKept
<1>3. ASSUME NEW k \in Task, NEW e \in Entity, NEW as \in SUBSET Attribute,
             NEW del \in SUBSET Attribute, NEW isAdmin \in BOOLEAN,
             BeginUpdate(k, e, as, del, isAdmin)
      PROVE  HardcodedKept'
  BY <1>3, <1>0 DEF BeginUpdate, Begin, HardcodedKept
<1>4. ASSUME NEW k \in Task, NEW a \in Attribute, BeginDeleteAttribute(k, a)
      PROVE  HardcodedKept'
  BY <1>4, <1>0 DEF BeginDeleteAttribute, Begin, HardcodedKept
<1>5. ASSUME NEW k \in Task, CommitCreate(k)
      PROVE  HardcodedKept'
  BY <1>5, <1>0 DEF CommitCreate, TypeOK, HardcodedKept
<1>6. ASSUME NEW k \in Task, CommitUpdate(k)
      PROVE  HardcodedKept'
  BY <1>6, <1>0 DEF CommitUpdate, TypeOK, HardcodedKept
<1>7. ASSUME NEW k \in Task, DeleteAttribute(k)
      PROVE  HardcodedKept'
  BY <1>7, <1>0, DeleteTask DEF DeleteAttribute, HardcodedSpared, TypeOK, HardcodedKept
<1>8. ASSUME NEW k \in Task, Read(k)
      PROVE  HardcodedKept'
  BY <1>8, <1>0 DEF Read, TypeOK, HardcodedKept
<1>9. ASSUME NEW k \in Task, Abort(k)
      PROVE  HardcodedKept'
  BY <1>9, <1>0 DEF Abort, TypeOK, HardcodedKept
<1>10. ASSUME NEW e \in Entity, DeleteUser(e)
      PROVE  HardcodedKept'
  BY <1>10, <1>0 DEF DeleteUser, TypeOK, HardcodedKept
<1>11. ASSUME NEW a \in Attribute, NEW t \in Type, NEW editable \in BOOLEAN,
             AddAttribute(a, t, editable)
      PROVE  HardcodedKept'
  BY <1>11, <1>0 DEF AddAttribute, TypeOK, HardcodedKept
<1>12. QED
  BY <1>1, <1>2, <1>3, <1>4, <1>5, <1>6, <1>7, <1>8, <1>9, <1>10, <1>11 DEF Next, Request

\* A request knows the type of every attribute that was not added since.
LEMMA HeldStep ==
  ASSUME IInv, Next
  PROVE  SchemaHeld'
<1>0. TypeOK /\ SchemaHeld
  BY DEF IInv
<1>1. ASSUME NEW k \in Task, NEW e \in Entity, BeginRead(k, e)
      PROVE  SchemaHeld'
  BY <1>1, <1>0, DeserializedHeld DEF BeginRead, Begin, TypeOK, SchemaHeld
<1>2. ASSUME NEW k \in Task, NEW e \in Entity, NEW as \in SUBSET Attribute,
             BeginCreate(k, e, as)
      PROVE  SchemaHeld'
  BY <1>2, <1>0, DeserializedHeld DEF BeginCreate, Begin, TypeOK, SchemaHeld
<1>3. ASSUME NEW k \in Task, NEW e \in Entity, NEW as \in SUBSET Attribute,
             NEW del \in SUBSET Attribute, NEW isAdmin \in BOOLEAN,
             BeginUpdate(k, e, as, del, isAdmin)
      PROVE  SchemaHeld'
  BY <1>3, <1>0, DeserializedHeld DEF BeginUpdate, Begin, TypeOK, SchemaHeld
<1>4. ASSUME NEW k \in Task, NEW a \in Attribute, BeginDeleteAttribute(k, a)
      PROVE  SchemaHeld'
  BY <1>4, <1>0 DEF BeginDeleteAttribute, Begin, TypeOK, SchemaHeld
<1>5. ASSUME NEW k \in Task, CommitCreate(k)
      PROVE  SchemaHeld'
  BY <1>5, <1>0 DEF CommitCreate, Done, Idle, TypeOK, SchemaHeld
<1>6. ASSUME NEW k \in Task, CommitUpdate(k)
      PROVE  SchemaHeld'
  BY <1>6, <1>0 DEF CommitUpdate, Done, Idle, TypeOK, SchemaHeld
<1>7. ASSUME NEW k \in Task, DeleteAttribute(k)
      PROVE  SchemaHeld'
  BY <1>7, <1>0, DeleteTask DEF DeleteAttribute, Done, Idle, TypeOK, SchemaHeld
<1>8. ASSUME NEW k \in Task, Read(k)
      PROVE  SchemaHeld'
  BY <1>8, <1>0 DEF Read, Done, Idle, TypeOK, SchemaHeld
<1>9. ASSUME NEW k \in Task, Abort(k)
      PROVE  SchemaHeld'
  BY <1>9, <1>0 DEF Abort, Done, Idle, TypeOK, SchemaHeld
<1>10. ASSUME NEW e \in Entity, DeleteUser(e)
      PROVE  SchemaHeld'
  BY <1>10, <1>0 DEF DeleteUser, TypeOK, SchemaHeld
<1>11. ASSUME NEW a \in Attribute, NEW t \in Type, NEW editable \in BOOLEAN,
             AddAttribute(a, t, editable)
      PROVE  SchemaHeld'
  <2> SUFFICES ASSUME NEW j \in Task, NEW b \in Attribute,
                      task'[j].op \in {"update", "create", "read"}, b \notin task'[j].added,
                      task'[j].ins[b] # NoType, schema'[b] # NoType
               PROVE  schema'[b].type = task'[j].ins[b]
    BY DEF SchemaHeld
  <2>1. task[j].op \in {"update", "create", "read"}
    BY <1>11 DEF AddAttribute
  <2>2. task'[j] = [task[j] EXCEPT !.added = @ \cup {a}]
    BY <1>11, <2>1 DEF AddAttribute
  <2>3. task'[j].ins = task[j].ins /\ task'[j].added = task[j].added \cup {a}
    BY <1>0, <2>1, <2>2 DEF TypeOK, TaskState, Idle
  <2>4. b # a /\ b \notin task[j].added /\ schema'[b] = schema[b]
    BY <1>0, <1>11, <2>3 DEF AddAttribute, TypeOK
  <2>5. QED
    BY <1>0, <2>1, <2>3, <2>4 DEF SchemaHeld
<1>12. QED
  BY <1>1, <1>2, <1>3, <1>4, <1>5, <1>6, <1>7, <1>8, <1>9, <1>10, <1>11 DEF Next, Request

\* The transaction looks each name up in the schema; a deletion cascades.
LEMMA TypedStep ==
  ASSUME IInv, Next
  PROVE  ValuesTyped'
<1>0. TypeOK /\ SchemaHeld /\ ValuesTyped
  BY DEF IInv
<1>1. ASSUME NEW k \in Task, NEW e \in Entity, BeginRead(k, e)
      PROVE  ValuesTyped'
  BY <1>1, <1>0 DEF BeginRead, Begin, ValuesTyped
<1>2. ASSUME NEW k \in Task, NEW e \in Entity, NEW as \in SUBSET Attribute,
             BeginCreate(k, e, as)
      PROVE  ValuesTyped'
  BY <1>2, <1>0 DEF BeginCreate, Begin, ValuesTyped
<1>3. ASSUME NEW k \in Task, NEW e \in Entity, NEW as \in SUBSET Attribute,
             NEW del \in SUBSET Attribute, NEW isAdmin \in BOOLEAN,
             BeginUpdate(k, e, as, del, isAdmin)
      PROVE  ValuesTyped'
  BY <1>3, <1>0 DEF BeginUpdate, Begin, ValuesTyped
<1>4. ASSUME NEW k \in Task, NEW a \in Attribute, BeginDeleteAttribute(k, a)
      PROVE  ValuesTyped'
  BY <1>4, <1>0 DEF BeginDeleteAttribute, Begin, ValuesTyped
<1>5. ASSUME NEW k \in Task, CommitCreate(k)
      PROVE  ValuesTyped'
  BY <1>5, <1>0, WriteTask DEF CommitCreate, Known, Inserted, SchemaHeld, TypeOK, Values, ValuesTyped
<1>6. ASSUME NEW k \in Task, CommitUpdate(k)
      PROVE  ValuesTyped'
  BY <1>6, <1>0, WriteTask DEF CommitUpdate, Known, Inserted, SchemaHeld, TypeOK, Values, ValuesTyped
<1>7. ASSUME NEW k \in Task, DeleteAttribute(k)
      PROVE  ValuesTyped'
  BY <1>7, <1>0, DeleteTask DEF DeleteAttribute, ValuesWithout, TypeOK, Values, ValuesTyped
<1>8. ASSUME NEW k \in Task, Read(k)
      PROVE  ValuesTyped'
  BY <1>8, <1>0 DEF Read, ValuesTyped
<1>9. ASSUME NEW k \in Task, Abort(k)
      PROVE  ValuesTyped'
  BY <1>9, <1>0 DEF Abort, ValuesTyped
<1>10. ASSUME NEW e \in Entity, DeleteUser(e)
      PROVE  ValuesTyped'
  BY <1>10, <1>0 DEF DeleteUser, ValuesWithoutUser, NoValues, TypeOK, ValuesTyped
<1>11. ASSUME NEW a \in Attribute, NEW t \in Type, NEW editable \in BOOLEAN,
             AddAttribute(a, t, editable)
      PROVE  ValuesTyped'
  BY <1>11, <1>0 DEF AddAttribute, Row, TypeOK, ValuesTyped
<1>12. QED
  BY <1>1, <1>2, <1>3, <1>4, <1>5, <1>6, <1>7, <1>8, <1>9, <1>10, <1>11 DEF Next, Request

\* The reader and the value agree on the type that the schema still has.
LEMMA SafeStep ==
  ASSUME IInv, Next
  PROVE  ReadersSafe'
<1>0. TypeOK /\ SchemaHeld /\ ValuesTyped /\ ReadersSafe
  BY DEF IInv
<1>1. ASSUME NEW k \in Task, NEW e \in Entity, BeginRead(k, e)
      PROVE  ReadersSafe'
  BY <1>1, <1>0 DEF BeginRead, Begin, ReadersSafe
<1>2. ASSUME NEW k \in Task, NEW e \in Entity, NEW as \in SUBSET Attribute,
             BeginCreate(k, e, as)
      PROVE  ReadersSafe'
  BY <1>2, <1>0 DEF BeginCreate, Begin, ReadersSafe
<1>3. ASSUME NEW k \in Task, NEW e \in Entity, NEW as \in SUBSET Attribute,
             NEW del \in SUBSET Attribute, NEW isAdmin \in BOOLEAN,
             BeginUpdate(k, e, as, del, isAdmin)
      PROVE  ReadersSafe'
  BY <1>3, <1>0 DEF BeginUpdate, Begin, ReadersSafe
<1>4. ASSUME NEW k \in Task, NEW a \in Attribute, BeginDeleteAttribute(k, a)
      PROVE  ReadersSafe'
  BY <1>4, <1>0 DEF BeginDeleteAttribute, Begin, ReadersSafe
<1>5. ASSUME NEW k \in Task, CommitCreate(k)
      PROVE  ReadersSafe'
  BY <1>5, <1>0 DEF CommitCreate, ReadersSafe
<1>6. ASSUME NEW k \in Task, CommitUpdate(k)
      PROVE  ReadersSafe'
  BY <1>6, <1>0 DEF CommitUpdate, ReadersSafe
<1>7. ASSUME NEW k \in Task, DeleteAttribute(k)
      PROVE  ReadersSafe'
  BY <1>7, <1>0 DEF DeleteAttribute, ReadersSafe
<1>8. ASSUME NEW k \in Task, Read(k)
      PROVE  ReadersSafe'
  <2>1. task[k].op = "read" /\ task[k].e \in Entity
    BY <1>0, <1>8, ReadTask DEF Read
  <2>2. \A a \in Attribute \ (task[k].added \cup late[task[k].e]) :
          ~Misread(value[task[k].e][a], task[k].ins[a])
    BY <1>0, <2>1 DEF Misread, SchemaHeld, ValuesTyped
  <2>3. QED
    BY <1>0, <1>8, <2>2 DEF Read, ReadersSafe
<1>9. ASSUME NEW k \in Task, Abort(k)
      PROVE  ReadersSafe'
  BY <1>9, <1>0 DEF Abort, ReadersSafe
<1>10. ASSUME NEW e \in Entity, DeleteUser(e)
      PROVE  ReadersSafe'
  BY <1>10, <1>0 DEF DeleteUser, ReadersSafe
<1>11. ASSUME NEW a \in Attribute, NEW t \in Type, NEW editable \in BOOLEAN,
             AddAttribute(a, t, editable)
      PROVE  ReadersSafe'
  BY <1>11, <1>0 DEF AddAttribute, ReadersSafe
<1>12. QED
  BY <1>1, <1>2, <1>3, <1>4, <1>5, <1>6, <1>7, <1>8, <1>9, <1>10, <1>11 DEF Next, Request

\* The first state satisfies the invariant.
LEMMA InitIInv == Init => IInv
<1> SUFFICES ASSUME Init PROVE IInv
  OBVIOUS
<1>1. TypeOK
  BY DEF Init, TypeOK, Row, Values, NoValues, TaskState
<1>2. HardcodedKept
  <2>1. \A a \in Hardcoded :
           [type |-> BuiltinType[a], editable |-> TRUE, hardcoded |-> TRUE] \in Row
    BY DEF Row
  <2>2. QED
    BY <2>1 DEF Init, HardcodedKept
<1>3. HardcodedSpared
  BY DEF Init, HardcodedSpared, Idle
<1>4. SchemaHeld /\ ValuesTyped /\ ReadersSafe
  BY DEF Init, SchemaHeld, ValuesTyped, ReadersSafe, NoValues, Idle
<1>5. QED
  BY <1>1, <1>2, <1>3, <1>4 DEF IInv

\* The invariant is inductive.
THEOREM Invariance == Spec => []IInv
<1>1. IInv /\ [Next]_vars => IInv'
  <2> SUFFICES ASSUME IInv, [Next]_vars PROVE IInv'
    OBVIOUS
  <2>1. CASE Next
    BY <2>1, TypeStep, SparedStep, KeptStep, HeldStep, TypedStep, SafeStep DEF IInv
  <2>2. CASE UNCHANGED vars
    BY <2>2 DEF vars, IInv, TypeOK, HardcodedKept, HardcodedSpared, SchemaHeld,
       ValuesTyped, ReadersSafe
  <2>3. QED
    BY <2>1, <2>2
<1>2. QED
  BY InitIInv, <1>1, PTL DEF Spec

\* Types, and no values without their user (user_attributes, ON DELETE
\* CASCADE), for any number of users, attributes and requests.
THEOREM TypeCorrect == Spec => []TypeOK
<1>1. IInv => TypeOK
  BY DEF IInv
<1>2. QED
  BY <1>1, Invariance, PTL

\* Built-in attributes stay in the schema although delete_user_attribute
\* checks and deletes in two steps.
THEOREM BuiltinsKept == Spec => []HardcodedKept
<1>1. IInv => HardcodedKept
  BY DEF IInv
<1>2. QED
  BY <1>1, Invariance, PTL

\* Values are owned by the schema and of its type, unless the attribute was
\* added while the value was written (update_user_with_transaction,
\* create_user).
THEOREM ValuesStayTyped == Spec => []ValuesTyped
<1>1. IInv => ValuesTyped
  BY DEF IInv
<1>2. QED
  BY <1>1, Invariance, PTL

\* A reader is misled only about an attribute that was added while it, or the
\* writer of the value, was under way (serialize_attribute,
\* get_custom_attribute).
THEOREM ReadersStaySafe == Spec => []ReadersSafe
<1>1. IInv => ReadersSafe
  BY DEF IInv
<1>2. QED
  BY <1>1, Invariance, PTL

=============================================================================
