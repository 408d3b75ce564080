------------------------------- MODULE Listing -------------------------------
(***************************************************************************)
(* list_users (sql_user_backend_handler.rs) and list_groups                *)
(* (sql_group_backend_handler.rs): the entities that match a filter come   *)
(* from one query, the rows of their attributes from a second one without  *)
(* a common transaction, and the two sorted lists are merged.  In between  *)
(* other requests create, change and delete entities.                      *)
(***************************************************************************)
EXTENDS Naturals, Sequences, FiniteSets, Functions

CONSTANTS
    Id,         \* ids, in the order of the database (user ids, group ids)
    Attribute   \* attribute names, in the order of the database

\* The columns of both have a limited width.
ASSUME ListingAssumption ==
    /\ Id \subseteq Nat /\ Attribute \subseteq Nat
    /\ IsFiniteSet(Id) /\ IsFiniteSet(Attribute)

VARIABLES
    entities,   \* rows of the table "users" or "groups"
    matching,   \* those that the filter selects
    attrs,      \* the attributes that each entity has a value of
    pc,         \* "idle", "listed" (between the queries) or "merging"
    list,       \* the result of the first query
    rows,       \* the result of the second query
    next,       \* how many of them the iterator has passed
    answer      \* what each entity of the list is given, by position: rows
                \* of the attribute table

stored == <<entities, matching, attrs>>
listingVars == <<stored, pc, list, rows, next, answer>>

Row == [id : Id, attribute : Attribute]

ListingInit ==
    /\ entities \in SUBSET Id /\ matching \in SUBSET entities
    /\ attrs \in [Id -> SUBSET Attribute]
    /\ \A i \in Id \ entities : attrs[i] = {}
    /\ pc = "idle" /\ list = <<>> /\ rows = <<>> /\ next = 0 /\ answer = <<>>

-----------------------------------------------------------------------------
(* The listing.                                                             *)

\* What precedes what under ORDER BY.
ById == {p \in Id \X Id : p[1] < p[2]}
ByIdAndName ==
    {p \in Row \X Row :
        \/ p[1].id < p[2].id
        \/ p[1].id = p[2].id /\ p[1].attribute < p[2].attribute}

\* The elements of S in that order: the one at k has k - 1 before it.
Ordered(S, order) ==
    [k \in 1 .. Cardinality(S) |->
        CHOOSE x \in S : Cardinality({y \in S : <<y, x>> \in order}) = k - 1]

FirstQuery ==
    /\ pc = "idle"
    /\ list' = Ordered(matching, ById)
    /\ pc' = "listed"
    /\ UNCHANGED <<stored, rows, next, answer>>

\* The attributes of the entities that match now, by id, then by name.
AttributeRows ==
    Ordered({r \in Row : r.id \in matching /\ r.attribute \in attrs[r.id]}, ByIdAndName)

SecondQuery ==
    /\ pc = "listed"
    /\ rows' = AttributeRows /\ next' = 0
    /\ pc' = "merging"
    /\ UNCHANGED <<stored, list, answer>>

\* Mutant: the iterator is not asked whose row it is.
WholeRun(i) == Len(rows) - next

\* take_while_ref: how many of the rows to come belong to i before one that
\* does not.
Run(i) ==
    CHOOSE n \in 0 .. Len(rows) - next :
        /\ \A j \in next + 1 .. next + n : rows[j].id = i
        /\ next + n = Len(rows) \/ rows[next + n + 1].id # i

\* Mutant: the row that ends a run is used up (take_while).
AfterRunAndNext(i) == IF next + Run(i) < Len(rows) THEN next + Run(i) + 1 ELSE Len(rows)

\* Where the iterator is then: the row that ends a run is not used up.
AfterRun(i) == next + Run(i)

\* The body of the loop over the entities.
Populate ==
    /\ pc = "merging" /\ Len(answer) < Len(list)
    /\ LET i == list[Len(answer) + 1] IN
       /\ answer' = Append(answer, [j \in 1 .. Run(i) |-> rows[next + j]])
       /\ next' = AfterRun(i)
    /\ UNCHANGED <<stored, pc, list, rows>>

Return ==
    /\ pc = "merging" /\ Len(answer) = Len(list)
    /\ pc' = "idle" /\ list' = <<>> /\ rows' = <<>> /\ next' = 0 /\ answer' = <<>>
    /\ UNCHANGED stored

-----------------------------------------------------------------------------
(* Other requests, each of them one transaction.                            *)

Create(i, as, match) ==
    /\ i \notin entities
    /\ entities' = entities \cup {i}
    /\ matching' = IF match THEN matching \cup {i} ELSE matching
    /\ attrs' = [attrs EXCEPT ![i] = as]
    /\ UNCHANGED <<pc, list, rows, next, answer>>

\* New attributes, and memberships that may change what the filter says.
Update(i, as, match) ==
    /\ i \in entities
    /\ matching' = IF match THEN matching \cup {i} ELSE matching \ {i}
    /\ attrs' = [attrs EXCEPT ![i] = as]
    /\ UNCHANGED <<entities, pc, list, rows, next, answer>>

\* Mutant: the rows of the attributes stay.
RowsKept(i) == attrs

\* ON DELETE CASCADE.
RowsWithout(i) == [attrs EXCEPT ![i] = {}]

Delete(i) ==
    /\ i \in entities
    /\ entities' = entities \ {i} /\ matching' = matching \ {i}
    /\ attrs' = RowsWithout(i)
    /\ UNCHANGED <<pc, list, rows, next, answer>>

\* The merge works on what the queries returned: requests in the meantime would
\* make no difference to it.
OtherRequest ==
    /\ pc # "merging"
    /\ \/ \E i \in Id, as \in SUBSET Attribute, match \in BOOLEAN :
             Create(i, as, match) \/ Update(i, as, match)
       \/ \E i \in Id : Delete(i)

ListingNext == FirstQuery \/ SecondQuery \/ Populate \/ Return \/ OtherRequest

ListingSpec == ListingInit /\ [][ListingNext]_listingVars

-----------------------------------------------------------------------------
(* Properties.                                                              *)

\* Every variable has its type; attributes belong to existing entities.
ListingTypes ==
    /\ entities \subseteq Id /\ matching \subseteq entities
    /\ attrs \in [Id -> SUBSET Attribute]
    /\ \A i \in Id \ entities : attrs[i] = {}
    /\ pc \in {"idle", "listed", "merging"}
    /\ list \in Seq(Id) /\ rows \in Seq(Row) /\ next \in 0 .. Len(rows)
    /\ answer \in Seq(Seq(Row)) /\ Len(answer) <= Len(list)

\* The rows an entity should have been given.
OwnRows(i) == {[id |-> i, attribute |-> a] : a \in attrs[i]}

\* No entity of the answer of list_users is given a row of another one,
\* however the tables change between the queries.
OnlyOwnAttributes ==
    \A k \in DOMAIN answer : Range(answer[k]) \subseteq OwnRows(list[k])

\* Some entity before i has come to match since the first query, with
\* attributes: its rows are in the way.
Blocked(i) ==
    \E j \in matching \ Range(list) : j < i /\ attrs[j] # {}

\* An entity that still matches is listed with all its attributes, unless one
\* that sorts before it came to match between the queries of list_users;
\* entities that were deleted, changed or came later do no harm.
CompleteUnlessBlocked ==
    \A k \in DOMAIN answer : list[k] \in matching /\ ~Blocked(list[k]) =>
        Range(answer[k]) = OwnRows(list[k])

=============================================================================
