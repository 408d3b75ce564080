---------------------------- MODULE SchemaUpgrade ---------------------------
(***************************************************************************)
(* What the upgrade of the database promises: a database has a version, the *)
(* tables of that version and the texts of its users.  Until it has one,    *)
(* tables are added; from then on it moves to the next version in one step, *)
(* tables and texts together.  The promise is for databases that can undo   *)
(* changes of tables, and ends when an error is taken for an answer.        *)
(***************************************************************************)
EXTENDS Naturals

CONSTANTS
    LastVersion,     \* the version of this server
    ObjectsAt(_)     \* the tables, columns and indexes of each version

VARIABLES version, objects, texts,
          bound   \* the promise holds

vars == <<version, objects, texts, bound>>

Init ==
    bound =>
        /\ version \in 0..(LastVersion + 1)
        /\ version > 0 => objects = ObjectsAt(version)

\* Tables and columns are created as long as there is no version.
Prepare ==
    /\ bound /\ version = 0
    /\ objects \subseteq objects'
    /\ UNCHANGED <<version, texts, bound>>

ToNextVersion ==
    /\ bound /\ version < LastVersion
    /\ version' = version + 1
    /\ objects' = ObjectsAt(version')
    /\ UNCHANGED <<texts, bound>>

Unbound == ~bound'

Next == Prepare \/ ToNextVersion \/ Unbound

Spec == Init /\ [][Next]_vars
=============================================================================
