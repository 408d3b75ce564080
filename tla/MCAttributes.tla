---------------------------- MODULE MCAttributes -----------------------------
(* Instance of Attributes for TLC.                                           *)
EXTENDS Attributes, TLC

\* first_name is a string; mail is a column, shown as a string.
StringBuiltins == [a \in Hardcoded \cup Virtual |-> "String"]
TaskSymmetry == Permutations(Task)

=============================================================================
