----------------------------- MODULE MCDirectory -----------------------------
(* Instance of Directory for TLC.                                            *)
EXTENDS Directory, TLC

UserSymmetry == Permutations(User)

=============================================================================
