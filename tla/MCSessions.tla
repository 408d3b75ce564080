----------------------------- MODULE MCSessions -----------------------------
(* Small instances of Sessions: interchangeable tokens and handlers.        *)
EXTENDS Sessions, TLC

TokenSymmetry == Permutations(Token) \cup Permutations(Task)
=============================================================================
