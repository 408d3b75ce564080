--------------------------- MODULE MCPasswordForms ---------------------------
(* The instance of PasswordForms: passwords p and q, and the short one s.    *)
EXTENDS PasswordForms

MCFields == {[old |-> "p", password |-> "q", confirm |-> "q"],
             [old |-> "q", password |-> "p", confirm |-> "p"],
             [old |-> "p", password |-> "s", confirm |-> "s"],
             [old |-> "p", password |-> "p", confirm |-> "q"]}
=============================================================================
