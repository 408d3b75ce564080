--------------------------- MODULE MCMigrationTool ---------------------------
(* An instance of MigrationTool: the ids of two users, one with a capital,  *)
(* and two groups; a member is no user.                                     *)
EXTENDS MigrationTool

MCText == {"bob", "Eve", "eve", "staff"}
MCLower == [t \in MCText |-> IF t = "Eve" THEN "eve" ELSE t]

MCUsers ==
    [people |-> <<[dn |-> "d1", attrs |-> [uid |-> <<"bob">>, mail |-> <<"m">>]],
                  [dn |-> "d2", attrs |-> [sAMAccountName |-> <<"Eve">>, mail |-> <<"n">>]]>>,
     all |-> <<[dn |-> "d1", attrs |-> [uid |-> <<"bob">>]]>>]

MCGroups ==
    [people |-> <<[attrs |-> [cn |-> <<"staff">>, member |-> <<"d0", "d1">>]],
                  [attrs |-> [cn |-> <<"Eve", "x">>, name |-> <<"eve">>,
                              uniqueMember |-> <<"d2", "d1">>]]>>,
     all |-> <<[attrs |-> [member |-> <<"d1">>]]>>]
=============================================================================
