------------------------------ MODULE MCStartup -----------------------------
(* Small instances of Startup: the configurations an operator may use.      *)
EXTENDS Startup, TLC

KeySymmetry == Permutations(RandomKey)

\* The address every configuration gives; the other ones are met as users'.
ConfiguredEmail == CHOOSE e \in Email : TRUE

\* At most one force flag at a time, and a short password without any.
AnyConfig == {c \in Config : /\ c.email = ConfiguredEmail
                             /\ ~(c.forceKey /\ c.forcePass)
                             /\ c.pass \notin LongPassword =>
                                    ~c.forceKey /\ ~c.forcePass /\ c.seed = NoSeed}

\* Without a seed and without the force flags, with a long password.
PlainConfig == {c \in Config : /\ c.email = ConfiguredEmail
                               /\ c.seed = NoSeed /\ ~c.forceKey /\ ~c.forcePass
                               /\ c.pass \in LongPassword}
=============================================================================
