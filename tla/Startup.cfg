SPECIFICATION Spec
CONSTANTS
    User = {u1, u2}
    Email = {e1, e2}
    NoEmail = NoEmail
    Password = {p1, short}
    LongPassword = {p1}
    RandomKey = {k1, k2}
    Seed = {s1}
    NoSeed = NoSeed
    NoKey = NoKey
    TruncatedKey = TruncatedKey
    NoPassword = NoPassword
    Configs <- AnyConfig
    MaxFaults = 1
SYMMETRY KeySymmetry
INVARIANTS
    TypeOK
    PasswordsUsable
    PasswordsKept
    AdminGroupFound
PROPERTY
    ServingHasAdmin
