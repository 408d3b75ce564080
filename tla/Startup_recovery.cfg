SPECIFICATION FairSpec
CONSTANTS
    User = {u1, u2}
    Email = {e1, e2}
    NoEmail = NoEmail
    Password = {p1}
    LongPassword = {p1}
    RandomKey = {k1, k2, k3}
    Seed = {s1}
    NoSeed = NoSeed
    NoKey = NoKey
    TruncatedKey = TruncatedKey
    NoPassword = NoPassword
    Configs <- PlainConfig
    MaxFaults = 2
PROPERTY
    RestartRecovers
