SPECIFICATION FairSpec
CONSTANTS
    User = {u1}
    Token = {x1, x2}
    Task = {t1}
    NoUser = NoUser
    NoToken = NoToken
    Workload = {"login", "reset_step1", "reset_step2"}
    JwtLife = 1
    RefreshLife = 1
    ResetLife = 1
    MaxTime = 2
    MaxRestarts = 1
PROPERTY
    StaleRowsRemoved
