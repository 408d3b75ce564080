SPECIFICATION Spec
CONSTANTS
    User = {u1}
    Token = {x1, x2, x3}
    Task = {t1, t2}
    NoUser = NoUser
    NoToken = NoToken
    Workload = {"login", "refresh", "logout", "reset_step1", "reset_step2"}
    JwtLife = 1
    RefreshLife = 1
    ResetLife = 1
    MaxTime = 2
    MaxRestarts = 1
SYMMETRY TokenSymmetry
INVARIANTS
    TypeOK
    HeldJwtsRegistered
    LogoutDurable
PROPERTY
    RejectionStable
