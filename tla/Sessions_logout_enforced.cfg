SPECIFICATION Spec
CONSTANTS
    User = {u1}
    Token = {x1, x2, x3}
    Task = {t1, t2}
    NoUser = NoUser
    NoToken = NoToken
    Workload = {"login", "refresh", "logout"}
    JwtLife = 2
    RefreshLife = 2
    ResetLife = 1
    MaxTime = 1
    MaxRestarts = 0
SYMMETRY TokenSymmetry
INVARIANT
    LogoutEnforced
