SPECIFICATION Spec
CONSTANTS
    User = {u1, u2}
    Gid = {1, 2}
    GroupName = {"lldap_admin", "lldap_password_manager"}
    NoName = NoName
    Connection = {c1}
    NoOne = NoOne
    MaxGrants = 1
SYMMETRY UserSymmetry
INVARIANTS
    TypeOK
    AdminRemains
    AdminsProtected
