--------------------------- MODULE DirectoryProofs --------------------------
(* Proofs about Directory, for any users, groups, connections and grants,   *)
(* and about Listing, which reads the tables that Directory changes.        *)
EXTENDS Directory, Listing, FiniteSetTheorems, TLAPS

\* The group with id 1 is lldap_admin, and no other is.
AdminGroup ==
    /\ name[1] = "lldap_admin"
    /\ \A g \in Gid : name[g] = "lldap_admin" => g = 1
    /\ \A g \in Gid : name[g] # NoName => g \in used

\* What was begun and not finished for a steady administrator was begun by
\* themself or by an administrator.
BegunByRight ==
    /\ \A r \in grants : r.target \in steady =>
          r.by.permission = "Admin" \/ r.by.user = r.target
    /\ \A c \in Connection : session[c].pc = "change" =>
          /\ session[c].info \in ValidationResults
          /\ session[c].target \in User
          /\ session[c].target \in steady =>
                session[c].info.permission = "Admin" \/ session[c].info.user = session[c].target

\* Only a session in the middle of a bind or of a change has a target.
BindTarget ==
    \A c \in Connection : session[c].pc = "permissions" => session[c].target \in User

\* They are administrators.
SteadyAreAdmins == steady \subseteq Admins

IInv ==
    /\ TypeOK
    /\ SteadyAreAdmins
    /\ AdminGroup
    /\ BindTarget
    /\ BegunByRight
    /\ AdminRemains
    /\ AdminsProtected

-----------------------------------------------------------------------------

USE DirectoryAssumption

\* The administrators are the members of group 1.
LEMMA AdminsById == AdminGroup => Admins = {u \in users : <<u, 1>> \in members}
  BY DEF AdminGroup, Admins, InGroup

LEMMA AdminsByIdNext == AdminGroup' => Admins' = {u \in users' : <<u, 1>> \in members'}
  BY DEF AdminGroup, Admins, InGroup

\* A permission is one of the four.
LEMMA PermissionType == ASSUME NEW u PROVE PermissionOf(u) \in Permission
  BY DEF PermissionOf, Permission

\* No step touches the name of group 1 or gives it to another group.
LEMMA AdminGroupStep ==
  ASSUME IInv, Next
  PROVE  AdminGroup'
<1> USE DEF AdminGroup
<1>0. TypeOK /\ AdminGroup
  BY DEF IInv
<1>1. ASSUME NEW u \in User, Login(u)
      PROVE  AdminGroup'
  BY <1>1, <1>0 DEF Login, Claims, tables, TypeOK
<1>2. ASSUME NEW u \in User, ResetLogin(u)
      PROVE  AdminGroup'
  BY <1>2, <1>0 DEF ResetLogin, tables, TypeOK
<1>3. ASSUME NEW i \in ValidationResults, NEW u \in User, CreateUser(i, u)
      PROVE  AdminGroup'
  BY <1>3, <1>0 DEF CreateUser, AsAdmin, tables, TypeOK
<1>4. ASSUME NEW i \in ValidationResults, NEW u \in User, DeleteUser(i, u)
      PROVE  AdminGroup'
  BY <1>4, <1>0 DEF DeleteUser, AsAdmin, IsSelf, StillAdmins, tables, TypeOK
<1>5. ASSUME NEW i \in ValidationResults, NEW u \in User, RegisterStart(i, u)
      PROVE  AdminGroup'
  BY <1>5, <1>0 DEF RegisterStart, CanChangePassword, tables, TypeOK
<1>6. ASSUME NEW i \in ValidationResults, NEW u \in User, NEW g \in Gid, AddUserToGroup(i,
             u, g)
      PROVE  AdminGroup'
  BY <1>6, <1>0 DEF AddUserToGroup, AsAdmin, tables, TypeOK
<1>7. ASSUME NEW i \in ValidationResults, NEW u \in User, NEW g \in Gid,
             RemoveUserFromGroup(i, u, g)
      PROVE  AdminGroup'
  BY <1>7, <1>0 DEF RemoveUserFromGroup, AsAdmin, IsSelf, StillAdmins, tables, TypeOK
<1>8. ASSUME NEW i \in ValidationResults, NEW n \in GroupName, CreateGroup(i, n)
      PROVE  AdminGroup'
  BY <1>8, <1>0 DEF CreateGroup, AsAdmin, NameFree, tables, TypeOK
<1>9. ASSUME NEW i \in ValidationResults, NEW g \in Gid, NEW n \in GroupName,
             UpdateGroup(i, g, n)
      PROVE  AdminGroup'
  BY <1>9, <1>0 DEF UpdateGroup, AsAdmin, NameFree, StillAdmins, tables, TypeOK
<1>10. ASSUME NEW i \in ValidationResults, NEW g \in Gid, DeleteGroup(i, g)
      PROVE  AdminGroup'
  BY <1>10, <1>0 DEF DeleteGroup, AsAdmin, MembershipsWithout, StillAdmins, tables, TypeOK
<1>11. ASSUME NEW r \in grants, RegisterFinish(r)
      PROVE  AdminGroup'
  BY <1>11, <1>0 DEF RegisterFinish, SetPassword, tables, TypeOK
<1>12. ASSUME NEW c \in Connection, NEW u \in User, Bind(c, u)
      PROVE  AdminGroup'
  BY <1>12, <1>0 DEF Bind, tables, TypeOK
<1>13. ASSUME NEW c \in Connection, NEW u \in User, LdapAdd(c, u)
      PROVE  AdminGroup'
  BY <1>13, <1>0 DEF LdapAdd, CreateUser, AsAdmin, tables, TypeOK
<1>14. ASSUME NEW c \in Connection, NEW u \in User, LdapModify(c, u)
      PROVE  AdminGroup'
  BY <1>14, <1>0 DEF LdapModify, CanRead, CanChangePassword, Closed, tables, TypeOK
<1>15. ASSUME NEW c \in Connection, GetPermissions(c)
      PROVE  AdminGroup'
  BY <1>15, <1>0 DEF GetPermissions, Claims, tables, TypeOK
<1>16. ASSUME NEW c \in Connection, Unbind(c)
      PROVE  AdminGroup'
  BY <1>16, <1>0 DEF Unbind, Closed, tables, TypeOK
<1>17. ASSUME NEW c \in Connection, LdapChange(c)
      PROVE  AdminGroup'
  BY <1>17, <1>0 DEF LdapChange, SetPassword, tables, TypeOK
<1>18. ASSUME NEW c \in Connection, LdapChangeFails(c)
      PROVE  AdminGroup'
  BY <1>18, <1>0 DEF LdapChangeFails, tables, TypeOK
<1>99. tokens \subseteq ValidationResults
  BY <1>0 DEF TypeOK
<1> QED
  BY <1>99, <1>1, <1>2, <1>3, <1>4, <1>5, <1>6, <1>7, <1>8, <1>9, <1>10, <1>11, <1>12,
     <1>13, <1>14, <1>15, <1>16, <1>17, <1>18 DEF Next, Mutation, LdapMessage

\* Every step keeps the types.
LEMMA TypeStep ==
  ASSUME IInv, Next
  PROVE  TypeOK'
<1> USE DEF TypeOK
<1>0. TypeOK /\ BindTarget /\ BegunByRight
  BY DEF IInv
<1>1. ASSUME NEW u \in User, Login(u)
      PROVE  TypeOK'
  BY <1>1, <1>0, PermissionType DEF Login, Claims, tables, Session, Grant,
     ValidationResults
<1>2. ASSUME NEW u \in User, ResetLogin(u)
      PROVE  TypeOK'
  BY <1>2, <1>0 DEF ResetLogin, tables, Session, Grant, ValidationResults, Permission
<1>3. ASSUME NEW i \in ValidationResults, NEW u \in User, CreateUser(i, u)
      PROVE  TypeOK'
  BY <1>3, <1>0 DEF CreateUser, AsAdmin, tables, Session, Grant, ValidationResults
<1>4. ASSUME NEW i \in ValidationResults, NEW u \in User, DeleteUser(i, u)
      PROVE  TypeOK'
  BY <1>4, <1>0 DEF DeleteUser, AsAdmin, IsSelf, StillAdmins, tables, Session, Grant,
     ValidationResults, Admins
<1>5. ASSUME NEW i \in ValidationResults, NEW u \in User, RegisterStart(i, u)
      PROVE  TypeOK'
  BY <1>5, <1>0 DEF RegisterStart, CanChangePassword, tables, Session, Grant,
     ValidationResults
<1>6. ASSUME NEW i \in ValidationResults, NEW u \in User, NEW g \in Gid, AddUserToGroup(i,
             u, g)
      PROVE  TypeOK'
  BY <1>6, <1>0 DEF AddUserToGroup, AsAdmin, tables, Session, Grant, ValidationResults
<1>7. ASSUME NEW i \in ValidationResults, NEW u \in User, NEW g \in Gid,
             RemoveUserFromGroup(i, u, g)
      PROVE  TypeOK'
  BY <1>7, <1>0 DEF RemoveUserFromGroup, AsAdmin, IsSelf, StillAdmins, tables, Session,
     Grant, ValidationResults
<1>8. ASSUME NEW i \in ValidationResults, NEW n \in GroupName, CreateGroup(i, n)
      PROVE  TypeOK'
  BY <1>8, <1>0 DEF CreateGroup, AsAdmin, NameFree, tables, Session, Grant,
     ValidationResults
<1>9. ASSUME NEW i \in ValidationResults, NEW g \in Gid, NEW n \in GroupName,
             UpdateGroup(i, g, n)
      PROVE  TypeOK'
  BY <1>9, <1>0 DEF UpdateGroup, AsAdmin, NameFree, StillAdmins, tables, Session, Grant,
     ValidationResults
<1>10. ASSUME NEW i \in ValidationResults, NEW g \in Gid, DeleteGroup(i, g)
      PROVE  TypeOK'
  BY <1>10, <1>0 DEF DeleteGroup, AsAdmin, MembershipsWithout, StillAdmins, tables,
     Session, Grant, ValidationResults
<1>11. ASSUME NEW r \in grants, RegisterFinish(r)
      PROVE  TypeOK'
  BY <1>11, <1>0 DEF RegisterFinish, SetPassword, tables, Session, Grant,
     ValidationResults, BegunByRight
<1>12. ASSUME NEW c \in Connection, NEW u \in User, Bind(c, u)
      PROVE  TypeOK'
  BY <1>12, <1>0 DEF Bind, tables, Session, Grant, ValidationResults
<1>13. ASSUME NEW c \in Connection, NEW u \in User, LdapAdd(c, u)
      PROVE  TypeOK'
  BY <1>13, <1>0 DEF LdapAdd, CreateUser, AsAdmin, tables, Session, Grant,
     ValidationResults
<1>14. ASSUME NEW c \in Connection, NEW u \in User, LdapModify(c, u)
      PROVE  TypeOK'
  BY <1>14, <1>0 DEF LdapModify, CanRead, CanChangePassword, Closed, tables, Session,
     Grant, ValidationResults
<1>15. ASSUME NEW c \in Connection, GetPermissions(c)
      PROVE  TypeOK'
  BY <1>15, <1>0, PermissionType DEF GetPermissions, Claims, tables, Session, Grant,
     ValidationResults, BindTarget
<1>16. ASSUME NEW c \in Connection, Unbind(c)
      PROVE  TypeOK'
  BY <1>16, <1>0 DEF Unbind, Closed, tables, Session, Grant, ValidationResults
<1>17. ASSUME NEW c \in Connection, LdapChange(c)
      PROVE  TypeOK'
  BY <1>17, <1>0 DEF LdapChange, SetPassword, tables, Session, Grant, ValidationResults,
     BegunByRight
<1>18. ASSUME NEW c \in Connection, LdapChangeFails(c)
      PROVE  TypeOK'
  BY <1>18, <1>0 DEF LdapChangeFails, tables, Session, Grant, ValidationResults
<1>99. tokens \subseteq ValidationResults
  BY <1>0 DEF TypeOK
<1> QED
  BY <1>99, <1>1, <1>2, <1>3, <1>4, <1>5, <1>6, <1>7, <1>8, <1>9, <1>10, <1>11, <1>12,
     <1>13, <1>14, <1>15, <1>16, <1>17, <1>18 DEF Next, Mutation, LdapMessage

\* Who stays steady stays administrator.
LEMMA SteadyStep ==
  ASSUME IInv, Next
  PROVE  SteadyAreAdmins'
<1> USE DEF SteadyAreAdmins
<1>0. TypeOK /\ AdminGroup /\ SteadyAreAdmins
  BY DEF IInv
<1>1. ASSUME NEW u \in User, Login(u)
      PROVE  SteadyAreAdmins'
  BY <1>1, <1>0, AdminsById, AdminsByIdNext, AdminGroupStep DEF Login, Claims, tables,
     TypeOK
<1>2. ASSUME NEW u \in User, ResetLogin(u)
      PROVE  SteadyAreAdmins'
  BY <1>2, <1>0, AdminsById, AdminsByIdNext, AdminGroupStep DEF ResetLogin, tables, TypeOK
<1>3. ASSUME NEW i \in ValidationResults, NEW u \in User, CreateUser(i, u)
      PROVE  SteadyAreAdmins'
  BY <1>3, <1>0, AdminsById, AdminsByIdNext, AdminGroupStep DEF CreateUser, AsAdmin,
     tables, TypeOK
<1>4. ASSUME NEW i \in ValidationResults, NEW u \in User, DeleteUser(i, u)
      PROVE  SteadyAreAdmins'
  BY <1>4, <1>0, AdminsById, AdminsByIdNext, AdminGroupStep DEF DeleteUser, AsAdmin,
     IsSelf, StillAdmins, tables, TypeOK
<1>5. ASSUME NEW i \in ValidationResults, NEW u \in User, RegisterStart(i, u)
      PROVE  SteadyAreAdmins'
  BY <1>5, <1>0, AdminsById, AdminsByIdNext, AdminGroupStep DEF RegisterStart,
     CanChangePassword, tables, TypeOK
<1>6. ASSUME NEW i \in ValidationResults, NEW u \in User, NEW g \in Gid, AddUserToGroup(i,
             u, g)
      PROVE  SteadyAreAdmins'
  BY <1>6, <1>0, AdminsById, AdminsByIdNext, AdminGroupStep DEF AddUserToGroup, AsAdmin,
     tables, TypeOK
<1>7. ASSUME NEW i \in ValidationResults, NEW u \in User, NEW g \in Gid,
             RemoveUserFromGroup(i, u, g)
      PROVE  SteadyAreAdmins'
  BY <1>7, <1>0, AdminsById, AdminsByIdNext, AdminGroupStep DEF RemoveUserFromGroup,
     AsAdmin, IsSelf, StillAdmins, tables, TypeOK
<1>8. ASSUME NEW i \in ValidationResults, NEW n \in GroupName, CreateGroup(i, n)
      PROVE  SteadyAreAdmins'
  BY <1>8, <1>0, AdminsById, AdminsByIdNext, AdminGroupStep DEF CreateGroup, AsAdmin,
     NameFree, tables, TypeOK
<1>9. ASSUME NEW i \in ValidationResults, NEW g \in Gid, NEW n \in GroupName,
             UpdateGroup(i, g, n)
      PROVE  SteadyAreAdmins'
  BY <1>9, <1>0, AdminsById, AdminsByIdNext, AdminGroupStep DEF UpdateGroup, AsAdmin,
     NameFree, StillAdmins, tables, TypeOK
<1>10. ASSUME NEW i \in ValidationResults, NEW g \in Gid, DeleteGroup(i, g)
      PROVE  SteadyAreAdmins'
  BY <1>10, <1>0, AdminsById, AdminsByIdNext, AdminGroupStep DEF DeleteGroup, AsAdmin,
     MembershipsWithout, StillAdmins, tables, TypeOK
<1>11. ASSUME NEW r \in grants, RegisterFinish(r)
      PROVE  SteadyAreAdmins'
  BY <1>11, <1>0, AdminsById, AdminsByIdNext, AdminGroupStep DEF RegisterFinish,
     SetPassword, tables, TypeOK
<1>12. ASSUME NEW c \in Connection, NEW u \in User, Bind(c, u)
      PROVE  SteadyAreAdmins'
  BY <1>12, <1>0, AdminsById, AdminsByIdNext, AdminGroupStep DEF Bind, tables, TypeOK
<1>13. ASSUME NEW c \in Connection, NEW u \in User, LdapAdd(c, u)
      PROVE  SteadyAreAdmins'
  BY <1>13, <1>0, AdminsById, AdminsByIdNext, AdminGroupStep DEF LdapAdd, CreateUser,
     AsAdmin, tables, TypeOK
<1>14. ASSUME NEW c \in Connection, NEW u \in User, LdapModify(c, u)
      PROVE  SteadyAreAdmins'
  BY <1>14, <1>0, AdminsById, AdminsByIdNext, AdminGroupStep DEF LdapModify, CanRead,
     CanChangePassword, Closed, tables, TypeOK
<1>15. ASSUME NEW c \in Connection, GetPermissions(c)
      PROVE  SteadyAreAdmins'
  BY <1>15, <1>0, AdminsById, AdminsByIdNext, AdminGroupStep DEF GetPermissions, Claims,
     tables, TypeOK
<1>16. ASSUME NEW c \in Connection, Unbind(c)
      PROVE  SteadyAreAdmins'
  BY <1>16, <1>0, AdminsById, AdminsByIdNext, AdminGroupStep DEF Unbind, Closed, tables,
     TypeOK
<1>17. ASSUME NEW c \in Connection, LdapChange(c)
      PROVE  SteadyAreAdmins'
  BY <1>17, <1>0, AdminsById, AdminsByIdNext, AdminGroupStep DEF LdapChange, SetPassword,
     tables, TypeOK
<1>18. ASSUME NEW c \in Connection, LdapChangeFails(c)
      PROVE  SteadyAreAdmins'
  BY <1>18, <1>0, AdminsById, AdminsByIdNext, AdminGroupStep DEF LdapChangeFails, tables,
     TypeOK
<1>99. tokens \subseteq ValidationResults
  BY <1>0 DEF TypeOK
<1> QED
  BY <1>99, <1>1, <1>2, <1>3, <1>4, <1>5, <1>6, <1>7, <1>8, <1>9, <1>10, <1>11, <1>12,
     <1>13, <1>14, <1>15, <1>16, <1>17, <1>18 DEF Next, Mutation, LdapMessage

\* Every step keeps the target of a bind.
LEMMA BindStep ==
  ASSUME IInv, Next
  PROVE  BindTarget'
<1> USE DEF BindTarget
<1>0. TypeOK /\ BindTarget
  BY DEF IInv
<1>1. ASSUME NEW u \in User, Login(u)
      PROVE  BindTarget'
  BY <1>1, <1>0 DEF Login, Claims, tables, TypeOK, Session
<1>2. ASSUME NEW u \in User, ResetLogin(u)
      PROVE  BindTarget'
  BY <1>2, <1>0 DEF ResetLogin, tables, TypeOK, Session
<1>3. ASSUME NEW i \in ValidationResults, NEW u \in User, CreateUser(i, u)
      PROVE  BindTarget'
  BY <1>3, <1>0 DEF CreateUser, AsAdmin, tables, TypeOK, Session
<1>4. ASSUME NEW i \in ValidationResults, NEW u \in User, DeleteUser(i, u)
      PROVE  BindTarget'
  BY <1>4, <1>0 DEF DeleteUser, AsAdmin, IsSelf, StillAdmins, tables, TypeOK, Session
<1>5. ASSUME NEW i \in ValidationResults, NEW u \in User, RegisterStart(i, u)
      PROVE  BindTarget'
  BY <1>5, <1>0 DEF RegisterStart, CanChangePassword, tables, TypeOK, Session
<1>6. ASSUME NEW i \in ValidationResults, NEW u \in User, NEW g \in Gid, AddUserToGroup(i,
             u, g)
      PROVE  BindTarget'
  BY <1>6, <1>0 DEF AddUserToGroup, AsAdmin, tables, TypeOK, Session
<1>7. ASSUME NEW i \in ValidationResults, NEW u \in User, NEW g \in Gid,
             RemoveUserFromGroup(i, u, g)
      PROVE  BindTarget'
  BY <1>7, <1>0 DEF RemoveUserFromGroup, AsAdmin, IsSelf, StillAdmins, tables, TypeOK,
     Session
<1>8. ASSUME NEW i \in ValidationResults, NEW n \in GroupName, CreateGroup(i, n)
      PROVE  BindTarget'
  BY <1>8, <1>0 DEF CreateGroup, AsAdmin, NameFree, tables, TypeOK, Session
<1>9. ASSUME NEW i \in ValidationResults, NEW g \in Gid, NEW n \in GroupName,
             UpdateGroup(i, g, n)
      PROVE  BindTarget'
  BY <1>9, <1>0 DEF UpdateGroup, AsAdmin, NameFree, StillAdmins, tables, TypeOK, Session
<1>10. ASSUME NEW i \in ValidationResults, NEW g \in Gid, DeleteGroup(i, g)
      PROVE  BindTarget'
  BY <1>10, <1>0 DEF DeleteGroup, AsAdmin, MembershipsWithout, StillAdmins, tables,
     TypeOK, Session
<1>11. ASSUME NEW r \in grants, RegisterFinish(r)
      PROVE  BindTarget'
  BY <1>11, <1>0 DEF RegisterFinish, SetPassword, tables, TypeOK, Session
<1>12. ASSUME NEW c \in Connection, NEW u \in User, Bind(c, u)
      PROVE  BindTarget'
  BY <1>12, <1>0 DEF Bind, tables, TypeOK, Session
<1>13. ASSUME NEW c \in Connection, NEW u \in User, LdapAdd(c, u)
      PROVE  BindTarget'
  BY <1>13, <1>0 DEF LdapAdd, CreateUser, AsAdmin, tables, TypeOK, Session
<1>14. ASSUME NEW c \in Connection, NEW u \in User, LdapModify(c, u)
      PROVE  BindTarget'
  BY <1>14, <1>0 DEF LdapModify, CanRead, CanChangePassword, Closed, tables, TypeOK,
     Session
<1>15. ASSUME NEW c \in Connection, GetPermissions(c)
      PROVE  BindTarget'
  BY <1>15, <1>0 DEF GetPermissions, Claims, tables, TypeOK, Session
<1>16. ASSUME NEW c \in Connection, Unbind(c)
      PROVE  BindTarget'
  BY <1>16, <1>0 DEF Unbind, Closed, tables, TypeOK, Session
<1>17. ASSUME NEW c \in Connection, LdapChange(c)
      PROVE  BindTarget'
  BY <1>17, <1>0 DEF LdapChange, SetPassword, tables, TypeOK, Session
<1>18. ASSUME NEW c \in Connection, LdapChangeFails(c)
      PROVE  BindTarget'
  BY <1>18, <1>0 DEF LdapChangeFails, tables, TypeOK, Session
<1>99. tokens \subseteq ValidationResults
  BY <1>0 DEF TypeOK
<1> QED
  BY <1>99, <1>1, <1>2, <1>3, <1>4, <1>5, <1>6, <1>7, <1>8, <1>9, <1>10, <1>11, <1>12,
     <1>13, <1>14, <1>15, <1>16, <1>17, <1>18 DEF Next, Mutation, LdapMessage

\* A steady administrator's password is out of reach for the others when a change is
\* begun, and nobody becomes steady later.
LEMMA BegunStep ==
  ASSUME IInv, Next
  PROVE  BegunByRight'
<1> USE DEF BegunByRight
<1>0. TypeOK /\ SteadyAreAdmins /\ BegunByRight
  BY DEF IInv
<1>1. ASSUME NEW u \in User, Login(u)
      PROVE  BegunByRight'
  BY <1>1, <1>0 DEF Login, Claims, tables, TypeOK, Session, Grant, ValidationResults,
     SteadyAreAdmins
<1>2. ASSUME NEW u \in User, ResetLogin(u)
      PROVE  BegunByRight'
  BY <1>2, <1>0 DEF ResetLogin, tables, TypeOK, Session, Grant, ValidationResults,
     SteadyAreAdmins
<1>3. ASSUME NEW i \in ValidationResults, NEW u \in User, CreateUser(i, u)
      PROVE  BegunByRight'
  BY <1>3, <1>0 DEF CreateUser, AsAdmin, tables, TypeOK, Session, Grant,
     ValidationResults, SteadyAreAdmins
<1>4. ASSUME NEW i \in ValidationResults, NEW u \in User, DeleteUser(i, u)
      PROVE  BegunByRight'
  BY <1>4, <1>0 DEF DeleteUser, AsAdmin, IsSelf, StillAdmins, tables, TypeOK, Session,
     Grant, ValidationResults, SteadyAreAdmins
<1>5. ASSUME NEW i \in ValidationResults, NEW u \in User, RegisterStart(i, u)
      PROVE  BegunByRight'
  BY <1>5, <1>0 DEF RegisterStart, CanChangePassword, tables, TypeOK, Session, Grant,
     ValidationResults, SteadyAreAdmins
<1>6. ASSUME NEW i \in ValidationResults, NEW u \in User, NEW g \in Gid, AddUserToGroup(i,
             u, g)
      PROVE  BegunByRight'
  BY <1>6, <1>0 DEF AddUserToGroup, AsAdmin, tables, TypeOK, Session, Grant,
     ValidationResults, SteadyAreAdmins
<1>7. ASSUME NEW i \in ValidationResults, NEW u \in User, NEW g \in Gid,
             RemoveUserFromGroup(i, u, g)
      PROVE  BegunByRight'
  BY <1>7, <1>0 DEF RemoveUserFromGroup, AsAdmin, IsSelf, StillAdmins, tables, TypeOK,
     Session, Grant, ValidationResults, SteadyAreAdmins
<1>8. ASSUME NEW i \in ValidationResults, NEW n \in GroupName, CreateGroup(i, n)
      PROVE  BegunByRight'
  BY <1>8, <1>0 DEF CreateGroup, AsAdmin, NameFree, tables, TypeOK, Session, Grant,
     ValidationResults, SteadyAreAdmins
<1>9. ASSUME NEW i \in ValidationResults, NEW g \in Gid, NEW n \in GroupName,
             UpdateGroup(i, g, n)
      PROVE  BegunByRight'
  BY <1>9, <1>0 DEF UpdateGroup, AsAdmin, NameFree, StillAdmins, tables, TypeOK, Session,
     Grant, ValidationResults, SteadyAreAdmins
<1>10. ASSUME NEW i \in ValidationResults, NEW g \in Gid, DeleteGroup(i, g)
      PROVE  BegunByRight'
  BY <1>10, <1>0 DEF DeleteGroup, AsAdmin, MembershipsWithout, StillAdmins, tables,
     TypeOK, Session, Grant, ValidationResults, SteadyAreAdmins
<1>11. ASSUME NEW r \in grants, RegisterFinish(r)
      PROVE  BegunByRight'
  BY <1>11, <1>0 DEF RegisterFinish, SetPassword, tables, TypeOK, Session, Grant,
     ValidationResults, SteadyAreAdmins
<1>12. ASSUME NEW c \in Connection, NEW u \in User, Bind(c, u)
      PROVE  BegunByRight'
  BY <1>12, <1>0 DEF Bind, tables, TypeOK, Session, Grant, ValidationResults,
     SteadyAreAdmins
<1>13. ASSUME NEW c \in Connection, NEW u \in User, LdapAdd(c, u)
      PROVE  BegunByRight'
  BY <1>13, <1>0 DEF LdapAdd, CreateUser, AsAdmin, tables, TypeOK, Session, Grant,
     ValidationResults, SteadyAreAdmins
<1>14. ASSUME NEW c \in Connection, NEW u \in User, LdapModify(c, u)
      PROVE  BegunByRight'
  BY <1>14, <1>0 DEF LdapModify, CanRead, CanChangePassword, Closed, tables, TypeOK,
     Session, Grant, ValidationResults, SteadyAreAdmins
<1>15. ASSUME NEW c \in Connection, GetPermissions(c)
      PROVE  BegunByRight'
  BY <1>15, <1>0 DEF GetPermissions, Claims, tables, TypeOK, Session, Grant,
     ValidationResults, SteadyAreAdmins
<1>16. ASSUME NEW c \in Connection, Unbind(c)
      PROVE  BegunByRight'
  BY <1>16, <1>0 DEF Unbind, Closed, tables, TypeOK, Session, Grant, ValidationResults,
     SteadyAreAdmins
<1>17. ASSUME NEW c \in Connection, LdapChange(c)
      PROVE  BegunByRight'
  BY <1>17, <1>0 DEF LdapChange, SetPassword, tables, TypeOK, Session, Grant,
     ValidationResults, SteadyAreAdmins
<1>18. ASSUME NEW c \in Connection, LdapChangeFails(c)
      PROVE  BegunByRight'
  BY <1>18, <1>0 DEF LdapChangeFails, tables, TypeOK, Session, Grant, ValidationResults,
     SteadyAreAdmins
<1>99. tokens \subseteq ValidationResults
  BY <1>0 DEF TypeOK
<1> QED
  BY <1>99, <1>1, <1>2, <1>3, <1>4, <1>5, <1>6, <1>7, <1>8, <1>9, <1>10, <1>11, <1>12,
     <1>13, <1>14, <1>15, <1>16, <1>17, <1>18 DEF Next, Mutation, LdapMessage

\* Who acts as an administrator and is one, still is after the step.
LEMMA RemainsStep ==
  ASSUME IInv, Next
  PROVE  AdminRemains'
<1> USE DEF AdminRemains
<1>0. TypeOK /\ AdminGroup /\ AdminRemains
  BY DEF IInv
<1>1. ASSUME NEW u \in User, Login(u)
      PROVE  AdminRemains'
  BY <1>1, <1>0, AdminsById, AdminsByIdNext, AdminGroupStep DEF Login, Claims, tables,
     TypeOK
<1>2. ASSUME NEW u \in User, ResetLogin(u)
      PROVE  AdminRemains'
  BY <1>2, <1>0, AdminsById, AdminsByIdNext, AdminGroupStep DEF ResetLogin, tables, TypeOK
<1>3. ASSUME NEW i \in ValidationResults, NEW u \in User, CreateUser(i, u)
      PROVE  AdminRemains'
  BY <1>3, <1>0, AdminsById, AdminsByIdNext, AdminGroupStep DEF CreateUser, AsAdmin,
     tables, TypeOK
<1>4. ASSUME NEW i \in ValidationResults, NEW u \in User, DeleteUser(i, u)
      PROVE  AdminRemains'
  BY <1>4, <1>0, AdminsById, AdminsByIdNext, AdminGroupStep DEF DeleteUser, AsAdmin,
     IsSelf, StillAdmins, tables, TypeOK
<1>5. ASSUME NEW i \in ValidationResults, NEW u \in User, RegisterStart(i, u)
      PROVE  AdminRemains'
  BY <1>5, <1>0, AdminsById, AdminsByIdNext, AdminGroupStep DEF RegisterStart,
     CanChangePassword, tables, TypeOK
<1>6. ASSUME NEW i \in ValidationResults, NEW u \in User, NEW g \in Gid, AddUserToGroup(i,
             u, g)
      PROVE  AdminRemains'
  BY <1>6, <1>0, AdminsById, AdminsByIdNext, AdminGroupStep DEF AddUserToGroup, AsAdmin,
     tables, TypeOK
<1>7. ASSUME NEW i \in ValidationResults, NEW u \in User, NEW g \in Gid,
             RemoveUserFromGroup(i, u, g)
      PROVE  AdminRemains'
  BY <1>7, <1>0, AdminsById, AdminsByIdNext, AdminGroupStep DEF RemoveUserFromGroup,
     AsAdmin, IsSelf, StillAdmins, tables, TypeOK
<1>8. ASSUME NEW i \in ValidationResults, NEW n \in GroupName, CreateGroup(i, n)
      PROVE  AdminRemains'
  BY <1>8, <1>0, AdminsById, AdminsByIdNext, AdminGroupStep DEF CreateGroup, AsAdmin,
     NameFree, tables, TypeOK
<1>9. ASSUME NEW i \in ValidationResults, NEW g \in Gid, NEW n \in GroupName,
             UpdateGroup(i, g, n)
      PROVE  AdminRemains'
  BY <1>9, <1>0, AdminsById, AdminsByIdNext, AdminGroupStep DEF UpdateGroup, AsAdmin,
     NameFree, StillAdmins, tables, TypeOK
<1>10. ASSUME NEW i \in ValidationResults, NEW g \in Gid, DeleteGroup(i, g)
      PROVE  AdminRemains'
  BY <1>10, <1>0, AdminsById, AdminsByIdNext, AdminGroupStep DEF DeleteGroup, AsAdmin,
     MembershipsWithout, StillAdmins, tables, TypeOK
<1>11. ASSUME NEW r \in grants, RegisterFinish(r)
      PROVE  AdminRemains'
  BY <1>11, <1>0, AdminsById, AdminsByIdNext, AdminGroupStep DEF RegisterFinish,
     SetPassword, tables, TypeOK
<1>12. ASSUME NEW c \in Connection, NEW u \in User, Bind(c, u)
      PROVE  AdminRemains'
  BY <1>12, <1>0, AdminsById, AdminsByIdNext, AdminGroupStep DEF Bind, tables, TypeOK
<1>13. ASSUME NEW c \in Connection, NEW u \in User, LdapAdd(c, u)
      PROVE  AdminRemains'
  BY <1>13, <1>0, AdminsById, AdminsByIdNext, AdminGroupStep DEF LdapAdd, CreateUser,
     AsAdmin, tables, TypeOK
<1>14. ASSUME NEW c \in Connection, NEW u \in User, LdapModify(c, u)
      PROVE  AdminRemains'
  BY <1>14, <1>0, AdminsById, AdminsByIdNext, AdminGroupStep DEF LdapModify, CanRead,
     CanChangePassword, Closed, tables, TypeOK
<1>15. ASSUME NEW c \in Connection, GetPermissions(c)
      PROVE  AdminRemains'
  BY <1>15, <1>0, AdminsById, AdminsByIdNext, AdminGroupStep DEF GetPermissions, Claims,
     tables, TypeOK
<1>16. ASSUME NEW c \in Connection, Unbind(c)
      PROVE  AdminRemains'
  BY <1>16, <1>0, AdminsById, AdminsByIdNext, AdminGroupStep DEF Unbind, Closed, tables,
     TypeOK
<1>17. ASSUME NEW c \in Connection, LdapChange(c)
      PROVE  AdminRemains'
  BY <1>17, <1>0, AdminsById, AdminsByIdNext, AdminGroupStep DEF LdapChange, SetPassword,
     tables, TypeOK
<1>18. ASSUME NEW c \in Connection, LdapChangeFails(c)
      PROVE  AdminRemains'
  BY <1>18, <1>0, AdminsById, AdminsByIdNext, AdminGroupStep DEF LdapChangeFails, tables,
     TypeOK
<1>99. tokens \subseteq ValidationResults
  BY <1>0 DEF TypeOK
<1> QED
  BY <1>99, <1>1, <1>2, <1>3, <1>4, <1>5, <1>6, <1>7, <1>8, <1>9, <1>10, <1>11, <1>12,
     <1>13, <1>14, <1>15, <1>16, <1>17, <1>18 DEF Next, Mutation, LdapMessage

\* Nobody else sets the password of a steady administrator.
LEMMA ProtectedStep ==
  ASSUME IInv, Next
  PROVE  AdminsProtected'
<1> USE DEF AdminsProtected
<1>0. TypeOK /\ AdminGroup /\ BegunByRight /\ AdminsProtected
  BY DEF IInv
<1>1. ASSUME NEW u \in User, Login(u)
      PROVE  AdminsProtected'
  BY <1>1, <1>0 DEF Login, Claims, tables, TypeOK, Session, Grant
<1>2. ASSUME NEW u \in User, ResetLogin(u)
      PROVE  AdminsProtected'
  BY <1>2, <1>0 DEF ResetLogin, tables, TypeOK, Session, Grant
<1>3. ASSUME NEW i \in ValidationResults, NEW u \in User, CreateUser(i, u)
      PROVE  AdminsProtected'
  BY <1>3, <1>0 DEF CreateUser, AsAdmin, tables, TypeOK, Session, Grant
<1>4. ASSUME NEW i \in ValidationResults, NEW u \in User, DeleteUser(i, u)
      PROVE  AdminsProtected'
  BY <1>4, <1>0 DEF DeleteUser, AsAdmin, IsSelf, StillAdmins, tables, TypeOK, Session,
     Grant
<1>5. ASSUME NEW i \in ValidationResults, NEW u \in User, RegisterStart(i, u)
      PROVE  AdminsProtected'
  BY <1>5, <1>0 DEF RegisterStart, CanChangePassword, tables, TypeOK, Session, Grant
<1>6. ASSUME NEW i \in ValidationResults, NEW u \in User, NEW g \in Gid, AddUserToGroup(i,
             u, g)
      PROVE  AdminsProtected'
  BY <1>6, <1>0 DEF AddUserToGroup, AsAdmin, tables, TypeOK, Session, Grant
<1>7. ASSUME NEW i \in ValidationResults, NEW u \in User, NEW g \in Gid,
             RemoveUserFromGroup(i, u, g)
      PROVE  AdminsProtected'
  BY <1>7, <1>0 DEF RemoveUserFromGroup, AsAdmin, IsSelf, StillAdmins, tables, TypeOK,
     Session, Grant
<1>8. ASSUME NEW i \in ValidationResults, NEW n \in GroupName, CreateGroup(i, n)
      PROVE  AdminsProtected'
  BY <1>8, <1>0 DEF CreateGroup, AsAdmin, NameFree, tables, TypeOK, Session, Grant
<1>9. ASSUME NEW i \in ValidationResults, NEW g \in Gid, NEW n \in GroupName,
             UpdateGroup(i, g, n)
      PROVE  AdminsProtected'
  BY <1>9, <1>0 DEF UpdateGroup, AsAdmin, NameFree, StillAdmins, tables, TypeOK, Session,
     Grant
<1>10. ASSUME NEW i \in ValidationResults, NEW g \in Gid, DeleteGroup(i, g)
      PROVE  AdminsProtected'
  BY <1>10, <1>0 DEF DeleteGroup, AsAdmin, MembershipsWithout, StillAdmins, tables,
     TypeOK, Session, Grant
<1>11. ASSUME NEW r \in grants, RegisterFinish(r)
      PROVE  AdminsProtected'
  BY <1>11, <1>0 DEF RegisterFinish, SetPassword, tables, TypeOK, Session, Grant,
     BegunByRight
<1>12. ASSUME NEW c \in Connection, NEW u \in User, Bind(c, u)
      PROVE  AdminsProtected'
  BY <1>12, <1>0 DEF Bind, tables, TypeOK, Session, Grant
<1>13. ASSUME NEW c \in Connection, NEW u \in User, LdapAdd(c, u)
      PROVE  AdminsProtected'
  BY <1>13, <1>0 DEF LdapAdd, CreateUser, AsAdmin, tables, TypeOK, Session, Grant
<1>14. ASSUME NEW c \in Connection, NEW u \in User, LdapModify(c, u)
      PROVE  AdminsProtected'
  BY <1>14, <1>0 DEF LdapModify, CanRead, CanChangePassword, Closed, tables, TypeOK,
     Session, Grant
<1>15. ASSUME NEW c \in Connection, GetPermissions(c)
      PROVE  AdminsProtected'
  BY <1>15, <1>0 DEF GetPermissions, Claims, tables, TypeOK, Session, Grant
<1>16. ASSUME NEW c \in Connection, Unbind(c)
      PROVE  AdminsProtected'
  BY <1>16, <1>0 DEF Unbind, Closed, tables, TypeOK, Session, Grant
<1>17. ASSUME NEW c \in Connection, LdapChange(c)
      PROVE  AdminsProtected'
  BY <1>17, <1>0 DEF LdapChange, SetPassword, tables, TypeOK, Session, Grant, BegunByRight
<1>18. ASSUME NEW c \in Connection, LdapChangeFails(c)
      PROVE  AdminsProtected'
  BY <1>18, <1>0 DEF LdapChangeFails, tables, TypeOK, Session, Grant
<1>99. tokens \subseteq ValidationResults
  BY <1>0 DEF TypeOK
<1> QED
  BY <1>99, <1>1, <1>2, <1>3, <1>4, <1>5, <1>6, <1>7, <1>8, <1>9, <1>10, <1>11, <1>12,
     <1>13, <1>14, <1>15, <1>16, <1>17, <1>18 DEF Next, Mutation, LdapMessage
-----------------------------------------------------------------------------

\* What Init establishes.
LEMMA InitIInv == Init => IInv
<1> SUFFICES ASSUME Init
             PROVE  IInv
  OBVIOUS
<1>1. AdminGroup
  BY DEF Init, AdminGroup
<1>2. PICK u \in User : users = {u} /\ members = {<<u, 1>>} /\ password = {u} /\ steady = {u}
  BY DEF Init
<1>3. Admins = {u}
  BY <1>1, <1>2, AdminsById
<1>4. TypeOK
  <2>1. stale \in BOOLEAN
    BY DEF Init
  <2>2. session \in [Connection -> Session]
    BY DEF Init, Session, Closed
  <2> QED
    BY <1>1, <1>2, <2>1, <2>2 DEF Init, TypeOK, AdminGroup
<1>5. SteadyAreAdmins /\ BindTarget /\ BegunByRight /\ AdminRemains /\ AdminsProtected
  BY <1>2, <1>3 DEF Init, SteadyAreAdmins, BindTarget, BegunByRight, AdminRemains,
     AdminsProtected, Closed
<1> QED
  BY <1>1, <1>4, <1>5 DEF IInv

\* The inductive invariant holds in every reachable state.
THEOREM Invariance == Spec => []IInv
<1>1. IInv /\ [Next]_vars => IInv'
  <2> SUFFICES ASSUME IInv, [Next]_vars
               PROVE  IInv'
    OBVIOUS
  <2>1. CASE Next
    BY <2>1, TypeStep, AdminGroupStep, SteadyStep, BindStep, BegunStep, RemainsStep,
       ProtectedStep
       DEF IInv
  <2>2. CASE UNCHANGED vars
    BY <2>2 DEF IInv, vars, tables, TypeOK, AdminGroup, SteadyAreAdmins, BindTarget,
       BegunByRight,
                AdminRemains, AdminsProtected, Admins, InGroup
  <2> QED
    BY <2>1, <2>2
<1> QED
  BY InitIInv, <1>1, PTL DEF Spec

\* Every variable keeps its type, and memberships relate existing users and
\* groups, whoever deletes what.
THEOREM TypeCorrect == Spec => []TypeOK
  BY Invariance, PTL DEF IInv

\* The guards of the mutations keep an administrator in office as long as
\* nobody acts on a permission they have lost.
THEOREM AdministratorRemains == Spec => []AdminRemains
  BY Invariance, PTL DEF IInv

\* The password of a user who has been administrator since the start is not
\* set by password managers.
THEOREM AdministratorsProtected == Spec => []AdminsProtected
  BY Invariance, PTL DEF IInv

-----------------------------------------------------------------------------
(* Listing, for any finite sets of ids and attribute names.                 *)


\* R is a strict total order of S.
Orders(R, S) ==
    /\ \A x \in S : <<x, x>> \notin R
    /\ \A x, y, z \in S : <<x, y>> \in R /\ <<y, z>> \in R => <<x, z>> \in R
    /\ \A x, y \in S : x = y \/ <<x, y>> \in R \/ <<y, x>> \in R

LEMMA SubsetSeq ==
  ASSUME NEW S, NEW T, S \subseteq T, NEW s \in Seq(S)
  PROVE  s \in Seq(T)
  OBVIOUS

LEMMA ElementOfSeq ==
  ASSUME NEW S, NEW s \in Seq(S)
  PROVE  Len(s) \in Nat /\ \A k \in 1 .. Len(s) : s[k] \in S
  OBVIOUS

\* What ORDER BY returns: every element once, each before the next ones.
LEMMA OrderedFacts ==
  ASSUME NEW S, IsFiniteSet(S), NEW R, Orders(R, S)
  PROVE  /\ Ordered(S, R) \in Seq(S) /\ Range(Ordered(S, R)) = S
         /\ \A j, k \in 1 .. Len(Ordered(S, R)) :
               j < k => <<Ordered(S, R)[j], Ordered(S, R)[k]>> \in R
<1> DEFINE n == Cardinality(S)
           B(x) == {y \in S : <<y, x>> \in R}
           rank == [x \in S |-> Cardinality(B(x)) + 1]
           s == Ordered(S, R)
<1>1. n \in Nat
  BY FS_CardinalityType
<1>2. ASSUME NEW x \in S
      PROVE  /\ IsFiniteSet(B(x)) /\ Cardinality(B(x)) \in Nat /\ Cardinality(B(x)) < n
  <2>1. B(x) \in SUBSET (S \ {x})
    BY DEF Orders
  <2>2. IsFiniteSet(S \ {x}) /\ Cardinality(S \ {x}) = n - 1
    BY FS_RemoveElement
  <2> HIDE DEF B, n
  <2>3. IsFiniteSet(B(x)) /\ Cardinality(B(x)) <= n - 1
    BY <2>1, <2>2, FS_Subset
  <2>4. Cardinality(B(x)) \in Nat
    BY <2>3, FS_CardinalityType
  <2> QED
    BY <1>1, <2>3, <2>4
<1>3. ASSUME NEW x \in S, NEW y \in S, <<x, y>> \in R
      PROVE  Cardinality(B(x)) < Cardinality(B(y))
  <2>1. x \in B(y) /\ B(x) \in SUBSET (B(y) \ {x})
    BY <1>3 DEF Orders
  <2>2. IsFiniteSet(B(x)) /\ IsFiniteSet(B(y)) /\ Cardinality(B(y)) \in Nat
        /\ Cardinality(B(x)) \in Nat
    BY <1>2
  <2> HIDE DEF B
  <2>3. IsFiniteSet(B(y) \ {x}) /\ Cardinality(B(y) \ {x}) = Cardinality(B(y)) - 1
    BY <2>1, <2>2, FS_RemoveElement
  <2>4. Cardinality(B(x)) <= Cardinality(B(y)) - 1
    BY <2>1, <2>3, FS_Subset
  <2> QED
    BY <2>2, <2>4
<1> HIDE DEF B
<1>4. rank \in Injection(S, 1 .. n)
  <2>1. rank \in [S -> 1 .. n]
    BY <1>1, <1>2
  <2>2. ASSUME NEW x \in S, NEW y \in S, rank[x] = rank[y]
        PROVE  x = y
    <3>1. Cardinality(B(x)) = Cardinality(B(y))
      BY <1>2, <2>2
    <3>2. <<x, y>> \notin R /\ <<y, x>> \notin R
      BY <1>2, <1>3, <3>1
    <3> QED
      BY <3>2 DEF Orders
  <2> HIDE DEF rank
  <2> QED
    BY <2>1, <2>2 DEF Injection, IsInjective
<1>5. rank \in Surjection(S, 1 .. n)
  <2>1. IsFiniteSet(1 .. n) /\ Cardinality(1 .. n) = n
    BY <1>1, FS_Interval
  <2> HIDE DEF rank
  <2> QED
    BY <1>4, <2>1, FS_Injection
<1>6. ASSUME NEW k \in 1 .. n
      PROVE  s[k] \in S /\ Cardinality(B(s[k])) = k - 1
  <2>1. PICK x \in S : rank[x] = k
    <3> HIDE DEF rank
    <3> QED
      BY <1>5 DEF Surjection
  <2>2. Cardinality(B(x)) = k - 1
    BY <1>2, <2>1
  <2>3. s[k] = CHOOSE y \in S : Cardinality(B(y)) = k - 1
    BY DEF Ordered, B
  <2> QED
    BY <2>2, <2>3
<1>7. s = [k \in 1 .. n |-> s[k]]
  <2> DEFINE e(k) == CHOOSE x \in S : Cardinality({y \in S : <<y, x>> \in R}) = k - 1
  <2>1. s = [k \in 1 .. n |-> e(k)]
    BY DEF Ordered
  <2> HIDE DEF e, s, n
  <2> QED
    BY <2>1
<1> HIDE DEF s
<1>8. s \in Seq(S) /\ Len(s) = n /\ DOMAIN s = 1 .. n
  BY <1>1, <1>6, <1>7
<1>9. ASSUME NEW x \in S
      PROVE  \E k \in 1 .. n : s[k] = x
  <2> DEFINE k == Cardinality(B(x)) + 1
  <2>1. k \in 1 .. n /\ k - 1 = Cardinality(B(x))
    BY <1>1, <1>2
  <2>2. s[k] \in S /\ Cardinality(B(s[k])) = Cardinality(B(x))
    BY <1>6, <2>1
  <2>3. s[k] = x
    <3> HIDE DEF k
    <3>1. <<x, s[k]>> \notin R /\ <<s[k], x>> \notin R
      BY <1>2, <1>3, <2>2
    <3> QED
      BY <2>2, <3>1 DEF Orders
  <2> QED
    BY <2>1, <2>3
<1>10. Range(s) = S
  BY <1>6, <1>8, <1>9 DEF Range
<1>11. ASSUME NEW j \in 1 .. n, NEW k \in 1 .. n, j < k
       PROVE  <<s[j], s[k]>> \in R
  <2>1. /\ s[j] \in S /\ Cardinality(B(s[j])) = j - 1
        /\ s[k] \in S /\ Cardinality(B(s[k])) = k - 1
    BY <1>6
  <2>2. s[j] # s[k] /\ ~(Cardinality(B(s[k])) < Cardinality(B(s[j])))
    BY <1>1, <1>11, <2>1
  <2> QED
    BY <1>3, <2>1, <2>2 DEF Orders
<1> QED
  BY <1>8, <1>10, <1>11 DEF s

\* A set of numbers that is not empty has a least element.
LEMMA LeastElement ==
  ASSUME NEW T \in SUBSET Nat, T # {}
  PROVE  \E n \in T : \A m \in T : n <= m
<1> DEFINE R == OpToRel(<, Nat)
<1>1. IsWellFoundedOn(R, Nat)
  BY NatLessThanWellFounded
<1>2. PICK n \in T : \A m \in T : <<m, n>> \notin R
  <2> HIDE DEF R
  <2> QED
    BY <1>1, WFMin
<1>3. \A m \in T : ~(m < n)
  BY <1>2 DEF OpToRel
<1> HIDE DEF R
<1> QED
  BY <1>3

-----------------------------------------------------------------------------
(* The inductive invariant.                                                 *)

Found == {r \in Row : r.id \in matching /\ r.attribute \in attrs[r.id]}

\* Other requests run only while nothing has been merged.
Quiet == pc # "merging" => answer = <<>>

Ascends == \A j, k \in 1 .. Len(list) : j < k => list[j] < list[k]

RowsGrouped ==
    pc = "merging" =>
        /\ Range(rows) = Found
        /\ \A j, k \in 1 .. Len(rows) : j < k => rows[j].id <= rows[k].id

\* The loop invariant of the merge: before the entity i, the iterator has passed
\* the rows of the smaller ids and no others, unless i is blocked.
PassedBefore(i) == \A r \in 1 .. Len(rows) : r <= next <=> rows[r].id < i

Position ==
    pc = "merging" /\ Len(answer) < Len(list) =>
        Blocked(list[Len(answer) + 1]) \/ PassedBefore(list[Len(answer) + 1])

ListingIInv == /\ ListingTypes /\ Quiet /\ Ascends /\ RowsGrouped /\ Position
        /\ OnlyOwnAttributes /\ CompleteUnlessBlocked

-----------------------------------------------------------------------------

USE ListingAssumption

\* Both orders are strict and total.
LEMMA OrdersFacts == Orders(ById, Id) /\ Orders(ByIdAndName, Row)
<1>1. Orders(ById, Id)
  BY DEF Orders, ById
<1>2. Orders(ByIdAndName, Row)
  <2>1. \A x, y \in Row : <<x, y>> \in ByIdAndName <=>
            x.id < y.id \/ (x.id = y.id /\ x.attribute < y.attribute)
    BY DEF ByIdAndName
  <2>2. \A x \in Row : x.id \in Nat /\ x.attribute \in Nat
    BY DEF Row
  <2>3. \A x, y \in Row : x.id = y.id /\ x.attribute = y.attribute => x = y
    BY DEF Row
  <2>4. \A x \in Row : <<x, x>> \notin ByIdAndName
    BY <2>1, <2>2
  <2>5. \A x, y, z \in Row :
            <<x, y>> \in ByIdAndName /\ <<y, z>> \in ByIdAndName => <<x, z>> \in ByIdAndName
    BY <2>1, <2>2
  <2>6. \A x, y \in Row : x = y \/ <<x, y>> \in ByIdAndName \/ <<y, x>> \in ByIdAndName
    <3> SUFFICES ASSUME NEW x \in Row, NEW y \in Row, x # y
                 PROVE  <<x, y>> \in ByIdAndName \/ <<y, x>> \in ByIdAndName
      OBVIOUS
    <3>1. \/ x.id < y.id \/ y.id < x.id
          \/ x.id = y.id /\ (x.attribute < y.attribute \/ y.attribute < x.attribute)
      BY <2>2, <2>3
    <3>2. x.id = y.id => y.id = x.id
      OBVIOUS
    <3> QED
      BY <2>1, <3>1, <3>2
  <2> QED
    BY <2>4, <2>5, <2>6 DEF Orders
<1> QED
  BY <1>1, <1>2

\* The first query lists the matching entities in ascending order.
LEMMA ListFacts ==
  ASSUME matching \subseteq Id
  PROVE  LET s == Ordered(matching, ById)
         IN  /\ s \in Seq(Id) /\ Range(s) = matching
             /\ \A j, k \in 1 .. Len(s) : j < k => s[j] < s[k]
<1> DEFINE s == Ordered(matching, ById)
<1>1. IsFiniteSet(matching) /\ Orders(ById, matching)
  BY OrdersFacts, FS_Subset DEF Orders
<1>2. /\ s \in Seq(matching) /\ Range(s) = matching
      /\ \A j, k \in 1 .. Len(s) : j < k => <<s[j], s[k]>> \in ById
  BY <1>1, OrderedFacts
<1> HIDE DEF s
<1>3. s \in Seq(Id)
  BY <1>2, SubsetSeq
<1>4. \A x, y : <<x, y>> \in ById => x < y
  BY DEF ById
<1>5. \A j, k \in 1 .. Len(s) : j < k => s[j] < s[k]
  BY <1>2, <1>4
<1> QED
  BY <1>2, <1>3, <1>5 DEF s

\* The second query returns the rows of the matching entities, grouped by id.
LEMMA RowsFacts ==
  /\ AttributeRows \in Seq(Row) /\ Range(AttributeRows) = Found
  /\ \A j, k \in 1 .. Len(AttributeRows) :
        j < k => AttributeRows[j].id <= AttributeRows[k].id
<1> DEFINE s == AttributeRows
<1>1. IsFiniteSet(Row)
  <2> DEFINE f == [p \in Id \X Attribute |-> [id |-> p[1], attribute |-> p[2]]]
  <2>1. f \in Surjection(Id \X Attribute, Row)
    <3>1. f \in [Id \X Attribute -> Row]
      BY DEF Row
    <3>2. ASSUME NEW r \in Row
          PROVE  \E p \in Id \X Attribute : f[p] = r
      <4>1. <<r.id, r.attribute>> \in Id \X Attribute
        BY DEF Row
      <4>2. f[<<r.id, r.attribute>>] = r
        BY <4>1 DEF Row
      <4> QED
        BY <4>1, <4>2
    <3> HIDE DEF f
    <3> QED
      BY <3>1, <3>2 DEF Surjection
  <2>2. IsFiniteSet(Id \X Attribute)
    BY FS_Product
  <2> HIDE DEF f
  <2> QED
    BY <2>1, <2>2, FS_Surjection
<1>2. Found \subseteq Row
  BY DEF Found
<1>3. IsFiniteSet(Found) /\ Orders(ByIdAndName, Found)
  BY <1>1, <1>2, OrdersFacts, FS_Subset DEF Orders
<1>4. s = Ordered(Found, ByIdAndName)
  BY DEF AttributeRows, Found
<1>5. /\ s \in Seq(Found) /\ Range(s) = Found
      /\ \A j, k \in 1 .. Len(s) : j < k => <<s[j], s[k]>> \in ByIdAndName
  BY <1>3, <1>4, OrderedFacts
<1> HIDE DEF s
<1>6. s \in Seq(Row)
  BY <1>2, <1>5
<1>7. ASSUME NEW x, NEW y, <<x, y>> \in ByIdAndName
      PROVE  x.id <= y.id
  <2>1. x \in Row /\ y \in Row /\ (x.id < y.id \/ x.id = y.id)
    BY <1>7 DEF ByIdAndName
  <2>2. x.id \in Nat /\ y.id \in Nat
    BY <2>1 DEF Row
  <2> QED
    BY <2>1, <2>2
<1>8. \A j, k \in 1 .. Len(s) : j < k => s[j].id <= s[k].id
  BY <1>5, <1>7
<1> QED
  BY <1>5, <1>6, <1>8 DEF s

\* take_while_ref stops at the first row of another entity, or at the end.
LEMMA RunFacts ==
  ASSUME rows \in Seq(Row), next \in 0 .. Len(rows), NEW i
  PROVE  /\ Run(i) \in 0 .. Len(rows) - next
         /\ \A j \in next + 1 .. next + Run(i) : rows[j].id = i
         /\ next + Run(i) = Len(rows) \/ rows[next + Run(i) + 1].id # i
<1> DEFINE T == {n \in 0 .. Len(rows) - next :
                    next + n = Len(rows) \/ rows[next + n + 1].id # i}
<1>1. Len(rows) \in Nat /\ Len(rows) - next \in T /\ T \subseteq Nat
  OBVIOUS
<1>2. PICK n \in T : \A m \in T : n <= m
  <2> HIDE DEF T
  <2> QED
    BY <1>1, LeastElement
<1>3. \A j \in next + 1 .. next + n : rows[j].id = i
  <2> SUFFICES ASSUME NEW j \in next + 1 .. next + n PROVE rows[j].id = i
    OBVIOUS
  <2>1. j - next - 1 \in 0 .. Len(rows) - next /\ ~(n <= j - next - 1)
        /\ next + (j - next - 1) + 1 = j /\ next + (j - next - 1) # Len(rows)
    BY <1>1, <1>2
  <2>2. j - next - 1 \notin T
    <3> HIDE DEF T
    <3> QED
      BY <1>2, <2>1
  <2> QED
    BY <2>1, <2>2
<1> QED
  BY <1>1, <1>2, <1>3 DEF Run

LEMMA InitHolds == ListingInit => ListingIInv
<1> SUFFICES ASSUME ListingInit PROVE ListingIInv
  OBVIOUS
<1>1. ListingTypes
  BY DEF ListingInit, ListingTypes
<1>2. Quiet /\ Ascends /\ RowsGrouped /\ Position
  BY DEF ListingInit, Quiet, Ascends, RowsGrouped, Position
<1>3. OnlyOwnAttributes /\ CompleteUnlessBlocked
  BY DEF ListingInit, OnlyOwnAttributes, CompleteUnlessBlocked
<1> QED
  BY <1>1, <1>2, <1>3 DEF ListingIInv

\* Between the queries and outside of a listing there is no answer yet, so that
\* changes of the tables cannot make it wrong.
LEMMA OtherRequestKeeps ==
  ASSUME ListingIInv, OtherRequest
  PROVE  ListingIInv'
<1>1. pc # "merging" /\ UNCHANGED <<pc, list, rows, next, answer>> /\ answer = <<>>
  BY DEF OtherRequest, Create, Update, Delete, ListingIInv, Quiet
<1>2. ListingTypes'
  <2>1. ASSUME NEW i \in Id, NEW as \in SUBSET Attribute, NEW match \in BOOLEAN,
               Create(i, as, match) \/ Update(i, as, match)
        PROVE  ListingTypes'
    BY <1>1, <2>1 DEF ListingIInv, ListingTypes, Create, Update
  <2>2. ASSUME NEW i \in Id, Delete(i)
        PROVE  ListingTypes'
    BY <1>1, <2>2 DEF ListingIInv, ListingTypes, Delete, RowsWithout
  <2> QED
    BY <2>1, <2>2 DEF OtherRequest
<1>3. Quiet' /\ Ascends' /\ RowsGrouped' /\ Position'
  BY <1>1 DEF ListingIInv, Quiet, Ascends, RowsGrouped, Position
<1>4. OnlyOwnAttributes' /\ CompleteUnlessBlocked'
  BY <1>1 DEF OnlyOwnAttributes, CompleteUnlessBlocked
<1> QED
  BY <1>2, <1>3, <1>4 DEF ListingIInv

LEMMA FirstQueryKeeps ==
  ASSUME ListingIInv, FirstQuery
  PROVE  ListingIInv'
<1>1. /\ pc = "idle" /\ pc' = "listed" /\ answer' = answer /\ answer = <<>>
      /\ UNCHANGED <<stored, rows, next>> /\ matching \subseteq Id
  BY DEF FirstQuery, ListingIInv, Quiet, ListingTypes, stored
<1>2. list' \in Seq(Id) /\ \A j, k \in 1 .. Len(list') : j < k => list'[j] < list'[k]
  BY <1>1, ListFacts DEF FirstQuery
<1>3. ListingTypes'
  BY <1>1, <1>2 DEF ListingIInv, ListingTypes, stored
<1>4. Quiet' /\ Ascends' /\ RowsGrouped' /\ Position'
  BY <1>1, <1>2 DEF ListingIInv, Quiet, Ascends, RowsGrouped, Position
<1>5. OnlyOwnAttributes' /\ CompleteUnlessBlocked'
  BY <1>1 DEF OnlyOwnAttributes, CompleteUnlessBlocked
<1> QED
  BY <1>3, <1>4, <1>5 DEF ListingIInv

\* At the start of the merge no row has been passed, and none is of an id before
\* the first one of the list, unless that one is blocked.
LEMMA SecondQueryKeeps ==
  ASSUME ListingIInv, SecondQuery
  PROVE  ListingIInv'
<1>1. /\ pc' = "merging" /\ answer' = answer /\ answer = <<>> /\ next' = 0
      /\ rows' = AttributeRows
      /\ UNCHANGED <<entities, matching, attrs, list>>
  BY DEF SecondQuery, ListingIInv, Quiet, stored
<1>2. /\ rows' \in Seq(Row) /\ Range(rows') = Found
      /\ \A j, k \in 1 .. Len(rows') : j < k => rows'[j].id <= rows'[k].id
  BY <1>1, RowsFacts
<1>3. ListingTypes'
  <2>1. 0 \in 0 .. Len(rows')
    BY <1>2, ElementOfSeq
  <2> QED
    BY <1>1, <1>2, <2>1 DEF ListingIInv, ListingTypes
<1>4. Quiet' /\ Ascends'
  BY <1>1 DEF ListingIInv, Quiet, Ascends
<1>5. Found' = Found
  BY <1>1 DEF Found
<1>6. RowsGrouped'
  BY <1>2, <1>5 DEF RowsGrouped
<1>7. Position'
  <2> SUFFICES ASSUME 0 < Len(list), ~Blocked(list[1])
               PROVE  \A r \in 1 .. Len(rows') : ~(rows'[r].id < list[1])
    BY <1>1, <1>2 DEF Position, PassedBefore, Blocked
  <2> SUFFICES ASSUME NEW r \in 1 .. Len(rows'), rows'[r].id < list[1]
               PROVE  FALSE
    OBVIOUS
  <2>1. rows'[r] \in Found
    BY <1>2 DEF Range
  <2>2. /\ rows'[r].id \in matching /\ attrs[rows'[r].id] # {} /\ rows'[r].id \in Id
    BY <2>1 DEF Found, Row
  <2>3. rows'[r].id \in Range(list)
    BY <2>2 DEF Blocked
  <2>4. PICK m \in 1 .. Len(list) : list[m] = rows'[r].id
    <3>1. list \in Seq(Id)
      BY DEF ListingIInv, ListingTypes
    <3>2. DOMAIN list = 1 .. Len(list)
      BY <3>1
    <3> QED
      BY <2>3, <3>2 DEF Range
  <2>5. Len(list) \in Nat /\ list[1] \in Nat /\ list[m] \in Nat
    <3>1. list \in Seq(Id)
      BY DEF ListingIInv, ListingTypes
    <3>2. Len(list) \in Nat /\ \A x \in 1 .. Len(list) : list[x] \in Id
      BY <3>1, ElementOfSeq
    <3>3. 1 \in 1 .. Len(list)
      BY <3>2
    <3> QED
      BY <3>2, <3>3
  <2>6. 1 < m => list[1] < list[m]
    BY <2>5 DEF ListingIInv, Ascends
  <2> QED
    BY <2>4, <2>5, <2>6
<1>8. OnlyOwnAttributes' /\ CompleteUnlessBlocked'
  BY <1>1 DEF OnlyOwnAttributes, CompleteUnlessBlocked
<1> QED
  BY <1>3, <1>4, <1>6, <1>7, <1>8 DEF ListingIInv

LEMMA PopulateKeeps ==
  ASSUME ListingIInv, Populate
  PROVE  ListingIInv'
<1> DEFINE k == Len(answer) + 1
           i == list[k]
           n == Run(i)
           given == [j \in 1 .. n |-> rows[next + j]]
<1>1. /\ pc = "merging" /\ Len(answer) < Len(list)
      /\ answer' = Append(answer, given) /\ next' = next + n
      /\ UNCHANGED <<entities, matching, attrs, pc, list, rows>>
  BY DEF Populate, AfterRun, stored
<1>2. /\ list \in Seq(Id) /\ rows \in Seq(Row) /\ next \in 0 .. Len(rows)
      /\ answer \in Seq(Seq(Row)) /\ matching \subseteq Id /\ attrs \in [Id -> SUBSET Attribute]
  BY DEF ListingIInv, ListingTypes
<1>3. k \in 1 .. Len(list) /\ k \in Nat /\ i \in Id /\ i \in Nat
  <2>1. Len(list) \in Nat /\ Len(answer) \in Nat /\ \A m \in 1 .. Len(list) : list[m] \in Id
    BY <1>2, ElementOfSeq
  <2>2. k \in 1 .. Len(list) /\ k \in Nat
    BY <1>1, <2>1
  <2> QED
    BY <2>1, <2>2
<1>4. /\ n \in 0 .. Len(rows) - next
      /\ \A j \in next + 1 .. next + n : rows[j].id = i
      /\ next + n = Len(rows) \/ rows[next + n + 1].id # i
  BY <1>2, RunFacts
<1> HIDE DEF n
<1>5. \A r \in 1 .. Len(rows) : /\ rows[r] \in Found /\ rows[r].id \in matching
                                /\ rows[r].id \in Nat /\ attrs[rows[r].id] # {}
  <2>1. Range(rows) = Found
    BY <1>1 DEF ListingIInv, RowsGrouped
  <2>2. \A r \in 1 .. Len(rows) : rows[r] \in Found
    BY <1>2, <2>1 DEF Range
  <2> QED
    BY <2>2 DEF Found, Row
<1>6. given \in Seq(Row) /\ Len(given) = n
  <2>1. n \in Nat /\ \A j \in 1 .. n : rows[next + j] \in Row
    BY <1>2, <1>4
  <2> QED
    BY <2>1
<1>7. /\ answer' \in Seq(Seq(Row)) /\ Len(answer') = k /\ answer'[k] = given
      /\ \A m \in 1 .. Len(answer) : answer'[m] = answer[m]
  <2> HIDE DEF given
  <2> QED
    BY <1>1, <1>2, <1>6
<1>8. ListingTypes'
  <2>1. next' \in 0 .. Len(rows)
    BY <1>1, <1>2, <1>4
  <2>2. Len(answer') <= Len(list)
    BY <1>3, <1>7
  <2> HIDE DEF k, i, given
  <2> QED
    BY <1>1, <1>7, <2>1, <2>2 DEF ListingIInv, ListingTypes
<1>9. Quiet' /\ Ascends' /\ RowsGrouped'
  BY <1>1 DEF ListingIInv, Quiet, Ascends, RowsGrouped, Found
\* The rows of i are passed after the step, if the iterator was at the right place.
<1>10. ASSUME PassedBefore(i), NEW r \in 1 .. Len(rows), rows[r].id = i
       PROVE  next < r /\ r <= next + n
  <2>1. next < r
    BY <1>2, <1>3, <1>10 DEF PassedBefore
  <2>2. ASSUME next + n < r
        PROVE  FALSE
    <3>1. next + n + 1 \in 1 .. Len(rows) /\ next + n + 1 <= r /\ next + n # Len(rows)
      BY <1>2, <1>4, <2>2
    <3>2. rows[next + n + 1].id # i /\ ~(rows[next + n + 1].id < i)
      BY <1>2, <1>4, <1>10, <3>1 DEF PassedBefore
    <3>3. rows[next + n + 1].id <= rows[r].id
      BY <1>1, <1>5, <3>1 DEF ListingIInv, RowsGrouped
    <3> QED
      BY <1>3, <1>5, <1>10, <3>1, <3>2, <3>3
  <2> QED
    BY <1>2, <1>4, <2>1, <2>2
<1>11. Range(given) = {rows[r] : r \in next + 1 .. next + n}
  <2>1. Range(given) = {given[j] : j \in 1 .. n}
    BY DEF Range
  <2>2. ASSUME NEW r \in next + 1 .. next + n
        PROVE  \E j \in 1 .. n : given[j] = rows[r]
    <3>1. r - next \in 1 .. n /\ next + (r - next) = r
      BY <1>2, <1>4
    <3> QED
      BY <3>1
  <2>3. ASSUME NEW j \in 1 .. n
        PROVE  next + j \in next + 1 .. next + n /\ given[j] = rows[next + j]
    BY <1>2, <1>4
  <2> HIDE DEF given
  <2> QED
    BY <2>1, <2>2, <2>3
<1>12. Range(given) \subseteq OwnRows(i)
  <2> SUFFICES ASSUME NEW r \in next + 1 .. next + n
               PROVE  rows[r] \in OwnRows(i)
    BY <1>11
  <2>1. rows[r] \in Found /\ rows[r].id = i
    BY <1>2, <1>4, <1>5
  <2> QED
    BY <2>1 DEF Found, Row, OwnRows
<1>13. ASSUME i \in matching, ~Blocked(i)
       PROVE  OwnRows(i) \subseteq Range(given)
  <2>1. PassedBefore(i)
    BY <1>1, <1>13 DEF ListingIInv, Position
  <2> SUFFICES ASSUME NEW a \in attrs[i]
               PROVE  [id |-> i, attribute |-> a] \in Range(given)
    BY DEF OwnRows
  <2>2. [id |-> i, attribute |-> a] \in Found
    BY <1>2, <1>3, <1>13 DEF Found, Row
  <2>3. PICK r \in 1 .. Len(rows) : rows[r] = [id |-> i, attribute |-> a]
    BY <1>1, <1>2, <2>2 DEF ListingIInv, RowsGrouped, Range
  <2>4. rows[r].id = i
    BY <2>3
  <2>5. r \in next + 1 .. next + n
    BY <1>2, <1>4, <1>10, <2>1, <2>4
  <2> QED
    BY <1>11, <2>3, <2>5
<1>14. OnlyOwnAttributes' /\ CompleteUnlessBlocked'
  <2>1. DOMAIN answer' = 1 .. k /\ DOMAIN answer = 1 .. Len(answer)
    BY <1>2, <1>7
  <2>2. \A x : OwnRows(x)' = OwnRows(x)
    BY <1>1 DEF OwnRows
  <2>3. \A x : Blocked(x)' <=> Blocked(x)
    BY <1>1 DEF Blocked
  <2>4. ASSUME NEW m \in 1 .. k
        PROVE  /\ Range(answer'[m]) \subseteq OwnRows(list[m])
               /\ list[m] \in matching /\ ~Blocked(list[m]) =>
                     Range(answer'[m]) = OwnRows(list[m])
    <3>1. CASE m = k
      BY <1>7, <1>12, <1>13, <3>1
    <3>2. CASE m # k
      <4>1. m \in DOMAIN answer /\ answer'[m] = answer[m]
        BY <1>2, <1>7, <2>1, <3>2
      <4> QED
        BY <4>1 DEF ListingIInv, OnlyOwnAttributes, CompleteUnlessBlocked
    <3> QED
      BY <3>1, <3>2
  <2> HIDE DEF k
  <2> QED
    BY <1>1, <2>1, <2>2, <2>3, <2>4 DEF OnlyOwnAttributes, CompleteUnlessBlocked
<1>15. Position'
  <2> SUFFICES ASSUME k < Len(list), ~Blocked(list[k + 1]), NEW r \in 1 .. Len(rows)
               PROVE  r <= next + n <=> rows[r].id < list[k + 1]
    BY <1>1, <1>7 DEF Position, PassedBefore, Blocked
  <2>1. k + 1 \in 1 .. Len(list) /\ list[k + 1] \in Nat /\ i < list[k + 1]
    <3>1. Len(list) \in Nat /\ \A m \in 1 .. Len(list) : list[m] \in Id
      BY <1>2, ElementOfSeq
    <3>2. k + 1 \in 1 .. Len(list) /\ k < k + 1
      BY <1>3, <3>1
    <3> QED
      BY <1>3, <3>1, <3>2 DEF ListingIInv, Ascends
  <2>2. ~Blocked(i)
    BY <1>2, <1>3, <2>1 DEF Blocked
  <2>3. PassedBefore(i)
    BY <1>1, <2>2 DEF ListingIInv, Position
  <2>4. r \in Nat /\ rows[r].id \in Nat /\ next \in Nat /\ n \in Nat
    BY <1>2, <1>4, <1>5
  <2>5. ASSUME r <= next + n
        PROVE  rows[r].id < list[k + 1]
    <3>1. CASE r <= next
      BY <1>3, <2>1, <2>3, <2>4, <3>1 DEF PassedBefore
    <3>2. CASE next < r
      BY <1>4, <2>1, <2>4, <2>5, <3>2
    <3> QED
      BY <2>4, <3>1, <3>2
  <2>6. ASSUME rows[r].id < list[k + 1], next + n < r
        PROVE  FALSE
    <3>1. rows[r].id # i
      BY <1>10, <2>3, <2>4, <2>6
    <3>2. i < rows[r].id
      BY <1>3, <2>3, <2>4, <2>6, <3>1 DEF PassedBefore
    <3>3. rows[r].id \in matching /\ attrs[rows[r].id] # {}
      BY <1>5
    <3>4. rows[r].id \in Range(list)
      BY <2>6, <3>3 DEF Blocked
    <3>5. PICK m \in 1 .. Len(list) : list[m] = rows[r].id
      <4>1. list \in Seq(Id)
        BY DEF ListingIInv, ListingTypes
      <4>2. DOMAIN list = 1 .. Len(list)
        BY <4>1
      <4> QED
        BY <3>4, <4>2 DEF Range
    <3>6. m < k => list[m] < i
      BY <1>3 DEF ListingIInv, Ascends
    <3>7. k + 1 < m => list[k + 1] < list[m]
      BY <2>1 DEF ListingIInv, Ascends
    <3>8. m < k \/ m = k \/ m = k + 1 \/ k + 1 < m
      BY <1>3
    <3> QED
      BY <1>3, <2>1, <2>4, <2>6, <3>2, <3>5, <3>6, <3>7, <3>8
  <2> QED
    BY <2>4, <2>5, <2>6
<1> QED
  BY <1>8, <1>9, <1>14, <1>15 DEF ListingIInv

LEMMA ReturnKeeps ==
  ASSUME ListingIInv, Return
  PROVE  ListingIInv'
<1>1. /\ pc' = "idle" /\ list' = <<>> /\ rows' = <<>> /\ next' = 0 /\ answer' = <<>>
      /\ UNCHANGED <<entities, matching, attrs>>
  BY DEF Return, stored
<1>2. ListingTypes'
  BY <1>1 DEF ListingIInv, ListingTypes
<1>3. Quiet' /\ Ascends' /\ RowsGrouped' /\ Position'
  BY <1>1 DEF Quiet, Ascends, RowsGrouped, Position
<1>4. OnlyOwnAttributes' /\ CompleteUnlessBlocked'
  BY <1>1 DEF OnlyOwnAttributes, CompleteUnlessBlocked
<1> QED
  BY <1>2, <1>3, <1>4 DEF ListingIInv

LEMMA StutteringKeeps ==
  ASSUME ListingIInv, UNCHANGED listingVars
  PROVE  ListingIInv'
<1>1. UNCHANGED <<entities, matching, attrs, pc, list, rows, next, answer>>
  BY DEF listingVars, stored
<1>2. ListingTypes' /\ Quiet' /\ Ascends'
  BY <1>1 DEF ListingIInv, ListingTypes, Quiet, Ascends
<1>3. RowsGrouped' /\ Position'
  BY <1>1 DEF ListingIInv, RowsGrouped, Position, Found, PassedBefore, Blocked
<1>4. OnlyOwnAttributes' /\ CompleteUnlessBlocked'
  BY <1>1 DEF ListingIInv, OnlyOwnAttributes, CompleteUnlessBlocked, OwnRows, Blocked
<1> QED
  BY <1>2, <1>3, <1>4 DEF ListingIInv

-----------------------------------------------------------------------------

\* The inductive invariant of the two queries and the merge.
THEOREM ListingInvariance == ListingSpec => []ListingIInv
<1>1. ListingIInv /\ [ListingNext]_listingVars => ListingIInv'
  BY FirstQueryKeeps, SecondQueryKeeps, PopulateKeeps, ReturnKeeps, OtherRequestKeeps,
     StutteringKeeps DEF ListingNext
<1> QED
  BY <1>1, InitHolds, PTL DEF ListingSpec

\* The types, and that attributes belong to existing entities.
THEOREM TypesHold == ListingSpec => []ListingTypes
<1>1. ListingIInv => ListingTypes
  BY DEF ListingIInv
<1> QED
  BY <1>1, ListingInvariance, PTL

\* However users, groups and attributes change between the two queries of
\* list_users and list_groups, nobody is given the attribute of somebody else.
THEOREM NobodyElsesAttributes == ListingSpec => []OnlyOwnAttributes
<1>1. ListingIInv => OnlyOwnAttributes
  BY DEF ListingIInv
<1> QED
  BY <1>1, ListingInvariance, PTL

\* An entity that still matches at the second query is listed with all of its
\* attributes, unless one before it came to match in between.
THEOREM AttributesComplete == ListingSpec => []CompleteUnlessBlocked
<1>1. ListingIInv => CompleteUnlessBlocked
  BY DEF ListingIInv
<1> QED
  BY <1>1, ListingInvariance, PTL

=============================================================================
