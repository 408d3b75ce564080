--------------------------- MODULE StartupProofs ----------------------------
(* Proofs about Startup, for any users, passwords, keys and configurations. *)
EXTENDS Startup, TLAPS

\* The steps of a start after the key check.
KeyChecked == {"ensure_groups", "list_admins", "create_user", "register_password",
               "add_to_group", "reset_password", "decide", "build", "serving"}

\* The process has a key, and after the check it is the one on record.
KeyKnown ==
    /\ pc # "down" => serverKey \in Key
    /\ pc = "write_key" => serverKey \in RandomKey
    /\ pc \in KeyChecked => dbKey = serverKey

\* The password files were made with the key on record.
FilesMatchRecord ==
    ~keyForced => \A u \in User : passwd[u] # NoPassword => passwd[u].key = dbKey

\* Only users have passwords.
PasswordsOfUsers == \A u \in User : passwd[u] # NoPassword => u \in users

\* What a start has established at each of its steps.
StartProgress ==
    /\ pc \in {"list_admins", "create_user", "register_password", "add_to_group"}
           => groupId["lldap_admin"] # 0
    /\ pc \in {"reset_password", "decide", "build"} => admins # {}
    /\ pc = "reset_password" => conf.forcePass
    /\ pc \in {"register_password", "add_to_group"} => conf.dn \in users
    /\ pc = "register_password" /\ ~conf.forcePass => before[conf.dn] = NoPassword

IInv ==
    /\ TypeOK
    /\ KeyKnown
    /\ FilesMatchRecord
    /\ PasswordsOfUsers
    /\ StartProgress
    /\ PasswordsKept

-----------------------------------------------------------------------------

USE StartupAssumption

\* What Init establishes.
LEMMA InitIInv == Init => IInv
<1> SUFFICES ASSUME Init
             PROVE  IInv
  OBVIOUS
<1>1. TypeOK
  <2>1. keyForced \in BOOLEAN
    BY DEF Init
  <2> QED
    BY <2>1 DEF Init, TypeOK
<1>2. KeyKnown /\ PasswordsOfUsers /\ StartProgress /\ PasswordsKept
  BY DEF Init, KeyKnown, PasswordsOfUsers, StartProgress, PasswordsKept
<1>3. FilesMatchRecord
  BY DEF Init, FilesMatchRecord
<1> QED
  BY <1>1, <1>2, <1>3 DEF IInv

\* Every step keeps the types.
LEMMA TypeStep ==
  ASSUME IInv, Next
  PROVE  TypeOK'
<1> USE DEF TypeOK
<1>0. TypeOK /\ KeyKnown /\ StartProgress
  BY DEF IInv
<1>1. ASSUME NEW c \in Configs, StartFromSeed(c)
      PROVE  TypeOK'
  BY <1>1, <1>0 DEF StartFromSeed, Goto, Exit, disk, Boot, Key, Config, Steps, Queries
<1>2. ASSUME NEW c \in Configs, StartFromFile(c)
      PROVE  TypeOK'
  BY <1>2, <1>0 DEF StartFromFile, Goto, Exit, disk, Boot, Key, Steps, Queries
<1>3. ASSUME NEW c \in Configs, StartWithNewKey(c)
      PROVE  TypeOK'
  BY <1>3, <1>0 DEF StartWithNewKey, Goto, Boot, Key, Steps
<1>4. CASE WriteKeyFile
  BY <1>4, <1>0 DEF WriteKeyFile, Goto, history, KeyKnown, Steps, Queries
<1>5. CASE SetUpTables
  BY <1>5, <1>0 DEF SetUpTables, Goto, disk, history, Steps, Queries
<1>6. CASE CheckKey
  BY <1>6, <1>0 DEF CheckKey, Goto, Exit, disk, history, Steps, Queries
<1>7. CASE SetKey
  BY <1>7, <1>0 DEF SetKey, Goto, Steps, Queries
<1>8. ASSUME NEW g \in Reserved, EnsureGroup(g)
      PROVE  TypeOK'
  BY <1>8, <1>0 DEF EnsureGroup, history
<1>9. CASE GroupsEnsured
  BY <1>9, <1>0 DEF GroupsEnsured, Goto, disk, history, Steps
<1>10. CASE ListAdmins
  BY <1>10, <1>0 DEF ListAdmins, Goto, Exit, disk, history, BeginCreateAdmin, Steps,
         Queries
<1>11. CASE CreateAdmin
  BY <1>11, <1>0 DEF CreateAdmin, InsertUser, Goto, Exit, history, Config, Steps, Queries
<1>12. CASE RegisterPassword
  BY <1>12, <1>0 DEF RegisterPassword, Goto, history, PasswordFile, Config, KeyKnown,
         Steps, Queries
<1>13. CASE AddToGroup
  BY <1>13, <1>0 DEF AddToGroup, Goto, Added, StartProgress, Steps
<1>14. CASE ResetPassword
  BY <1>14, <1>0 DEF ResetPassword, Goto, Exit, history, PasswordFile, Config, KeyKnown,
         Steps
<1>15. CASE Decide
  BY <1>15, <1>0 DEF Decide, Goto, Exit, disk, history, Steps, Queries
<1>16. CASE BuildServers
  BY <1>16, <1>0 DEF BuildServers, Goto, disk, history
<1>17. CASE QueryFails
  BY <1>17, <1>0 DEF QueryFails, Exit, history, Fault
<1>18. CASE Kill
  BY <1>18, <1>0 DEF Kill, Exit, disk, history, Fault
<1>19. CASE LoseKeyFile
  BY <1>19, <1>0 DEF LoseKeyFile, history, Fault
<1>20. CASE Stop
  BY <1>20, <1>0 DEF Stop, Exit, disk, history
<1>21. ASSUME NEW u \in User, NEW e \in Email, CreateUser(u, e)
      PROVE  TypeOK'
  BY <1>21, <1>0 DEF CreateUser, InsertUser, history
<1>22. ASSUME NEW u \in User, AddUserToAdmins(u)
      PROVE  TypeOK'
  BY <1>22, <1>0 DEF AddUserToAdmins
<1>23. ASSUME NEW a \in User, NEW u \in User, DeleteUser(a, u)
      PROVE  TypeOK'
  BY <1>23, <1>0 DEF DeleteUser, history, WithoutUser
<1>24. ASSUME NEW a \in User, NEW u \in User, RemoveUserFromAdmins(a, u)
      PROVE  TypeOK'
  BY <1>24, <1>0 DEF RemoveUserFromAdmins, history
<1>25. ASSUME NEW g \in Reserved, DropGroup(g)
      PROVE  TypeOK'
  BY <1>25, <1>0 DEF DropGroup, history
<1>26. ASSUME NEW u \in User, NEW p \in Password, ChangePassword(u, p)
      PROVE  TypeOK'
  BY <1>26, <1>0 DEF ChangePassword, history, PasswordFile, KeyKnown
<1>27. ASSUME NEW u \in User, NEW e \in Email, ChangeEmail(u, e)
      PROVE  TypeOK'
  BY <1>27, <1>0 DEF ChangeEmail, history, PasswordFile, KeyKnown
<1> QED
  BY <1>1, <1>2, <1>3, <1>4, <1>5, <1>6, <1>7, <1>8, <1>9, <1>10, <1>11, <1>12, <1>13,
     <1>14, <1>15, <1>16, <1>17, <1>18, <1>19, <1>20, <1>21, <1>22, <1>23, <1>24, <1>25,
     <1>26, <1>27 DEF Next, Start, Step, Environment

\* Every step keeps the key known.
LEMMA KeyStep ==
  ASSUME IInv, Next
  PROVE  KeyKnown'
<1> USE DEF KeyKnown, KeyChecked
<1>0. TypeOK /\ KeyKnown
  BY DEF IInv
<1>1. ASSUME NEW c \in Configs, StartFromSeed(c)
      PROVE  KeyKnown'
  BY <1>1, <1>0 DEF StartFromSeed, Goto, Exit, Key, Config
<1>2. ASSUME NEW c \in Configs, StartFromFile(c)
      PROVE  KeyKnown'
  BY <1>2, <1>0 DEF StartFromFile, Goto, Exit, TypeOK, Key
<1>3. ASSUME NEW c \in Configs, StartWithNewKey(c)
      PROVE  KeyKnown'
  BY <1>3, <1>0 DEF StartWithNewKey, Goto, Key
<1>4. CASE WriteKeyFile
  BY <1>4, <1>0 DEF WriteKeyFile, Goto
<1>5. CASE SetUpTables
  BY <1>5, <1>0 DEF SetUpTables, Goto
<1>6. CASE CheckKey
  BY <1>6, <1>0 DEF CheckKey, Goto, Exit, disk, CompareKeys
<1>7. CASE SetKey
  BY <1>7, <1>0 DEF SetKey, Goto
<1>8. ASSUME NEW g \in Reserved, EnsureGroup(g)
      PROVE  KeyKnown'
  BY <1>8, <1>0 DEF EnsureGroup
<1>9. CASE GroupsEnsured
  BY <1>9, <1>0 DEF GroupsEnsured, Goto, disk
<1>10. CASE ListAdmins
  BY <1>10, <1>0 DEF ListAdmins, Goto, Exit, disk, BeginCreateAdmin
<1>11. CASE CreateAdmin
  BY <1>11, <1>0 DEF CreateAdmin, Goto, Exit
<1>12. CASE RegisterPassword
  BY <1>12, <1>0 DEF RegisterPassword, Goto
<1>13. CASE AddToGroup
  BY <1>13, <1>0 DEF AddToGroup, Goto
<1>14. CASE ResetPassword
  BY <1>14, <1>0 DEF ResetPassword, Goto, Exit
<1>15. CASE Decide
  BY <1>15, <1>0 DEF Decide, Goto, Exit, disk
<1>16. CASE BuildServers
  BY <1>16, <1>0 DEF BuildServers, Goto, disk
<1>17. CASE QueryFails
  BY <1>17, <1>0 DEF QueryFails, Exit
<1>18. CASE Kill
  BY <1>18, <1>0 DEF Kill, Exit
<1>19. CASE LoseKeyFile
  BY <1>19, <1>0 DEF LoseKeyFile
<1>20. CASE Stop
  BY <1>20, <1>0 DEF Stop, Exit
<1>21. ASSUME NEW u \in User, NEW e \in Email, CreateUser(u, e)
      PROVE  KeyKnown'
  BY <1>21, <1>0 DEF CreateUser, InsertUser
<1>22. ASSUME NEW u \in User, AddUserToAdmins(u)
      PROVE  KeyKnown'
  BY <1>22, <1>0 DEF AddUserToAdmins
<1>23. ASSUME NEW a \in User, NEW u \in User, DeleteUser(a, u)
      PROVE  KeyKnown'
  BY <1>23, <1>0 DEF DeleteUser
<1>24. ASSUME NEW a \in User, NEW u \in User, RemoveUserFromAdmins(a, u)
      PROVE  KeyKnown'
  BY <1>24, <1>0 DEF RemoveUserFromAdmins
<1>25. ASSUME NEW g \in Reserved, DropGroup(g)
      PROVE  KeyKnown'
  BY <1>25, <1>0 DEF DropGroup
<1>26. ASSUME NEW u \in User, NEW p \in Password, ChangePassword(u, p)
      PROVE  KeyKnown'
  BY <1>26, <1>0 DEF ChangePassword
<1>27. ASSUME NEW u \in User, NEW e \in Email, ChangeEmail(u, e)
      PROVE  KeyKnown'
  BY <1>27, <1>0 DEF ChangeEmail
<1> QED
  BY <1>1, <1>2, <1>3, <1>4, <1>5, <1>6, <1>7, <1>8, <1>9, <1>10, <1>11, <1>12, <1>13,
     <1>14, <1>15, <1>16, <1>17, <1>18, <1>19, <1>20, <1>21, <1>22, <1>23, <1>24, <1>25,
     <1>26, <1>27 DEF Next, Start, Step, Environment

\* Every step keeps the password files in line with the record.
LEMMA FilesStep ==
  ASSUME IInv, Next
  PROVE  FilesMatchRecord'
<1> USE DEF FilesMatchRecord
<1>0. TypeOK /\ KeyKnown /\ FilesMatchRecord
  BY DEF IInv
<1>1. ASSUME NEW c \in Configs, StartFromSeed(c)
      PROVE  FilesMatchRecord'
  BY <1>1, <1>0 DEF StartFromSeed, disk
<1>2. ASSUME NEW c \in Configs, StartFromFile(c)
      PROVE  FilesMatchRecord'
  BY <1>2, <1>0 DEF StartFromFile, disk
<1>3. ASSUME NEW c \in Configs, StartWithNewKey(c)
      PROVE  FilesMatchRecord'
  BY <1>3, <1>0 DEF StartWithNewKey
<1>4. CASE WriteKeyFile
  BY <1>4, <1>0 DEF WriteKeyFile, history
<1>5. CASE SetUpTables
  BY <1>5, <1>0 DEF SetUpTables, disk, history
<1>6. CASE CheckKey
  BY <1>6, <1>0 DEF CheckKey, disk, history
<1>7. CASE SetKey
  <2> SUFFICES ASSUME ~keyForced', NEW u \in User, passwd'[u] # NoPassword
               PROVE  passwd'[u].key = dbKey'
    OBVIOUS
  <2>1. ~keyForced /\ dbKey = NoKey
    BY <1>7 DEF SetKey
  <2>2. passwd[u] # NoPassword /\ passwd[u] \in PasswordFile
    BY <1>7, <1>0 DEF SetKey, TypeOK
  <2>3. passwd[u].key = NoKey /\ passwd[u].key \in Key
    BY <1>0, <2>1, <2>2 DEF PasswordFile
  <2> QED
    BY <2>3
<1>8. ASSUME NEW g \in Reserved, EnsureGroup(g)
      PROVE  FilesMatchRecord'
  BY <1>8, <1>0 DEF EnsureGroup, history
<1>9. CASE GroupsEnsured
  BY <1>9, <1>0 DEF GroupsEnsured, disk, history
<1>10. CASE ListAdmins
  BY <1>10, <1>0 DEF ListAdmins, disk, history
<1>11. CASE CreateAdmin
  BY <1>11, <1>0 DEF CreateAdmin, history
<1>12. CASE RegisterPassword
  BY <1>12, <1>0 DEF RegisterPassword, history, KeyKnown, KeyChecked
<1>13. CASE AddToGroup
  BY <1>13, <1>0 DEF AddToGroup
<1>14. CASE ResetPassword
  BY <1>14, <1>0 DEF ResetPassword, history, TypeOK, KeyKnown, KeyChecked
<1>15. CASE Decide
  BY <1>15, <1>0 DEF Decide, disk, history
<1>16. CASE BuildServers
  BY <1>16, <1>0 DEF BuildServers, disk, history
<1>17. CASE QueryFails
  BY <1>17, <1>0 DEF QueryFails, history
<1>18. CASE Kill
  BY <1>18, <1>0 DEF Kill, disk, history
<1>19. CASE LoseKeyFile
  BY <1>19, <1>0 DEF LoseKeyFile, history
<1>20. CASE Stop
  BY <1>20, <1>0 DEF Stop, disk, history
<1>21. ASSUME NEW u \in User, NEW e \in Email, CreateUser(u, e)
      PROVE  FilesMatchRecord'
  BY <1>21, <1>0 DEF CreateUser, InsertUser, history
<1>22. ASSUME NEW u \in User, AddUserToAdmins(u)
      PROVE  FilesMatchRecord'
  BY <1>22, <1>0 DEF AddUserToAdmins
<1>23. ASSUME NEW a \in User, NEW u \in User, DeleteUser(a, u)
      PROVE  FilesMatchRecord'
  BY <1>23, <1>0 DEF DeleteUser, history
<1>24. ASSUME NEW a \in User, NEW u \in User, RemoveUserFromAdmins(a, u)
      PROVE  FilesMatchRecord'
  BY <1>24, <1>0 DEF RemoveUserFromAdmins, history
<1>25. ASSUME NEW g \in Reserved, DropGroup(g)
      PROVE  FilesMatchRecord'
  BY <1>25, <1>0 DEF DropGroup, history
<1>26. ASSUME NEW u \in User, NEW p \in Password, ChangePassword(u, p)
      PROVE  FilesMatchRecord'
  BY <1>26, <1>0 DEF ChangePassword, history, KeyKnown, KeyChecked
<1>27. ASSUME NEW u \in User, NEW e \in Email, ChangeEmail(u, e)
      PROVE  FilesMatchRecord'
  BY <1>27, <1>0 DEF ChangeEmail, history, KeyKnown, KeyChecked
<1> QED
  BY <1>1, <1>2, <1>3, <1>4, <1>5, <1>6, <1>7, <1>8, <1>9, <1>10, <1>11, <1>12, <1>13,
     <1>14, <1>15, <1>16, <1>17, <1>18, <1>19, <1>20, <1>21, <1>22, <1>23, <1>24, <1>25,
     <1>26, <1>27 DEF Next, Start, Step, Environment

\* Every step leaves passwords to users only.
LEMMA UsersStep ==
  ASSUME IInv, Next
  PROVE  PasswordsOfUsers'
<1> USE DEF PasswordsOfUsers
<1>0. TypeOK /\ PasswordsOfUsers /\ StartProgress
  BY DEF IInv
<1>1. ASSUME NEW c \in Configs, StartFromSeed(c)
      PROVE  PasswordsOfUsers'
  BY <1>1, <1>0 DEF StartFromSeed, disk
<1>2. ASSUME NEW c \in Configs, StartFromFile(c)
      PROVE  PasswordsOfUsers'
  BY <1>2, <1>0 DEF StartFromFile, disk
<1>3. ASSUME NEW c \in Configs, StartWithNewKey(c)
      PROVE  PasswordsOfUsers'
  BY <1>3, <1>0 DEF StartWithNewKey
<1>4. CASE WriteKeyFile
  BY <1>4, <1>0 DEF WriteKeyFile
<1>5. CASE SetUpTables
  BY <1>5, <1>0 DEF SetUpTables, disk
<1>6. CASE CheckKey
  BY <1>6, <1>0 DEF CheckKey, disk
<1>7. CASE SetKey
  BY <1>7, <1>0 DEF SetKey
<1>8. ASSUME NEW g \in Reserved, EnsureGroup(g)
      PROVE  PasswordsOfUsers'
  BY <1>8, <1>0 DEF EnsureGroup
<1>9. CASE GroupsEnsured
  BY <1>9, <1>0 DEF GroupsEnsured, disk
<1>10. CASE ListAdmins
  BY <1>10, <1>0 DEF ListAdmins, disk
<1>11. CASE CreateAdmin
  BY <1>11, <1>0 DEF CreateAdmin, InsertUser
<1>12. CASE RegisterPassword
  BY <1>12, <1>0 DEF RegisterPassword, StartProgress
<1>13. CASE AddToGroup
  BY <1>13, <1>0 DEF AddToGroup
<1>14. CASE ResetPassword
  BY <1>14, <1>0 DEF ResetPassword, TypeOK
<1>15. CASE Decide
  BY <1>15, <1>0 DEF Decide, disk
<1>16. CASE BuildServers
  BY <1>16, <1>0 DEF BuildServers, disk
<1>17. CASE QueryFails
  BY <1>17, <1>0 DEF QueryFails
<1>18. CASE Kill
  BY <1>18, <1>0 DEF Kill, disk
<1>19. CASE LoseKeyFile
  BY <1>19, <1>0 DEF LoseKeyFile
<1>20. CASE Stop
  BY <1>20, <1>0 DEF Stop, disk
<1>21. ASSUME NEW u \in User, NEW e \in Email, CreateUser(u, e)
      PROVE  PasswordsOfUsers'
  BY <1>21, <1>0 DEF CreateUser, InsertUser
<1>22. ASSUME NEW u \in User, AddUserToAdmins(u)
      PROVE  PasswordsOfUsers'
  BY <1>22, <1>0 DEF AddUserToAdmins
<1>23. ASSUME NEW a \in User, NEW u \in User, DeleteUser(a, u)
      PROVE  PasswordsOfUsers'
  BY <1>23, <1>0 DEF DeleteUser, TypeOK
<1>24. ASSUME NEW a \in User, NEW u \in User, RemoveUserFromAdmins(a, u)
      PROVE  PasswordsOfUsers'
  BY <1>24, <1>0 DEF RemoveUserFromAdmins
<1>25. ASSUME NEW g \in Reserved, DropGroup(g)
      PROVE  PasswordsOfUsers'
  BY <1>25, <1>0 DEF DropGroup
<1>26. ASSUME NEW u \in User, NEW p \in Password, ChangePassword(u, p)
      PROVE  PasswordsOfUsers'
  BY <1>26, <1>0 DEF ChangePassword
<1>27. ASSUME NEW u \in User, NEW e \in Email, ChangeEmail(u, e)
      PROVE  PasswordsOfUsers'
  BY <1>27, <1>0 DEF ChangeEmail
<1> QED
  BY <1>1, <1>2, <1>3, <1>4, <1>5, <1>6, <1>7, <1>8, <1>9, <1>10, <1>11, <1>12, <1>13,
     <1>14, <1>15, <1>16, <1>17, <1>18, <1>19, <1>20, <1>21, <1>22, <1>23, <1>24, <1>25,
     <1>26, <1>27 DEF Next, Start, Step, Environment

\* Every step keeps what a start has established.
LEMMA ProgressStep ==
  ASSUME IInv, Next
  PROVE  StartProgress'
<1> USE DEF StartProgress
<1>0. TypeOK /\ StartProgress /\ PasswordsKept /\ PasswordsOfUsers
  BY DEF IInv
<1>1. ASSUME NEW c \in Configs, StartFromSeed(c)
      PROVE  StartProgress'
  BY <1>1, <1>0 DEF StartFromSeed, Goto, Exit
<1>2. ASSUME NEW c \in Configs, StartFromFile(c)
      PROVE  StartProgress'
  BY <1>2, <1>0 DEF StartFromFile, Goto, Exit
<1>3. ASSUME NEW c \in Configs, StartWithNewKey(c)
      PROVE  StartProgress'
  BY <1>3, <1>0 DEF StartWithNewKey, Goto
<1>4. CASE WriteKeyFile
  BY <1>4, <1>0 DEF WriteKeyFile, Goto
<1>5. CASE SetUpTables
  BY <1>5, <1>0 DEF SetUpTables, Goto
<1>6. CASE CheckKey
  BY <1>6, <1>0 DEF CheckKey, Goto, Exit
<1>7. CASE SetKey
  BY <1>7, <1>0 DEF SetKey, Goto
<1>8. ASSUME NEW g \in Reserved, EnsureGroup(g)
      PROVE  StartProgress'
  BY <1>8, <1>0 DEF EnsureGroup
<1>9. CASE GroupsEnsured
  BY <1>9, <1>0 DEF GroupsEnsured, Goto, disk, Missing, Reserved
<1>10. CASE ListAdmins
  BY <1>10, <1>0 DEF ListAdmins, Goto, Exit, disk, BeginCreateAdmin
<1>11. CASE CreateAdmin
  BY <1>11, <1>0 DEF CreateAdmin, InsertUser, Goto, Exit, history, CanInsert, TypeOK, PasswordsKept,
         PasswordsOfUsers, Config
<1>12. CASE RegisterPassword
  BY <1>12, <1>0 DEF RegisterPassword, Goto
<1>13. CASE AddToGroup
  BY <1>13, <1>0 DEF AddToGroup, Goto, Added
<1>14. CASE ResetPassword
  BY <1>14, <1>0 DEF ResetPassword, Goto, Exit
<1>15. CASE Decide
  BY <1>15, <1>0 DEF Decide, Goto, Exit, disk
<1>16. CASE BuildServers
  BY <1>16, <1>0 DEF BuildServers, Goto
<1>17. CASE QueryFails
  BY <1>17, <1>0 DEF QueryFails, Exit
<1>18. CASE Kill
  BY <1>18, <1>0 DEF Kill, Exit
<1>19. CASE LoseKeyFile
  BY <1>19, <1>0 DEF LoseKeyFile
<1>20. CASE Stop
  BY <1>20, <1>0 DEF Stop, Exit
<1>21. ASSUME NEW u \in User, NEW e \in Email, CreateUser(u, e)
      PROVE  StartProgress'
  BY <1>21, <1>0 DEF CreateUser, InsertUser
<1>22. ASSUME NEW u \in User, AddUserToAdmins(u)
      PROVE  StartProgress'
  BY <1>22, <1>0 DEF AddUserToAdmins
<1>23. ASSUME NEW a \in User, NEW u \in User, DeleteUser(a, u)
      PROVE  StartProgress'
  BY <1>23, <1>0 DEF DeleteUser
<1>24. ASSUME NEW a \in User, NEW u \in User, RemoveUserFromAdmins(a, u)
      PROVE  StartProgress'
  BY <1>24, <1>0 DEF RemoveUserFromAdmins
<1>25. ASSUME NEW g \in Reserved, DropGroup(g)
      PROVE  StartProgress'
  BY <1>25, <1>0 DEF DropGroup
<1>26. ASSUME NEW u \in User, NEW p \in Password, ChangePassword(u, p)
      PROVE  StartProgress'
  BY <1>26, <1>0 DEF ChangePassword
<1>27. ASSUME NEW u \in User, NEW e \in Email, ChangeEmail(u, e)
      PROVE  StartProgress'
  BY <1>27, <1>0 DEF ChangeEmail
<1> QED
  BY <1>1, <1>2, <1>3, <1>4, <1>5, <1>6, <1>7, <1>8, <1>9, <1>10, <1>11, <1>12, <1>13,
     <1>14, <1>15, <1>16, <1>17, <1>18, <1>19, <1>20, <1>21, <1>22, <1>23, <1>24, <1>25,
     <1>26, <1>27 DEF Next, Start, Step, Environment

\* Every step of a start leaves the passwords alone.
LEMMA KeptStep ==
  ASSUME IInv, Next
  PROVE  PasswordsKept'
<1> USE DEF PasswordsKept
<1>0. TypeOK /\ StartProgress /\ PasswordsKept
  BY DEF IInv
<1>1. ASSUME NEW c \in Configs, StartFromSeed(c)
      PROVE  PasswordsKept'
  BY <1>1, <1>0 DEF StartFromSeed, disk, Boot
<1>2. ASSUME NEW c \in Configs, StartFromFile(c)
      PROVE  PasswordsKept'
  BY <1>2, <1>0 DEF StartFromFile, disk, Boot
<1>3. ASSUME NEW c \in Configs, StartWithNewKey(c)
      PROVE  PasswordsKept'
  BY <1>3, <1>0 DEF StartWithNewKey, Boot
<1>4. CASE WriteKeyFile
  BY <1>4, <1>0 DEF WriteKeyFile, history, Steps
<1>5. CASE SetUpTables
  BY <1>5, <1>0 DEF SetUpTables, disk, history, Steps, Queries
<1>6. CASE CheckKey
  BY <1>6, <1>0 DEF CheckKey, disk, history, Steps, Queries
<1>7. CASE SetKey
  BY <1>7, <1>0 DEF SetKey, Steps, Queries
<1>8. ASSUME NEW g \in Reserved, EnsureGroup(g)
      PROVE  PasswordsKept'
  BY <1>8, <1>0 DEF EnsureGroup, history
<1>9. CASE GroupsEnsured
  BY <1>9, <1>0 DEF GroupsEnsured, disk, history, Steps, Queries
<1>10. CASE ListAdmins
  BY <1>10, <1>0 DEF ListAdmins, disk, history, Steps
<1>11. CASE CreateAdmin
  BY <1>11, <1>0 DEF CreateAdmin, history, Steps, Queries
<1>12. CASE RegisterPassword
  BY <1>12, <1>0 DEF RegisterPassword, history, StartProgress, Steps, Queries
<1>13. CASE AddToGroup
  BY <1>13, <1>0 DEF AddToGroup, Steps, Queries
<1>14. CASE ResetPassword
  BY <1>14, <1>0 DEF ResetPassword, StartProgress
<1>15. CASE Decide
  BY <1>15, <1>0 DEF Decide, disk, history, Steps
<1>16. CASE BuildServers
  BY <1>16, <1>0 DEF BuildServers, disk, history, Steps, Queries
<1>17. CASE QueryFails
  BY <1>17, <1>0 DEF QueryFails, history, Steps
<1>18. CASE Kill
  BY <1>18, <1>0 DEF Kill, disk, history
<1>19. CASE LoseKeyFile
  BY <1>19, <1>0 DEF LoseKeyFile, Steps, Queries
<1>20. CASE Stop
  BY <1>20, <1>0 DEF Stop, Exit, Steps, Queries
<1>21. ASSUME NEW u \in User, NEW e \in Email, CreateUser(u, e)
      PROVE  PasswordsKept'
  BY <1>21, <1>0 DEF CreateUser, InsertUser, Steps, Queries
<1>22. ASSUME NEW u \in User, AddUserToAdmins(u)
      PROVE  PasswordsKept'
  BY <1>22, <1>0 DEF AddUserToAdmins
<1>23. ASSUME NEW a \in User, NEW u \in User, DeleteUser(a, u)
      PROVE  PasswordsKept'
  BY <1>23, <1>0 DEF DeleteUser, Steps, Queries
<1>24. ASSUME NEW a \in User, NEW u \in User, RemoveUserFromAdmins(a, u)
      PROVE  PasswordsKept'
  BY <1>24, <1>0 DEF RemoveUserFromAdmins, Steps, Queries
<1>25. ASSUME NEW g \in Reserved, DropGroup(g)
      PROVE  PasswordsKept'
  BY <1>25, <1>0 DEF DropGroup, Steps, Queries
<1>26. ASSUME NEW u \in User, NEW p \in Password, ChangePassword(u, p)
      PROVE  PasswordsKept'
  BY <1>26, <1>0 DEF ChangePassword, Steps, Queries
<1>27. ASSUME NEW u \in User, NEW e \in Email, ChangeEmail(u, e)
      PROVE  PasswordsKept'
  BY <1>27, <1>0 DEF ChangeEmail, Steps, Queries
<1> QED
  BY <1>1, <1>2, <1>3, <1>4, <1>5, <1>6, <1>7, <1>8, <1>9, <1>10, <1>11, <1>12, <1>13,
     <1>14, <1>15, <1>16, <1>17, <1>18, <1>19, <1>20, <1>21, <1>22, <1>23, <1>24, <1>25,
     <1>26, <1>27 DEF Next, Start, Step, Environment

\* The inductive invariant holds in every reachable state.
THEOREM Invariance == Spec => []IInv
<1>1. IInv /\ UNCHANGED vars => IInv'
  BY DEF IInv, vars, disk, history, TypeOK, KeyKnown, FilesMatchRecord,
         PasswordsOfUsers, StartProgress, PasswordsKept
<1>2. IInv /\ Next => IInv'
  BY TypeStep, KeyStep, FilesStep, UsersStep, ProgressStep, KeptStep DEF IInv
<1> QED
  BY InitIInv, <1>1, <1>2, PTL DEF Spec

\* Every variable keeps its type (all of main.rs).
THEOREM TypeCorrect == Spec => []TypeOK
<1>1. IInv => TypeOK
  BY DEF IInv
<1> QED
  BY <1>1, Invariance, PTL

\* The server serves only password files made with its own key, unless the
\* operator forced an update of the key (set_up_server).
THEOREM PasswordsStayUsable == Spec => []PasswordsUsable
<1>1. IInv => PasswordsUsable
  BY DEF IInv, PasswordsUsable, KeyKnown, KeyChecked, FilesMatchRecord
<1> QED
  BY <1>1, Invariance, PTL

\* A start without force_ldap_user_pass_reset overwrites no password
\* (create_admin_user).
THEOREM PasswordsAreKept == Spec => []PasswordsKept
<1>1. IInv => PasswordsKept
  BY DEF IInv
<1> QED
  BY <1>1, Invariance, PTL

\* The assertion of create_admin_user on the group never fails.
THEOREM AdminGroupIsFound == Spec => []AdminGroupFound
<1>1. IInv => AdminGroupFound
  BY DEF IInv, AdminGroupFound, StartProgress
<1> QED
  BY <1>1, Invariance, PTL

\* The server begins to serve only when there is an administrator
\* (set_up_server).
THEOREM AdminWhenServing == Spec => ServingHasAdmin
<1>1. IInv /\ [Next]_vars => [pc # "serving" /\ pc' = "serving" => admins # {}]_vars
  <2> SUFFICES ASSUME IInv, Next, pc # "serving", pc' = "serving"
               PROVE  admins # {}
    BY DEF vars
  <2>1. BuildServers
    BY DEF Next, Start, StartFromSeed, StartFromFile, StartWithNewKey, Step,
           WriteKeyFile, SetUpTables, CheckKey, SetKey, EnsureGroup, GroupsEnsured,
           ListAdmins, BeginCreateAdmin, CreateAdmin, RegisterPassword, AddToGroup,
           ResetPassword, Decide, Environment, QueryFails, Kill, LoseKeyFile, Stop,
           CreateUser, AddUserToAdmins, DeleteUser, RemoveUserFromAdmins, DropGroup,
           ChangePassword, ChangeEmail, Goto, Exit
  <2> QED
    BY <2>1 DEF BuildServers, IInv, StartProgress
<1> QED
  BY <1>1, Invariance, PTL DEF Spec, ServingHasAdmin

=============================================================================
