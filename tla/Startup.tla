------------------------------ MODULE Startup -------------------------------
(***************************************************************************)
(* The start of the LLDAP server (server/src/main.rs, configuration.rs):   *)
(* the private key that the password files depend on, the built-in groups  *)
(* and the administrator.  A start is a sequence of writes to the key file *)
(* and the database; the process can be killed, and the database can fail, *)
(* between any two of them, and the operator starts the server again, with *)
(* any configuration.  While the server runs, administrators change users  *)
(* and memberships under the guards of graphql/mutation.rs.                *)
(*                                                                         *)
(* One server uses the database.  The database is created by this version  *)
(* of LLDAP (an older one has password files and no key hash).             *)
(***************************************************************************)
EXTENDS Naturals

CONSTANTS
    User,           \* user ids
    Email,          \* e-mail addresses, up to their case (lowercase_email)
    NoEmail,        \* there is no such user
    Password,       \* passwords
    LongPassword,   \* the passwords of 8 characters or more
    RandomKey,      \* private keys that can be drawn at random
    Seed,           \* key seeds; a seed stands for the key derived from it
    NoSeed,         \* key_seed is empty
    NoKey,          \* no key file; no key hash in the table "metadata"
    TruncatedKey,   \* a key file that exists and is not written completely
    NoPassword,     \* password_hash is NULL
    Configs,        \* the configurations the operator uses
    MaxFaults       \* bound on kills, database errors and lost key files

Reserved == {"lldap_admin", "lldap_password_manager", "lldap_strict_readonly"}

Config == [dn : User,                     \* ldap_user_dn
           email : Email,                 \* ldap_user_email
           pass : Password,               \* ldap_user_pass
           seed : Seed \cup {NoSeed},     \* key_seed
           forceKey : BOOLEAN,            \* force_update_private_key
           forcePass : BOOLEAN]           \* force_ldap_user_pass_reset

Key == RandomKey \cup Seed
PasswordFile == [pass : Password, key : Key]

ASSUME StartupAssumption ==
    /\ LongPassword \subseteq Password
    /\ NoKey \notin Key /\ TruncatedKey \notin Key /\ NoKey # TruncatedKey
    /\ NoSeed \notin Seed
    /\ NoEmail \notin Email
    /\ NoPassword \notin PasswordFile
    /\ RandomKey \cap Seed = {}
    /\ Configs # {} /\ Configs \subseteq Config
    /\ MaxFaults \in Nat

VARIABLES
    keyFile,      \* the contents of key_file
    dbKey,        \* metadata.private_key_hash
    groupId,      \* id of each built-in group, 0 if there is none; what
                  \* matters is whether it is 1, so 2 stands for all others
    nextId,       \* the next group id the database hands out, 1 or 2
    users,        \* rows of the table "users"
    email,        \* users.lowercase_email, which has a unique index
    admins,       \* members of the group named lldap_admin
    passwd,       \* users.password_hash
    pc,           \* where the process is
    conf,         \* the configuration of the last start
    serverKey,    \* the private key of the last start
    exit,         \* how the last process ended
    faults,       \* number of faults so far
    drawn,        \* history: random keys drawn so far
    keyForced,    \* history: the operator forced an update of the key
    everAdmin,    \* history: users who were administrators (JWTs outlive it)
    before        \* history: passwd when the process started

disk == <<keyFile, dbKey, groupId, nextId, users, email, admins, passwd>>
history == <<drawn, keyForced, everAdmin, before>>
vars == <<disk, pc, conf, serverKey, exit, faults, history>>

\* The steps of a start that talk to the database and give up on an error.
Queries == {"tables", "check_key", "set_key", "ensure_groups", "create_user",
            "register_password", "add_to_group", "reset_password", "build"}

Steps == Queries \cup {"write_key", "list_admins", "decide"}

Init ==
    /\ keyFile = NoKey /\ dbKey = NoKey
    /\ groupId = [g \in Reserved |-> 0] /\ nextId = 1
    /\ users = {} /\ email = [u \in User |-> NoEmail] /\ admins = {}
    /\ passwd = [u \in User |-> NoPassword]
    /\ pc = "down" /\ conf \in Configs /\ serverKey = NoKey /\ exit = "none"
    /\ faults = 0
    /\ drawn = {} /\ keyForced = FALSE /\ everAdmin = {}
    /\ before = [u \in User |-> NoPassword]

Goto(s) == pc' = s /\ UNCHANGED exit
Exit(how) == pc' = "down" /\ exit' = how

-----------------------------------------------------------------------------
(* get_server_setup: where the private key comes from.                      *)

Boot(c) ==
    /\ pc = "down"
    /\ conf' = c
    /\ before' = passwd

\* A seed, and no key file that contradicts it.
StartFromSeed(c) ==
    /\ Boot(c)
    /\ c.seed # NoSeed
    /\ IF keyFile # NoKey
       THEN Exit("config_error") /\ UNCHANGED serverKey
       ELSE Goto("tables") /\ serverKey' = c.seed
    /\ UNCHANGED <<disk, faults, drawn, keyForced, everAdmin>>

\* The key file exists; it has to parse.
StartFromFile(c) ==
    /\ Boot(c)
    /\ c.seed = NoSeed /\ keyFile # NoKey
    /\ IF keyFile = TruncatedKey
       THEN Exit("config_error") /\ UNCHANGED serverKey
       ELSE Goto("tables") /\ serverKey' = keyFile
    /\ UNCHANGED <<disk, faults, drawn, keyForced, everAdmin>>

\* A new key is drawn, its file created and made read-only, then written.
StartWithNewKey(c) ==
    /\ Boot(c)
    /\ c.seed = NoSeed /\ keyFile = NoKey
    /\ \E k \in RandomKey \ drawn :
          serverKey' = k /\ drawn' = drawn \cup {k}
    /\ keyFile' = TruncatedKey
    /\ Goto("write_key")
    /\ UNCHANGED <<dbKey, groupId, nextId, users, email, admins, passwd, faults,
                   keyForced, everAdmin>>

WriteKeyFile ==
    /\ pc = "write_key"
    /\ keyFile' = serverKey
    /\ Goto("tables")
    /\ UNCHANGED <<dbKey, groupId, nextId, users, email, admins, passwd, conf, serverKey,
                   faults, history>>

-----------------------------------------------------------------------------
(* set_up_server.                                                           *)

SetUpTables ==
    /\ pc = "tables"
    /\ Goto("check_key")
    /\ UNCHANGED <<disk, conf, serverKey, faults, history>>

\* Mutants: a key that differs from the recorded one is not noticed; no key
\* is ever recognised.
AnyKeyIsSame == IF dbKey = NoKey THEN "new" ELSE "same"
NoKeyIsSame == IF dbKey = NoKey THEN "new" ELSE "changed"

\* compare_private_key_hashes.
CompareKeys == CASE dbKey = NoKey -> "new"
                 [] dbKey = serverKey -> "same"
                 [] OTHER -> "changed"

CheckKey ==
    /\ pc = "check_key"
    /\ \/ CompareKeys = "same" /\ ~conf.forceKey /\ Goto("ensure_groups")
       \/ CompareKeys = "same" /\ conf.forceKey /\ Exit("force_key_useless")
       \/ CompareKeys = "new" /\ Goto("set_key")
       \/ CompareKeys = "changed" /\ conf.forceKey /\ Goto("set_key")
       \/ CompareKeys = "changed" /\ ~conf.forceKey /\ Exit("key_changed")
    /\ UNCHANGED <<disk, conf, serverKey, faults, history>>

SetKey ==
    /\ pc = "set_key"
    /\ dbKey' = serverKey
    /\ keyForced' = (keyForced \/ dbKey # NoKey)
    /\ Goto("ensure_groups")
    /\ UNCHANGED <<keyFile, groupId, nextId, users, email, admins, passwd, conf, serverKey,
                   faults, drawn, everAdmin, before>>

\* Mutant: the administrators' group is not among those that are ensured.
MissingOther == {g \in Reserved \ {"lldap_admin"} : groupId[g] = 0}

\* The built-in groups that are not there.
Missing == {g \in Reserved : groupId[g] = 0}

\* ensure_group_exists: lldap_admin first, then the other two.
EnsureGroup(g) ==
    /\ pc = "ensure_groups"
    /\ g \in Missing
    /\ g # "lldap_admin" => "lldap_admin" \notin Missing
    /\ g = "lldap_strict_readonly" => "lldap_password_manager" \notin Missing
    /\ groupId' = [groupId EXCEPT ![g] = nextId]
    /\ nextId' = 2
    /\ UNCHANGED <<keyFile, dbKey, users, email, admins, passwd, pc, conf, serverKey, exit,
                   faults, history>>

GroupsEnsured ==
    /\ pc = "ensure_groups"
    /\ Missing = {}
    /\ Goto("list_admins")
    /\ UNCHANGED <<disk, conf, serverKey, faults, history>>

\* create_admin_user begins with an assertion on the password's length.
BeginCreateAdmin ==
    IF conf.pass \in LongPassword THEN Goto("create_user") ELSE Exit("panic")

\* An error of the query counts as "no administrator".
ListAdmins ==
    /\ pc = "list_admins"
    /\ \/ /\ admins # {}
          /\ Goto(IF conf.forcePass THEN "reset_password" ELSE "decide")
          /\ UNCHANGED faults
       \/ /\ admins = {}
          /\ BeginCreateAdmin
          /\ UNCHANGED faults
       \/ /\ faults < MaxFaults /\ faults' = faults + 1
          /\ BeginCreateAdmin
    /\ UNCHANGED <<disk, conf, serverKey, history>>

\* Mutant: an existing user is taken over.
NameFree(u, e) == \A v \in users : email[v] # e

\* The insert of create_user meets neither the primary key nor the unique
\* index on the addresses.
CanInsert(u, e) == u \notin users /\ \A v \in users : email[v] # e

\* The rows of "users" after the insert.
InsertUser(u, e) ==
    /\ users' = users \cup {u}
    /\ email' = [email EXCEPT ![u] = e]

CreateAdmin ==
    /\ pc = "create_user"
    /\ IF CanInsert(conf.dn, conf.email)
       THEN Goto("register_password") /\ InsertUser(conf.dn, conf.email)
       ELSE Exit("admin_error") /\ UNCHANGED <<users, email>>
    /\ UNCHANGED <<keyFile, dbKey, groupId, nextId, admins, passwd, conf, serverKey,
                   faults, history>>

RegisterPassword ==
    /\ pc = "register_password"
    /\ passwd' = [passwd EXCEPT ![conf.dn] = [pass |-> conf.pass, key |-> serverKey]]
    /\ Goto("add_to_group")
    /\ UNCHANGED <<keyFile, dbKey, groupId, nextId, users, email, admins, conf, serverKey,
                   faults, history>>

\* Mutant: the administrator is created and not added to the group.
NotAdded(u) == {}

\* The row that add_user_to_group inserts.
Added(u) == {u}

AddToGroup ==
    /\ pc = "add_to_group"
    /\ admins' = admins \cup Added(conf.dn)
    /\ everAdmin' = everAdmin \cup {conf.dn}
    /\ Goto("decide")
    /\ UNCHANGED <<keyFile, dbKey, groupId, nextId, users, email, passwd, conf, serverKey,
                   faults, drawn, keyForced, before>>

\* force_ldap_user_pass_reset; the update fails if the user is not there.
ResetPassword ==
    /\ pc = "reset_password"
    /\ IF conf.dn \in users
       THEN /\ passwd' = [passwd EXCEPT ![conf.dn] = [pass |-> conf.pass, key |-> serverKey]]
            /\ Goto("decide")
       ELSE Exit("admin_error") /\ UNCHANGED passwd
    /\ UNCHANGED <<keyFile, dbKey, groupId, nextId, users, email, admins, conf, serverKey,
                   faults, history>>

\* With one of the force flags the server never gets to serve.
Decide ==
    /\ pc = "decide"
    /\ IF conf.forceKey \/ conf.forcePass THEN Exit("restart_without_force")
       ELSE Goto("build")
    /\ UNCHANGED <<disk, conf, serverKey, faults, history>>

\* The servers are bound, the blacklist is read, the cleaner is scheduled.
BuildServers ==
    /\ pc = "build"
    /\ Goto("serving")
    /\ UNCHANGED <<disk, conf, serverKey, faults, history>>

-----------------------------------------------------------------------------
(* Faults.                                                                  *)

Fault == faults < MaxFaults /\ faults' = faults + 1

\* A query fails.  An insert that is rolled back may use up a group id (it
\* does with the sequences of PostgreSQL and MySQL).
QueryFails ==
    /\ pc \in Queries
    /\ Fault
    /\ Exit("db_error")
    /\ \/ UNCHANGED nextId
       \/ pc = "ensure_groups" /\ Missing # {} /\ nextId' = 2
    /\ UNCHANGED <<keyFile, dbKey, groupId, users, email, admins, passwd, conf, serverKey,
                   history>>

Kill ==
    /\ pc \in Steps
    /\ Fault
    /\ Exit("killed")
    /\ UNCHANGED <<disk, conf, serverKey, history>>

\* A container without a persistent volume.
LoseKeyFile ==
    /\ pc = "down" /\ keyFile # NoKey
    /\ Fault
    /\ keyFile' = NoKey
    /\ UNCHANGED <<dbKey, groupId, nextId, users, email, admins, passwd, pc, conf, serverKey,
                   exit, history>>

-----------------------------------------------------------------------------
(* The running server.                                                      *)

Stop ==
    /\ pc = "serving"
    /\ Exit("stopped")
    /\ UNCHANGED <<disk, conf, serverKey, faults, history>>

CreateUser(u, e) ==
    /\ pc = "serving" /\ everAdmin # {}
    /\ CanInsert(u, e)
    /\ InsertUser(u, e)
    /\ UNCHANGED <<keyFile, dbKey, groupId, nextId, admins, passwd, pc, conf,
                   serverKey, exit, faults, history>>

\* update_user with an address that no other user has.
ChangeEmail(u, e) ==
    /\ pc = "serving" /\ u \in users
    /\ \A v \in users : email[v] # e
    /\ email' = [email EXCEPT ![u] = e]
    /\ UNCHANGED <<keyFile, dbKey, groupId, nextId, users, admins, passwd, pc, conf,
                   serverKey, exit, faults, history>>

\* Mutant: deleting a user leaves their memberships behind.
MembershipsKept(u) == admins

\* The administrators after the deletion of u (ON DELETE CASCADE).
WithoutUser(u) == admins \ {u}

\* Administrator a deletes u: nobody deletes themself.
DeleteUser(a, u) ==
    /\ pc = "serving" /\ a \in everAdmin /\ a # u
    /\ u \in users
    /\ users' = users \ {u}
    /\ email' = [email EXCEPT ![u] = NoEmail]
    /\ admins' = WithoutUser(u)
    /\ passwd' = [passwd EXCEPT ![u] = NoPassword]
    /\ UNCHANGED <<keyFile, dbKey, groupId, nextId, pc, conf, serverKey, exit,
                   faults, history>>

AddUserToAdmins(u) ==
    /\ pc = "serving" /\ everAdmin # {}
    /\ groupId["lldap_admin"] # 0
    /\ u \in users \ admins
    /\ admins' = admins \cup {u}
    /\ everAdmin' = everAdmin \cup {u}
    /\ UNCHANGED <<keyFile, dbKey, groupId, nextId, users, email, passwd, pc, conf,
                   serverKey, exit, faults, drawn, keyForced, before>>

\* Nobody leaves the group with id 1 by their own hand.
RemoveUserFromAdmins(a, u) ==
    /\ pc = "serving" /\ a \in everAdmin
    /\ u \in admins
    /\ ~(a = u /\ groupId["lldap_admin"] = 1)
    /\ admins' = admins \ {u}
    /\ UNCHANGED <<keyFile, dbKey, groupId, nextId, users, email, passwd, pc, conf,
                   serverKey, exit, faults, history>>

\* A built-in group is deleted or gets another name, unless its id is 1.
DropGroup(g) ==
    /\ pc = "serving" /\ everAdmin # {}
    /\ groupId[g] \notin {0, 1}
    /\ groupId' = [groupId EXCEPT ![g] = 0]
    /\ admins' = IF g = "lldap_admin" THEN {} ELSE admins
    /\ UNCHANGED <<keyFile, dbKey, nextId, users, email, passwd, pc, conf, serverKey,
                   exit, faults, history>>

ChangePassword(u, p) ==
    /\ pc = "serving"
    /\ u \in users
    /\ passwd' = [passwd EXCEPT ![u] = [pass |-> p, key |-> serverKey]]
    /\ UNCHANGED <<keyFile, dbKey, groupId, nextId, users, email, admins, pc, conf,
                   serverKey, exit, faults, history>>

-----------------------------------------------------------------------------
Start(c) == StartFromSeed(c) \/ StartFromFile(c) \/ StartWithNewKey(c)

Step ==
    \/ WriteKeyFile \/ SetUpTables \/ CheckKey \/ SetKey
    \/ \E g \in Reserved : EnsureGroup(g)
    \/ GroupsEnsured \/ ListAdmins \/ CreateAdmin \/ RegisterPassword
    \/ AddToGroup \/ ResetPassword \/ Decide \/ BuildServers

Environment ==
    \/ QueryFails \/ Kill \/ LoseKeyFile \/ Stop
    \/ \E u \in User : AddUserToAdmins(u)
    \/ \E u \in User, e \in Email : CreateUser(u, e) \/ ChangeEmail(u, e)
    \/ \E a, u \in User : DeleteUser(a, u) \/ RemoveUserFromAdmins(a, u)
    \/ \E g \in Reserved : DropGroup(g)
    \/ \E u \in User, p \in Password : ChangePassword(u, p)

Next ==
    \/ \E c \in Configs : Start(c)
    \/ Step
    \/ Environment

Spec == Init /\ [][Next]_vars

\* A process that is not killed goes on, and a service manager starts the
\* server again when it has ended.
FairSpec ==
    /\ Spec
    /\ WF_vars(Step)
    /\ WF_vars(\E c \in Configs : Start(c))

-----------------------------------------------------------------------------
(* Properties.                                                              *)

\* Every variable has its type; the administrators are users.
TypeOK ==
    /\ keyFile \in RandomKey \cup {NoKey, TruncatedKey}
    /\ dbKey \in Key \cup {NoKey}
    /\ groupId \in [Reserved -> 0..2]
    /\ nextId \in 1..2
    /\ users \subseteq User
    /\ email \in [User -> Email \cup {NoEmail}]
    /\ admins \subseteq users
    /\ passwd \in [User -> PasswordFile \cup {NoPassword}]
    /\ pc \in Steps \cup {"down", "serving"}
    /\ conf \in Config
    /\ serverKey \in Key \cup {NoKey}
    /\ exit \in {"none", "config_error", "force_key_useless", "key_changed", "panic",
                 "admin_error", "restart_without_force", "db_error", "killed", "stopped"}
    /\ faults \in 0..MaxFaults
    /\ drawn \subseteq RandomKey
    /\ keyForced \in BOOLEAN
    /\ everAdmin \subseteq User
    /\ before \in [User -> PasswordFile \cup {NoPassword}]

\* The server never serves password files that another private key made,
\* whatever was killed, lost or reconfigured before, unless the operator
\* forced an update of the key (compare_private_key_hashes, set_up_server).
PasswordsUsable ==
    pc = "serving" /\ ~keyForced =>
        \A u \in User : passwd[u] # NoPassword => passwd[u].key = serverKey

\* A start without force_ldap_user_pass_reset leaves every password alone that
\* was there before it: in particular it does not take over an account that
\* has the name of the configured administrator (create_admin_user).
PasswordsKept ==
    pc \in Steps /\ ~conf.forcePass =>
        \A u \in User : before[u] # NoPassword => passwd[u] = before[u]

\* When the server begins to serve there is an administrator, however many
\* starts before this one were cut short (set_up_server).
ServingHasAdmin == [][pc # "serving" /\ pc' = "serving" => admins # {}]_vars

\* The assertion of create_admin_user that there is one group lldap_admin
\* never fails (ensure_group_exists ran before, and nothing drops the group
\* during a start).
AdminGroupFound == pc = "add_to_group" => groupId["lldap_admin"] # 0

\* States from which no start with configuration c serves: the key file is
\* cut short, another key is on record, or nobody is administrator and an
\* account has the configured name or the configured e-mail address.
Stuck(c) ==
    \/ keyFile = TruncatedKey
    \/ keyFile # NoKey /\ dbKey \notin {NoKey, keyFile}
    \/ keyFile = NoKey /\ dbKey # NoKey
    \/ admins = {} /\ ~CanInsert(c.dn, c.email)

\* A start that was killed, or that met a database error, is made good by
\* starting again: sooner or later the server serves, unless an administrator
\* has to step in (a cut or lost key file, an administrator account that was
\* created and not yet added to its group, an address that is taken).
RestartRecovers ==
    (pc # "serving") ~> (pc = "serving" \/ \E c \in Configs : Stuck(c))

=============================================================================
