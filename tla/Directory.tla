----------------------------- MODULE Directory ------------------------------
(***************************************************************************)
(* Users, groups and memberships, and who may change what: the mutations   *)
(* of the GraphQL API (graphql/mutation.rs), the access control in front   *)
(* of the back end (access_control.rs), LDAP sessions (ldap_handler.rs)    *)
(* and the change of passwords over HTTP (auth_service.rs) and LDAP.       *)
(*                                                                         *)
(* A permission is read from the groups of a user when they log in or      *)
(* bind; it stays with the JWT and with the LDAP session however the       *)
(* groups change afterwards.  JWTs are not forgotten here: their expiry    *)
(* and the blacklist (module Sessions) only take behaviours away.          *)
(***************************************************************************)
EXTENDS Naturals, FiniteSets

CONSTANTS
    User,        \* user ids
    Gid,         \* group ids, handed out in ascending order, never again
    GroupName,   \* group names (up to case)
    NoName,      \* there is no group with this id
    Connection,  \* LDAP connections
    NoOne,       \* user_info is None
    MaxGrants    \* bound on the registrations that are begun over HTTP

Permission == {"Admin", "PasswordManager", "Readonly", "Regular"}
ValidationResults == [user : User, permission : Permission]

ASSUME DirectoryAssumption ==
    /\ Gid \subseteq Nat /\ 1 \in Gid
    /\ "lldap_admin" \in GroupName /\ NoName \notin GroupName
    /\ NoOne \notin ValidationResults /\ NoOne \notin User
    /\ MaxGrants \in Nat

VARIABLES
    users,      \* rows of the table "users"
    name,       \* groups.display_name, by id
    used,       \* group ids handed out so far
    members,    \* rows of the table "memberships"
    password,   \* users whose password_hash is set
    tokens,     \* claims of the JWTs handed out
    session,    \* state of each LDAP connection
    grants,     \* registrations begun over HTTP: the server_data sealed for
                \* the client, which can be used any time and repeatedly
    stale,      \* history: someone who is no administrator any more acted as one
    steady,     \* history: administrators who have been so since the start
    foreign     \* history: users whose password was last set by someone else
                \* who did not have the administrator's permission

tables == <<users, name, used, members, password>>
vars == <<tables, tokens, session, grants, stale, steady, foreign>>

Session == [pc : {"idle", "permissions", "change"},
            info : ValidationResults \cup {NoOne},    \* user_info
            target : User \cup {NoOne}]               \* of the request at hand
Closed == [pc |-> "idle", info |-> NoOne, target |-> NoOne]
Grant == [by : ValidationResults, target : User]

-----------------------------------------------------------------------------
(* Access control.                                                          *)

InGroup(u, n) == \E g \in Gid : name[g] = n /\ <<u, g>> \in members

Admins == {u \in users : InGroup(u, "lldap_admin")}

\* get_permissions_from_groups.
PermissionOf(u) ==
    CASE InGroup(u, "lldap_admin") -> "Admin"
      [] ~InGroup(u, "lldap_admin") /\ InGroup(u, "lldap_password_manager") -> "PasswordManager"
      [] ~InGroup(u, "lldap_admin") /\ ~InGroup(u, "lldap_password_manager")
            /\ InGroup(u, "lldap_strict_readonly") -> "Readonly"
      [] OTHER -> "Regular"

Claims(u) == [user |-> u, permission |-> PermissionOf(u)]

CanRead(i, u) == i.permission # "Regular" \/ i.user = u

\* Mutant: it does not matter whether the user is an administrator.
CanChangeAnyPassword(i, u, isAdmin) ==
    i.permission \in {"Admin", "PasswordManager"} \/ i.user = u

CanChangePassword(i, u, isAdmin) ==
    \/ i.permission = "Admin"
    \/ i.permission = "PasswordManager" /\ ~isAdmin
    \/ i.user = u

\* A start of the server on a new database: ensure_group_exists inserts
\* lldap_admin first, so it has id 1, and the configured user is its member.
\* The other groups and their ids are any.
Init ==
    /\ \E u \in User : users = {u} /\ members = {<<u, 1>>} /\ password = {u} /\ steady = {u}
    /\ name \in [Gid -> GroupName \cup {NoName}]
    /\ name[1] = "lldap_admin"
    /\ \A g, h \in Gid : name[g] = name[h] /\ name[g] # NoName => g = h
    /\ used = {g \in Gid : name[g] # NoName}
    /\ \A g \in used, h \in Gid : h < g => h \in used
    /\ tokens = {} /\ session = [c \in Connection |-> Closed] /\ grants = {}
    /\ stale = FALSE /\ foreign = {}

-----------------------------------------------------------------------------
(* The mutations of the GraphQL API, by the holder of a JWT.                *)

\* context.get_admin_handler(): the claims of the JWT decide.
AsAdmin(i) ==
    /\ i.permission = "Admin"
    /\ stale' = (stale \/ i.user \notin Admins)

\* The administrators who still are, after a change to the tables.
StillAdmins == steady' = steady \cap Admins'

Login(u) ==
    /\ u \in password
    /\ tokens' = tokens \cup {Claims(u)}
    /\ UNCHANGED <<tables, session, grants, stale, steady, foreign>>

\* The JWT of a password reset names no groups.
ResetLogin(u) ==
    /\ u \in users
    /\ tokens' = tokens \cup {[user |-> u, permission |-> "Regular"]}
    /\ UNCHANGED <<tables, session, grants, stale, steady, foreign>>

CreateUser(i, u) ==
    /\ AsAdmin(i)
    /\ u \notin users
    /\ users' = users \cup {u}
    /\ UNCHANGED <<name, used, members, password, tokens, session, grants, steady, foreign>>

\* Mutant: an administrator may delete themself.
NobodyIsSelf(i, u) == FALSE

\* context.validation_result.user == user_id.
IsSelf(i, u) == i.user = u

DeleteUser(i, u) ==
    /\ AsAdmin(i)
    /\ ~IsSelf(i, u)
    /\ u \in users
    /\ users' = users \ {u}
    /\ members' = {m \in members : m[1] # u}
    /\ password' = password \ {u}
    /\ foreign' = foreign \ {u}
    /\ UNCHANGED <<name, used, tokens, session, grants>>
    /\ StillAdmins

AddUserToGroup(i, u, g) ==
    /\ AsAdmin(i)
    /\ u \in users /\ name[g] # NoName /\ <<u, g>> \notin members
    /\ members' = members \cup {<<u, g>>}
    /\ UNCHANGED <<users, name, used, password, tokens, session, grants, steady, foreign>>

RemoveUserFromGroup(i, u, g) ==
    /\ AsAdmin(i)
    /\ ~(IsSelf(i, u) /\ g = 1)
    /\ <<u, g>> \in members
    /\ members' = members \ {<<u, g>>}
    /\ UNCHANGED <<users, name, used, password, tokens, session, grants, foreign>>
    /\ StillAdmins

NameFree(n) == \A g \in Gid : name[g] # n

CreateGroup(i, n) ==
    /\ AsAdmin(i)
    /\ NameFree(n)
    /\ \E g \in Gid \ used :
          /\ \A h \in Gid \ used : g <= h
          /\ name' = [name EXCEPT ![g] = n]
          /\ used' = used \cup {g}
    /\ UNCHANGED <<users, members, password, tokens, session, grants, steady, foreign>>

UpdateGroup(i, g, n) ==
    /\ AsAdmin(i)
    /\ g # 1
    /\ name[g] # NoName /\ NameFree(n)
    /\ name' = [name EXCEPT ![g] = n]
    /\ UNCHANGED <<users, used, members, password, tokens, session, grants, foreign>>
    /\ StillAdmins

\* Mutant: the memberships of a deleted group are left behind.
AllMemberships(g) == members

\* ON DELETE CASCADE.
MembershipsWithout(g) == {m \in members : m[2] # g}

DeleteGroup(i, g) ==
    /\ AsAdmin(i)
    /\ g # 1
    /\ name[g] # NoName
    /\ name' = [name EXCEPT ![g] = NoName]
    /\ members' = MembershipsWithout(g)
    /\ UNCHANGED <<users, used, password, tokens, session, grants, foreign>>
    /\ StillAdmins

-----------------------------------------------------------------------------
(* Passwords.                                                               *)

\* registration_finish: an update of the row of the user, who must exist.
SetPassword(i, u) ==
    /\ u \in users
    /\ password' = password \cup {u}
    /\ foreign' = IF i.permission = "Admin" \/ i.user = u THEN foreign \ {u}
                  ELSE foreign \cup {u}
    /\ UNCHANGED <<users, name, used, members, tokens, stale, steady>>

\* opaque_register_start: get_user_groups of the target, then the check.
RegisterStart(i, u) ==
    /\ u \in users
    /\ CanChangePassword(i, u, u \in Admins)
    /\ grants' = grants \cup {[by |-> i, target |-> u]}
    /\ Cardinality(grants') <= MaxGrants
    /\ UNCHANGED <<tables, tokens, session, stale, steady, foreign>>

\* opaque_register_finish: only the sealed server_data counts.
RegisterFinish(r) ==
    /\ SetPassword(r.by, r.target)
    /\ UNCHANGED <<session, grants>>

-----------------------------------------------------------------------------
(* LDAP sessions: the messages of a connection are handled one by one.      *)

\* A bind that fails leaves the session as it is.
Bind(c, u) ==
    /\ session[c].pc = "idle"
    /\ u \in password
    /\ session' = [session EXCEPT ![c].pc = "permissions", ![c].target = u]
    /\ UNCHANGED <<tables, tokens, grants, stale, steady, foreign>>

\* get_permissions_for_user; an error (the user is gone) leaves no identity.
GetPermissions(c) ==
    /\ session[c].pc = "permissions"
    /\ session' = [session EXCEPT ![c] =
          [pc |-> "idle", target |-> NoOne,
           info |-> IF session[c].target \in users THEN Claims(session[c].target) ELSE NoOne]]
    /\ UNCHANGED <<tables, tokens, grants, stale, steady, foreign>>

Unbind(c) ==
    /\ session[c].pc = "idle"
    /\ session' = [session EXCEPT ![c] = Closed]
    /\ UNCHANGED <<tables, tokens, grants, stale, steady, foreign>>

\* do_create_user.
LdapAdd(c, u) ==
    /\ session[c].pc = "idle" /\ session[c].info # NoOne
    /\ CreateUser(session[c].info, u)

\* do_password_modification, handle_modify_request: get_user_groups of the
\* target, then the check.  Without the permission to read the target the
\* handler panics and the connection is gone.
LdapModify(c, u) ==
    /\ session[c].pc = "idle" /\ session[c].info # NoOne
    /\ LET i == session[c].info IN
       \/ ~CanRead(i, u) /\ session' = [session EXCEPT ![c] = Closed]
       \/ /\ CanRead(i, u) /\ u \in users /\ CanChangePassword(i, u, u \in Admins)
          /\ session' = [session EXCEPT ![c].pc = "change", ![c].target = u]
    /\ UNCHANGED <<tables, tokens, grants, stale, steady, foreign>>

\* One change of the request: after it there may be more.
LdapChange(c) ==
    /\ session[c].pc = "change"
    /\ SetPassword(session[c].info, session[c].target)
    /\ \/ UNCHANGED session
       \/ session' = [session EXCEPT ![c].pc = "idle", ![c].target = NoOne]
    /\ UNCHANGED grants

\* The change fails (the user is gone, the database has an error).
LdapChangeFails(c) ==
    /\ session[c].pc = "change"
    /\ session' = [session EXCEPT ![c].pc = "idle", ![c].target = NoOne]
    /\ UNCHANGED <<tables, tokens, grants, stale, steady, foreign>>

-----------------------------------------------------------------------------
Mutation(i) ==
    \/ \E u \in User : CreateUser(i, u) \/ DeleteUser(i, u) \/ RegisterStart(i, u)
    \/ \E u \in User, g \in Gid : AddUserToGroup(i, u, g) \/ RemoveUserFromGroup(i, u, g)
    \/ \E n \in GroupName : CreateGroup(i, n)
    \/ \E g \in Gid, n \in GroupName : UpdateGroup(i, g, n)
    \/ \E g \in Gid : DeleteGroup(i, g)

LdapMessage(c) ==
    \/ \E u \in User : Bind(c, u) \/ LdapAdd(c, u) \/ LdapModify(c, u)
    \/ GetPermissions(c) \/ Unbind(c) \/ LdapChange(c) \/ LdapChangeFails(c)

Next ==
    \/ \E u \in User : Login(u) \/ ResetLogin(u)
    \/ \E i \in tokens : Mutation(i)
    \/ \E r \in grants : RegisterFinish(r)
    \/ \E c \in Connection : LdapMessage(c)

Spec == Init /\ [][Next]_vars

-----------------------------------------------------------------------------
(* Properties.                                                              *)

\* Every variable has its type; memberships relate existing users and groups.
TypeOK ==
    /\ users \subseteq User
    /\ name \in [Gid -> GroupName \cup {NoName}]
    /\ used \subseteq Gid
    /\ members \subseteq users \X {g \in Gid : name[g] # NoName}
    /\ password \subseteq users
    /\ tokens \subseteq ValidationResults
    /\ session \in [Connection -> Session]
    /\ grants \subseteq Grant
    /\ stale \in BOOLEAN
    /\ steady \subseteq users
    /\ foreign \subseteq password

\* The guards of delete_user, remove_user_from_group, delete_group and
\* update_group together keep an administrator in office: as long as nobody
\* acts on a JWT or an LDAP session that says "administrator" after having
\* lost the group, somebody is in lldap_admin.
AdminRemains == ~stale => Admins # {}

\* Whoever has been administrator since the start has a password that was set
\* by themself or with the administrator's permission, whatever password
\* managers began over HTTP or LDAP before and finish later
\* (can_change_password at the start of a registration, none at its end).
AdminsProtected == steady \cap foreign = {}

=============================================================================
