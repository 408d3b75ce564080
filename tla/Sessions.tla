------------------------------ MODULE Sessions ------------------------------
(***************************************************************************)
(* The tokens of LLDAP's HTTP server: JWTs, refresh tokens and password    *)
(* reset tokens (server/src/infra/auth_service.rs over the three tables    *)
(* of jwt_sql_tables.rs), the in-memory JWT blacklist of the server and    *)
(* the hourly cleaner (db_cleaner.rs).                                     *)
(*                                                                         *)
(* Every HTTP handler is an asynchronous task.  A task runs until its next *)
(* database query (an await) and other tasks run in between, so there is   *)
(* one action per query: the query and the code that follows it up to the  *)
(* next await.  Users appear and disappear under the feet of the handlers  *)
(* (an administrator deletes them), the clock advances at any moment and   *)
(* the process may be killed and restarted between any two steps.          *)
(*                                                                         *)
(* A token is a member of Token: 100 random characters (refresh, reset) or *)
(* a signed JWT, whose claims hold the issue date, so no two are equal.    *)
(* main.rs starts the server with one worker, so there is one AppState and *)
(* one blacklist in memory.                                                *)
(* The group list of a JWT is left out here: no decision of this module    *)
(* depends on it.                                                          *)
(***************************************************************************)
EXTENDS Naturals, FiniteSets

CONSTANTS
    User,          \* user ids
    Token,         \* tokens that can be minted
    Task,          \* request handlers that can be in flight at once
    NoUser,        \* the user of a task or token that has none
    NoToken,       \* the token of a task that has none
    Workload,      \* the kinds of requests the clients send
    JwtLife,       \* lifetime of a JWT (one day)
    RefreshLife,   \* lifetime of a refresh token (30 days)
    ResetLife,     \* lifetime of a password reset token (10 minutes)
    MaxTime,       \* bound on the clock
    MaxRestarts    \* bound on the number of restarts of the server

Requests == {"login", "refresh", "logout", "reset_step1", "reset_step2"}

ASSUME SessionsAssumption ==
    /\ NoUser \notin User
    /\ NoToken \notin Token
    /\ Workload \subseteq Requests
    /\ JwtLife \in Nat /\ RefreshLife \in Nat /\ ResetLife \in Nat
    /\ MaxTime \in Nat /\ MaxRestarts \in Nat

VARIABLES
    now,                  \* the clock
    restarts,             \* how often the server was restarted
    users,                \* rows of the table "users"
    minted,               \* what every token that exists says
    jwtStorage,           \* rows of the table "jwt_storage"
    dbBlacklisted,        \* rows of jwt_storage with blacklisted = true
    jwtRefreshStorage,    \* rows of the table "jwt_refresh_storage"
    passwordResetTokens,  \* rows of the table "password_reset_tokens"
    jwtBlacklist,         \* AppState.jwt_blacklist, in memory
    task,                 \* the request handlers
    cleaner,              \* the cleaner: 0 asleep, k before its k-th delete
    held,                 \* history: tokens some client received
    orphaned,             \* history: JWTs whose row went with their user
    loggedOut             \* history: tokens a completed logout was to end

db == <<jwtStorage, dbBlacklisted, jwtRefreshStorage, passwordResetTokens>>
history == <<held, orphaned, loggedOut>>
vars == <<now, restarts, users, minted, db, jwtBlacklist, task, cleaner, history>>

-----------------------------------------------------------------------------
(* Tokens and tasks.                                                        *)

Unminted == [kind |-> "none", user |-> NoUser, exp |-> 0]

TokenInfo == [kind : {"none", "jwt", "refresh", "reset"},
              user : User \cup {NoUser},
              exp  : Nat]

\* The await at which a handler is suspended, named for the query it makes.
Queries == {"get_user_groups", "create_refresh_token", "register_jwt",
            "check_token",
            "delete_refresh_token", "select_jwts", "update_jwts",
            "list_users", "find_user", "insert_reset_token", "send_email",
            "lookup_reset_token", "delete_reset_token"}

\* "insert_blacklist" is the end of a logout: no query, but the answer to the
\* UPDATE has to reach the handler first.
Idle == [op |-> "idle", pc |-> "idle", user |-> NoUser, token |-> NoToken,
         jwt |-> NoToken, selected |-> {}, before |-> {}]

TaskState == [op : Requests \cup {"idle"},
              pc : Queries \cup {"idle", "insert_blacklist"},
              user : User \cup {NoUser},
              token : Token \cup {NoToken},
              jwt : Token \cup {NoToken},
              selected : SUBSET Token,
              before : SUBSET Token]

Fresh == {x \in Token : minted[x].kind = "none"}

Mint(x, kind, user, life) ==
    minted' = [minted EXCEPT ![x] = [kind |-> kind, user |-> user, exp |-> now + life]]

JwtsOf(u) == {x \in Token : minted[x].kind = "jwt" /\ minted[x].user = u}

\* check_if_token_is_valid compares the claim with "exp < now".
Expired(x) == minted[x].exp < now

\* A handler that got past signature and algorithm: the JWT is one the server
\* signed.  Only the clock and the in-memory blacklist are consulted.
Accepted(x) == ~Expired(x) /\ x \notin jwtBlacklist

Start(t, op, pc, u, x) ==
    /\ op \in Workload
    /\ task[t] = Idle
    /\ task' = [task EXCEPT ![t] =
                    [op |-> op, pc |-> pc, user |-> u, token |-> x,
                     jwt |-> NoToken, selected |-> {},
                     before |-> IF op = "logout" THEN (held \cap JwtsOf(u)) \cup {x}
                                ELSE {}]]

At(t, pc) == task[t].pc = pc
Goto(t, pc) == task' = [task EXCEPT ![t].pc = pc]
Finish(t) == task' = [task EXCEPT ![t] = Idle]
UserExists(t) == task[t].user \in users

Init ==
    /\ now = 0
    /\ restarts = 0
    /\ users = User
    /\ minted = [x \in Token |-> Unminted]
    /\ jwtStorage = {} /\ dbBlacklisted = {}
    /\ jwtRefreshStorage = {} /\ passwordResetTokens = {}
    /\ jwtBlacklist = {}
    /\ task = [t \in Task |-> Idle]
    /\ cleaner = 0
    /\ held = {} /\ orphaned = {} /\ loggedOut = {}

-----------------------------------------------------------------------------
(* Login.  A password was verified, by bind (simple_login, post_authorize)  *)
(* or by the second message of OPAQUE; the user may be gone by now.         *)

Login(t) ==
    /\ \E u \in User : Start(t, "login", "get_user_groups", u, NoToken)
    /\ UNCHANGED <<now, restarts, users, minted, db, jwtBlacklist, cleaner, history>>

\* Login and refresh read the user's groups; then a login draws a refresh
\* token, and a refresh signs the new JWT.
GetUserGroups(t) ==
    /\ At(t, "get_user_groups")
    /\ \/ /\ ~UserExists(t)
          /\ Finish(t)
          /\ UNCHANGED minted
       \/ /\ UserExists(t) /\ task[t].op = "login"
          /\ \E r \in Fresh :
                /\ Mint(r, "refresh", task[t].user, RefreshLife)
                /\ task' = [task EXCEPT ![t].pc = "create_refresh_token", ![t].token = r]
       \/ /\ UserExists(t) /\ task[t].op = "refresh"
          /\ \E j \in Fresh :
                /\ Mint(j, "jwt", task[t].user, JwtLife)
                /\ task' = [task EXCEPT ![t].pc = "register_jwt", ![t].jwt = j]
    /\ UNCHANGED <<now, restarts, users, db, jwtBlacklist, cleaner, history>>

\* The insert violates the foreign key if the user is gone.
CreateRefreshToken(t) ==
    /\ At(t, "create_refresh_token")
    /\ \/ /\ ~UserExists(t)
          /\ Finish(t)
          /\ UNCHANGED <<minted, jwtRefreshStorage>>
       \/ /\ UserExists(t)
          /\ jwtRefreshStorage' = jwtRefreshStorage \cup {task[t].token}
          /\ \E j \in Fresh :
                /\ Mint(j, "jwt", task[t].user, JwtLife)
                /\ task' = [task EXCEPT ![t].pc = "register_jwt", ![t].jwt = j]
    /\ UNCHANGED <<now, restarts, users, jwtStorage, dbBlacklisted,
                   passwordResetTokens, jwtBlacklist, cleaner, history>>

\* create_jwt unwraps the result of the insert: when the user is gone the
\* handler panics and the client gets no answer.
RegisterJwt(t) ==
    /\ At(t, "register_jwt")
    /\ Finish(t)
    /\ \/ /\ ~UserExists(t)
          /\ UNCHANGED <<jwtStorage, held>>
       \/ /\ UserExists(t)
          /\ jwtStorage' = jwtStorage \cup {task[t].jwt}
          /\ held' = held \cup {task[t].jwt}
                          \cup (IF task[t].op = "login" THEN {task[t].token} ELSE {})
    /\ UNCHANGED <<now, restarts, users, minted, dbBlacklisted, jwtRefreshStorage,
                   passwordResetTokens, jwtBlacklist, cleaner, orphaned, loggedOut>>

-----------------------------------------------------------------------------
(* Refresh: the client presents a refresh token it received.                *)

Refresh(t) ==
    /\ \E r \in held :
          /\ minted[r].kind = "refresh"
          /\ Start(t, "refresh", "check_token", minted[r].user, r)
    /\ UNCHANGED <<now, restarts, users, minted, db, jwtBlacklist, cleaner, history>>

\* The row is looked up by hash and user; its expiry date is not looked at.
TokenFound(x) == x \in jwtRefreshStorage

CheckToken(t) ==
    /\ At(t, "check_token")
    /\ IF TokenFound(task[t].token) THEN Goto(t, "get_user_groups") ELSE Finish(t)
    /\ UNCHANGED <<now, restarts, users, minted, db, jwtBlacklist, cleaner, history>>

-----------------------------------------------------------------------------
(* Logout: delete the refresh token, read the user's JWTs that are not yet  *)
(* blacklisted, blacklist the user's JWTs in the table, and put the ones    *)
(* that were read into the blacklist in memory.                             *)

Logout(t) ==
    /\ \E r \in held :
          /\ minted[r].kind = "refresh"
          /\ Start(t, "logout", "delete_refresh_token", minted[r].user, r)
    /\ UNCHANGED <<now, restarts, users, minted, db, jwtBlacklist, cleaner, history>>

DeleteRefreshToken(t) ==
    /\ At(t, "delete_refresh_token")
    /\ jwtRefreshStorage' = jwtRefreshStorage \ {task[t].token}
    /\ Goto(t, "select_jwts")
    /\ UNCHANGED <<now, restarts, users, minted, jwtStorage, dbBlacklisted,
                   passwordResetTokens, jwtBlacklist, cleaner, history>>

SelectJwts(t) ==
    /\ At(t, "select_jwts")
    /\ task' = [task EXCEPT ![t].pc = "update_jwts",
                            ![t].selected =
                                (jwtStorage \ dbBlacklisted) \cap JwtsOf(task[t].user)]
    /\ UNCHANGED <<now, restarts, users, minted, db, jwtBlacklist, cleaner, history>>

\* Mutant: the UPDATE keeps the filter on "blacklisted", with the wrong value.
RowsAlreadyBlacklisted(u) == dbBlacklisted \cap JwtsOf(u)

\* The rows the UPDATE of a logout of user u sets to blacklisted.
RowsToBlacklist(u) == jwtStorage \cap JwtsOf(u)

UpdateJwts(t) ==
    /\ At(t, "update_jwts")
    /\ dbBlacklisted' = dbBlacklisted \cup RowsToBlacklist(task[t].user)
    /\ Goto(t, "insert_blacklist")
    /\ UNCHANGED <<now, restarts, users, minted, jwtStorage, jwtRefreshStorage,
                   passwordResetTokens, jwtBlacklist, cleaner, history>>

InsertBlacklist(t) ==
    /\ At(t, "insert_blacklist")
    /\ jwtBlacklist' = jwtBlacklist \cup task[t].selected
    /\ loggedOut' = loggedOut \cup task[t].before
    /\ Finish(t)
    /\ UNCHANGED <<now, restarts, users, minted, db, cleaner, held, orphaned>>

-----------------------------------------------------------------------------
(* Password reset, step 1: a token is inserted and sent by email.  The user *)
(* is the one whose id or email address the request names.                  *)

ResetStep1(t) ==
    /\ \E u \in User : Start(t, "reset_step1", "list_users", u, NoToken)
    /\ UNCHANGED <<now, restarts, users, minted, db, jwtBlacklist, cleaner, history>>

ListUsers(t) ==
    /\ At(t, "list_users")
    /\ IF UserExists(t) THEN Goto(t, "find_user") ELSE Finish(t)
    /\ UNCHANGED <<now, restarts, users, minted, db, jwtBlacklist, cleaner, history>>

FindUser(t) ==
    /\ At(t, "find_user")
    /\ \/ /\ ~UserExists(t)
          /\ Finish(t)
          /\ UNCHANGED minted
       \/ /\ UserExists(t)
          /\ \E x \in Fresh :
                /\ Mint(x, "reset", task[t].user, ResetLife)
                /\ task' = [task EXCEPT ![t].pc = "insert_reset_token", ![t].token = x]
    /\ UNCHANGED <<now, restarts, users, db, jwtBlacklist, cleaner, history>>

InsertResetToken(t) ==
    /\ At(t, "insert_reset_token")
    /\ \/ /\ ~UserExists(t)
          /\ Finish(t)
          /\ UNCHANGED passwordResetTokens
       \/ /\ UserExists(t)
          /\ passwordResetTokens' = passwordResetTokens \cup {task[t].token}
          /\ Goto(t, "send_email")
    /\ UNCHANGED <<now, restarts, users, minted, jwtStorage, dbBlacklisted,
                   jwtRefreshStorage, jwtBlacklist, cleaner, history>>

SendEmail(t) ==
    /\ At(t, "send_email")
    /\ held' = held \cup {task[t].token}
    /\ Finish(t)
    /\ UNCHANGED <<now, restarts, users, minted, db, jwtBlacklist, cleaner,
                   orphaned, loggedOut>>

(* Step 2: the token of the email is exchanged for a JWT without groups.    *)
ResetStep2(t) ==
    /\ \E x \in held :
          /\ minted[x].kind = "reset"
          /\ Start(t, "reset_step2", "lookup_reset_token", NoUser, x)
    /\ UNCHANGED <<now, restarts, users, minted, db, jwtBlacklist, cleaner, history>>

LookupResetToken(t) ==
    /\ At(t, "lookup_reset_token")
    /\ IF task[t].token \in passwordResetTokens /\ minted[task[t].token].exp > now
       THEN task' = [task EXCEPT ![t].pc = "delete_reset_token",
                                 ![t].user = minted[task[t].token].user]
       ELSE Finish(t)
    /\ UNCHANGED <<now, restarts, users, minted, db, jwtBlacklist, cleaner, history>>

\* The result of the delete is ignored, an error included.
DeleteResetToken(t) ==
    /\ At(t, "delete_reset_token")
    /\ \/ passwordResetTokens' = passwordResetTokens \ {task[t].token}
       \/ UNCHANGED passwordResetTokens
    /\ \E j \in Fresh :
          /\ Mint(j, "jwt", task[t].user, JwtLife)
          /\ task' = [task EXCEPT ![t].pc = "register_jwt", ![t].jwt = j]
    /\ UNCHANGED <<now, restarts, users, jwtStorage, dbBlacklisted,
                   jwtRefreshStorage, jwtBlacklist, cleaner, history>>

-----------------------------------------------------------------------------
(* A query, or the email, fails: the error is returned to the client (or    *)
(* unwrapped by create_jwt).  So does an ambiguous name in reset step 1.    *)

TaskFails(t) ==
    /\ task[t].pc \in Queries \ {"delete_reset_token"}
    /\ Finish(t)
    /\ UNCHANGED <<now, restarts, users, minted, db, jwtBlacklist, cleaner, history>>

-----------------------------------------------------------------------------
(* The cleaner: three independent deletes, an error of one is only logged.  *)

\* Mutant: "expiry_date <= now".
StaleAtExpiry(x) == minted[x].exp <= now

\* Rows the cleaner removes: expiry_date < now.
Stale(x) == minted[x].exp < now

CleanerWakes ==
    /\ cleaner = 0
    /\ cleaner' = 1
    /\ UNCHANGED <<now, restarts, users, minted, db, jwtBlacklist, task, history>>

CleanRefreshTokens ==
    /\ cleaner = 1 /\ cleaner' = 2
    /\ jwtRefreshStorage' = {x \in jwtRefreshStorage : ~Stale(x)}
    /\ UNCHANGED <<now, restarts, users, minted, jwtStorage, dbBlacklisted,
                   passwordResetTokens, jwtBlacklist, task, history>>

CleanJwts ==
    /\ cleaner = 2 /\ cleaner' = 3
    /\ jwtStorage' = {x \in jwtStorage : ~Stale(x)}
    /\ dbBlacklisted' = {x \in dbBlacklisted : ~Stale(x)}
    /\ UNCHANGED <<now, restarts, users, minted, jwtRefreshStorage,
                   passwordResetTokens, jwtBlacklist, task, history>>

CleanResetTokens ==
    /\ cleaner = 3 /\ cleaner' = 0
    /\ passwordResetTokens' = {x \in passwordResetTokens : ~Stale(x)}
    /\ UNCHANGED <<now, restarts, users, minted, jwtStorage, dbBlacklisted,
                   jwtRefreshStorage, jwtBlacklist, task, history>>

\* Mutant: the error ends the clean-up.
StopAtError(k) == 0

\* Where the cleaner goes when its k-th delete fails.
AfterError(k) == (k + 1) % 4

CleanerError ==
    /\ cleaner # 0
    /\ cleaner' = AfterError(cleaner)
    /\ UNCHANGED <<now, restarts, users, minted, db, jwtBlacklist, task, history>>

Cleaner == \/ CleanerWakes \/ CleanRefreshTokens \/ CleanJwts
           \/ CleanResetTokens \/ CleanerError

-----------------------------------------------------------------------------
(* The directory under the sessions, the clock and restarts.                *)

\* Mutant: only jwt_storage has the cascade.
JwtsGoneWith(u) == JwtsOf(u)

\* The rows of the three tables that go with the user (ON DELETE CASCADE).
GoneWith(u) == {x \in Token : minted[x].user = u}

\* delete_user; the blacklist in memory stays.
DeleteUser(u) ==
    /\ u \in users
    /\ users' = users \ {u}
    /\ orphaned' = orphaned \cup (jwtStorage \cap GoneWith(u))
    /\ jwtStorage' = jwtStorage \ GoneWith(u)
    /\ dbBlacklisted' = dbBlacklisted \ GoneWith(u)
    /\ jwtRefreshStorage' = jwtRefreshStorage \ GoneWith(u)
    /\ passwordResetTokens' = passwordResetTokens \ GoneWith(u)
    /\ UNCHANGED <<now, restarts, minted, jwtBlacklist, task, cleaner, held, loggedOut>>

CreateUser(u) ==
    /\ u \notin users
    /\ users' = users \cup {u}
    /\ UNCHANGED <<now, restarts, minted, db, jwtBlacklist, task, cleaner, history>>

Tick ==
    /\ now < MaxTime
    /\ now' = now + 1
    /\ UNCHANGED <<restarts, users, minted, db, jwtBlacklist, task, cleaner, history>>

\* Mutant: the server starts with an empty blacklist.
EmptyBlacklist == {}

\* What get_jwt_blacklist reads when the server starts.
StoredBlacklist == dbBlacklisted

\* The process ends at any point and comes back: every handler is lost, the
\* blacklist is read from the database.
Restart ==
    /\ restarts < MaxRestarts
    /\ restarts' = restarts + 1
    /\ task' = [t \in Task |-> Idle]
    /\ cleaner' = 0
    /\ jwtBlacklist' = StoredBlacklist
    /\ UNCHANGED <<now, users, minted, db, history>>

Handler(t) ==
    \/ Login(t) \/ GetUserGroups(t) \/ CreateRefreshToken(t) \/ RegisterJwt(t)
    \/ Refresh(t) \/ CheckToken(t)
    \/ Logout(t) \/ DeleteRefreshToken(t) \/ SelectJwts(t) \/ UpdateJwts(t)
    \/ InsertBlacklist(t)
    \/ ResetStep1(t) \/ ListUsers(t) \/ FindUser(t) \/ InsertResetToken(t)
    \/ SendEmail(t)
    \/ ResetStep2(t) \/ LookupResetToken(t) \/ DeleteResetToken(t)
    \/ TaskFails(t)

Next ==
    \/ \E t \in Task : Handler(t)
    \/ Cleaner
    \/ \E u \in User : DeleteUser(u) \/ CreateUser(u)
    \/ Tick
    \/ Restart

Spec == Init /\ [][Next]_vars

\* The actor's timer fires every hour, so the cleaner never stops for good.
\* The database may refuse one of the deletes for ever, but a delete that is
\* tried again and again on a table that works succeeds in the end: this is
\* assumed of jwt_storage and password_reset_tokens, not of
\* jwt_refresh_storage, whose delete comes first.
FairSpec ==
    /\ Spec
    /\ WF_vars(Cleaner)
    /\ SF_vars(CleanJwts)
    /\ SF_vars(CleanResetTokens)

-----------------------------------------------------------------------------
(* Properties.                                                              *)

RowsOwned ==
    \A x \in jwtStorage \cup jwtRefreshStorage \cup passwordResetTokens :
        minted[x].user \in users

\* Every variable has its type; a row marked blacklisted is a row of
\* jwt_storage, and every row of the three tables belongs to a user that is
\* there, whatever handlers were under way when a user was deleted: an insert
\* that comes late meets the foreign key, and the rows from before go with
\* the user (jwt_sql_tables.rs).
TypeOK ==
    /\ now \in Nat
    /\ restarts \in 0..MaxRestarts
    /\ users \subseteq User
    /\ minted \in [Token -> TokenInfo]
    /\ jwtStorage \subseteq Token
    /\ dbBlacklisted \subseteq jwtStorage
    /\ jwtRefreshStorage \subseteq Token
    /\ passwordResetTokens \subseteq Token
    /\ jwtBlacklist \subseteq Token
    /\ task \in [Task -> TaskState]
    /\ cleaner \in 0..3
    /\ held \subseteq Token
    /\ orphaned \subseteq Token
    /\ loggedOut \subseteq Token
    /\ RowsOwned

IsJwt(x) == minted[x].kind = "jwt"

\* A JWT that a client holds and that has not expired is on record in
\* jwt_storage, where a logout will find it: it is registered before it is
\* handed out and the cleaner never takes its row too early.  Only the
\* deletion of its user takes the row away (create_jwt, cleanup_db).
HeldJwtsRegistered ==
    \A x \in held : IsJwt(x) =>
        x \in jwtStorage \/ Expired(x) \/ x \in orphaned

\* Once a logout is answered, the refresh token it was made with has no row
\* any more, and every JWT the user had received before asking is blacklisted
\* in the database until it expires, whatever ran at the same time
\* (get_logout, blacklist_jwts).
LogoutDurable ==
    \A x \in loggedOut :
        IF IsJwt(x) THEN x \in dbBlacklisted \/ Expired(x) \/ x \in orphaned
        ELSE x \notin jwtRefreshStorage

\* A JWT that check_if_token_is_valid refuses is never accepted again, be it
\* because of the clock, a logout, the cleaner or a restart; the exception is
\* a JWT whose user was deleted.
RejectionStable ==
    [][\A x \in held : IsJwt(x) /\ ~Accepted(x) =>
          ~Accepted(x)' \/ x \in orphaned']_vars

\* Expired rows of jwt_storage and password_reset_tokens are removed in the
\* end, even if the delete on jwt_refresh_storage fails every time
\* (cleanup_db logs the error and goes on).
StaleRowsRemoved ==
    \A x \in Token :
        (x \in jwtStorage \cup passwordResetTokens /\ Stale(x))
            ~> (x \notin jwtStorage \cup passwordResetTokens)

-----------------------------------------------------------------------------
(* What the documentation says and the code does not do.                    *)

\* docs/architecture.md: at a logout "all of their currently valid JWTs are
\* added to a blacklist. Incoming requests are checked against this
\* blacklist": a JWT the user had received before asking for the logout is
\* refused once the logout, and any other logout of the same user still
\* under way, is answered.
LogoutEnforced ==
    \A x \in loggedOut :
        IsJwt(x) /\ x \notin orphaned
            /\ (\A t \in Task : ~(task[t].op = "logout" /\ task[t].user = minted[x].user))
            => ~Accepted(x)

=============================================================================
