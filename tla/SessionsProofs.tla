--------------------------- MODULE SessionsProofs ---------------------------
(***************************************************************************)
(* Proofs about Sessions, for every set of users, tokens and handlers and  *)
(* every lifetime and bound.                                               *)
(*                                                                         *)
(* The argument rests on one notion: a JWT is Gone when it has expired or  *)
(* its row went with its user.  Gone is stable, so "blacklisted in the     *)
(* database, or gone" survives the cleaner and DeleteUser, the two actions *)
(* that remove rows.  IInv follows a logout through its steps with it.     *)
(***************************************************************************)
EXTENDS Sessions, TLAPS

Gone(x) == Expired(x) \/ x \in orphaned

Recorded(x) == x \in jwtStorage \/ Gone(x)
Blacklisted(x) == x \in dbBlacklisted \/ Gone(x)

\* Tokens that anybody but their own handler can name were minted before.
Kinds ==
    /\ \A x \in jwtStorage : minted[x].kind = "jwt"
    /\ \A x \in held : minted[x].kind # "none"
    /\ loggedOut \subseteq held
    /\ \A x \in jwtBlacklist : minted[x].kind = "jwt"
    /\ \A x \in jwtRefreshStorage : minted[x].kind = "refresh"
    /\ \A x \in passwordResetTokens : minted[x].kind = "reset"

\* What the handlers that create tokens carry.
CreatorInv(t) ==
    /\ At(t, "register_jwt") =>
          /\ task[t].jwt \in Token /\ minted[task[t].jwt].kind = "jwt"
          /\ minted[task[t].jwt].user = task[t].user
          /\ task[t].op = "login" =>
                task[t].token \in Token /\ minted[task[t].token].kind = "refresh"
    /\ At(t, "create_refresh_token") =>
          /\ task[t].op = "login"
          /\ task[t].token \in Token /\ minted[task[t].token].kind = "refresh"
          /\ minted[task[t].token].user = task[t].user
          /\ task[t].token \notin held
    /\ At(t, "insert_reset_token") => minted[task[t].token].user = task[t].user
    /\ task[t].pc \in {"insert_reset_token", "send_email"} =>
          task[t].token \in Token /\ minted[task[t].token].kind = "reset"
    /\ task[t].pc \in {"lookup_reset_token", "delete_reset_token"} =>
          task[t].op = "reset_step2"

\* No two logins draw the same refresh token.
DistinctTokens ==
    \A s, t \in Task :
        s # t /\ At(s, "create_refresh_token") /\ task[t].op = "login"
              /\ task[t].pc \in {"create_refresh_token", "register_jwt"}
            => task[s].token # task[t].token

\* How far a logout has got with the tokens it is to end.
LogoutSteps == {"delete_refresh_token", "select_jwts", "update_jwts", "insert_blacklist"}

LogoutInv(t) ==
    /\ task[t].pc \in LogoutSteps =>
          /\ task[t].token \in held /\ minted[task[t].token].kind = "refresh"
          /\ task[t].before \subseteq held
          /\ \A x \in task[t].before :
                IF IsJwt(x) THEN minted[x].user = task[t].user ELSE x = task[t].token
    /\ task[t].pc \in LogoutSteps \ {"delete_refresh_token"} =>
          task[t].token \notin jwtRefreshStorage
    /\ At(t, "update_jwts") =>
          \A x \in task[t].selected :
              IsJwt(x) /\ minted[x].user = task[t].user /\ Recorded(x)
    /\ At(t, "insert_blacklist") =>
          /\ \A x \in task[t].selected : IsJwt(x) /\ Blacklisted(x)
          /\ \A x \in task[t].before : IsJwt(x) => Blacklisted(x)

\* The blacklist in memory says nothing that the database does not know.
BlacklistDurable == \A x \in jwtBlacklist : Blacklisted(x)

IInv ==
    /\ TypeOK
    /\ Kinds
    /\ \A t \in Task : CreatorInv(t)
    /\ DistinctTokens
    /\ \A t \in Task : LogoutInv(t)
    /\ HeldJwtsRegistered
    /\ LogoutDurable
    /\ BlacklistDurable

-----------------------------------------------------------------------------

USE SessionsAssumption

\* What Init establishes.
LEMMA InitIInv == Init => IInv
  BY DEF Init, IInv, TypeOK, RowsOwned, Kinds, CreatorInv, DistinctTokens, LogoutInv, LogoutSteps,
         HeldJwtsRegistered, LogoutDurable, BlacklistDurable, At, Idle, Unminted,
         TokenInfo, TaskState, Requests, Queries

\* The type of the task a handler leaves behind.
LEMMA IdleType == Idle \in TaskState
  BY DEF Idle, TaskState

\* A request starts with a well-formed task.
LEMMA StartType ==
  ASSUME TypeOK, NEW t \in Task, NEW op \in Requests, NEW pc \in Queries,
         NEW u \in User \cup {NoUser}, NEW x \in Token \cup {NoToken},
         op = "logout" => x \in Token,
         Start(t, op, pc, u, x)
  PROVE  task' \in [Task -> TaskState]
  BY DEF TypeOK, Start, TaskState, JwtsOf

\* Minting keeps the type of the tokens and touches fresh tokens only.
LEMMA MintType ==
  ASSUME TypeOK, NEW x \in Fresh, NEW kind \in {"jwt", "refresh", "reset"},
         NEW u \in User \cup {NoUser}, NEW life \in Nat,
         Mint(x, kind, u, life)
  PROVE  /\ minted' \in [Token -> TokenInfo]
         /\ x \in Token
         /\ minted'[x].kind = kind /\ minted'[x].user = u
         /\ \A y \in Token : y # x => minted'[y] = minted[y]
  BY DEF TypeOK, Mint, Fresh, TokenInfo

\* The tokens, the clock and the history of orphans only ever grow.
LEMMA Monotone ==
  ASSUME IInv, Next
  PROVE  /\ \A x \in Token : minted[x].kind # "none" => minted'[x] = minted[x]
         /\ now <= now'
         /\ orphaned \subseteq orphaned'
<1>0. TypeOK
  BY DEF IInv
<1>1. ASSUME NEW t \in Task, Handler(t)
      PROVE  /\ \A x \in Token : minted[x].kind # "none" => minted'[x] = minted[x]
             /\ now' = now
             /\ orphaned' = orphaned
  <2>1. CASE GetUserGroups(t)
    BY <1>0, <2>1 DEF GetUserGroups, Mint, Fresh, TypeOK, history
  <2>2. CASE CreateRefreshToken(t)
    BY <1>0, <2>2 DEF CreateRefreshToken, Mint, Fresh, TypeOK, history
  <2>3. CASE FindUser(t)
    BY <1>0, <2>3 DEF FindUser, Mint, Fresh, TypeOK, history
  <2>4. CASE DeleteResetToken(t)
    BY <1>0, <2>4 DEF DeleteResetToken, Mint, Fresh, TypeOK, history
  <2>5. CASE UNCHANGED <<minted, now, orphaned>>
    BY <2>5
  <2> QED
    BY <1>1, <2>1, <2>2, <2>3, <2>4, <2>5
       DEF Handler, Login, RegisterJwt, Refresh, CheckToken, Logout, DeleteRefreshToken,
           SelectJwts, UpdateJwts, InsertBlacklist, ResetStep1, ListUsers,
           InsertResetToken, SendEmail, ResetStep2, LookupResetToken, TaskFails, history
<1>2. CASE Cleaner
  BY <1>0, <1>2 DEF Cleaner, CleanerWakes, CleanRefreshTokens, CleanJwts,
     CleanResetTokens,
                    CleanerError, history, TypeOK
<1>3. ASSUME NEW u \in User, DeleteUser(u) \/ CreateUser(u)
      PROVE  UNCHANGED <<minted, now>> /\ orphaned \subseteq orphaned'
  BY <1>0, <1>3 DEF DeleteUser, GoneWith, CreateUser, history
<1>4. CASE Tick
  BY <1>0, <1>4 DEF Tick, history, TypeOK
<1>5. CASE Restart
  BY <1>0, <1>5 DEF Restart, history, TypeOK
<1> QED
  BY <1>0, <1>1, <1>2, <1>3, <1>4, <1>5 DEF Next, TypeOK

\* Every row keeps an owner: a handler inserts a row for its own user after
\* it made sure of the foreign key.
LEMMA OwnedStep ==
  ASSUME IInv, Next
  PROVE  RowsOwned'
<1> DEFINE rows == jwtStorage \cup jwtRefreshStorage \cup passwordResetTokens
<1>0. TypeOK /\ Kinds /\ RowsOwned
  BY DEF IInv, TypeOK
<1>1. \A x \in rows : x \in Token /\ minted[x].kind # "none" /\ minted[x].user \in users
  BY <1>0 DEF TypeOK, Kinds, RowsOwned
<1>2. \A x \in rows : minted'[x] = minted[x]
  BY <1>1, Monotone
<1>3. ASSUME users \subseteq users', rows' \subseteq rows
      PROVE  RowsOwned'
  BY <1>1, <1>2, <1>3 DEF RowsOwned
<1>4. ASSUME NEW t \in Task, NEW x \in Token, users' = users, rows' \subseteq rows \cup {x},
             minted[x].kind # "none", minted[x].user \in users
      PROVE  RowsOwned'
  <2>1. minted'[x] = minted[x]
    BY <1>4, Monotone
  <2> QED
    BY <1>1, <1>2, <1>4, <2>1 DEF RowsOwned
<1>5. ASSUME NEW t \in Task, Handler(t)
      PROVE  RowsOwned'
  <2>0. CreatorInv(t)
    BY DEF IInv
  <2>1. CASE CreateRefreshToken(t) /\ UserExists(t)
    BY <1>4, <2>0, <2>1 DEF CreateRefreshToken, CreatorInv, UserExists, At
  <2>2. CASE RegisterJwt(t) /\ UserExists(t)
    BY <1>4, <2>0, <2>2 DEF RegisterJwt, CreatorInv, UserExists, At
  <2>3. CASE InsertResetToken(t) /\ UserExists(t)
    BY <1>4, <2>0, <2>3 DEF InsertResetToken, CreatorInv, UserExists, At
  <2>4. CASE users' = users /\ rows' \subseteq rows
    BY <1>3, <2>4
  <2> QED
    BY <1>5, <2>1, <2>2, <2>3, <2>4
       DEF Handler, Login, GetUserGroups, CreateRefreshToken, RegisterJwt, Refresh,
           CheckToken, Logout, DeleteRefreshToken, SelectJwts, UpdateJwts, InsertBlacklist,
           ResetStep1, ListUsers, FindUser, InsertResetToken, SendEmail, ResetStep2,
           LookupResetToken, DeleteResetToken, TaskFails, db, history
<1>6. CASE Cleaner
  BY <1>3, <1>6 DEF Cleaner, CleanerWakes, CleanRefreshTokens, CleanJwts,
     CleanResetTokens, CleanerError, db
<1>7. ASSUME NEW u \in User, DeleteUser(u)
      PROVE  RowsOwned'
  <2>1. rows' \subseteq rows /\ users' = users \ {u}
    BY <1>7 DEF DeleteUser, GoneWith
  <2>2. \A x \in rows' : minted[x].user # u
    BY <1>1, <1>7 DEF DeleteUser, GoneWith
  <2> QED
    BY <1>1, <1>2, <2>1, <2>2 DEF RowsOwned
<1>8. ASSUME NEW u \in User, CreateUser(u)
      PROVE  RowsOwned'
  BY <1>3, <1>8 DEF CreateUser, db
<1>9. CASE Tick \/ Restart
  BY <1>3, <1>9 DEF Tick, Restart, db
<1> QED
  BY <1>5, <1>6, <1>7, <1>8, <1>9 DEF Next

LEMMA TypeStep ==
  ASSUME IInv, Next
  PROVE  TypeOK'
<1> USE DEF TypeOK
<1> RowsOwned'
  BY OwnedStep
<1>0. TypeOK
  BY DEF IInv
<1>1. ASSUME NEW t \in Task, Handler(t)
      PROVE  TypeOK'
  <2> CreatorInv(t)
    BY DEF IInv
  <2> task[t] \in TaskState
    BY <1>0
  <2>1. CASE Login(t)
    BY <1>0, <2>1, StartType DEF Login, Requests, Queries, db, history
  <2>2. CASE GetUserGroups(t)
    <3>1. task[t].user \in User \cup {NoUser}
      BY DEF TaskState
    <3>2. minted' \in [Token -> TokenInfo] /\ task' \in [Task -> TaskState]
      BY <1>0, <2>2, <3>1, IdleType, MintType DEF GetUserGroups, Finish, TaskState,
         Queries
    <3> QED
      BY <1>0, <2>2, <3>2 DEF GetUserGroups, db, history
  <2>3. CASE CreateRefreshToken(t)
    <3>1. task[t].user \in User \cup {NoUser}
      BY DEF TaskState
    <3>2. minted' \in [Token -> TokenInfo] /\ task' \in [Task -> TaskState]
      BY <1>0, <2>3, <3>1, IdleType, MintType DEF CreateRefreshToken, Finish, TaskState,
         Queries
    <3> QED
      BY <1>0, <2>3, <3>2 DEF CreateRefreshToken, db, history, CreatorInv, At
  <2>4. CASE RegisterJwt(t)
    BY <1>0, <2>4, IdleType DEF RegisterJwt, Finish, At, db, history, CreatorInv
  <2>5. CASE Refresh(t)
    BY <1>0, <2>5, StartType DEF Refresh, TokenInfo, Requests, Queries, db, history
  <2>6. CASE CheckToken(t)
    BY <1>0, <2>6, IdleType DEF CheckToken, Finish, Goto, TaskState, Queries, db, history
  <2>7. CASE Logout(t)
    BY <1>0, <2>7, StartType DEF Logout, TokenInfo, Requests, Queries, db, history
  <2>8. CASE DeleteRefreshToken(t)
    BY <1>0, <2>8 DEF DeleteRefreshToken, Goto, TaskState, Queries, db, history
  <2>9. CASE SelectJwts(t)
    BY <1>0, <2>9 DEF SelectJwts, TaskState, Queries, db, history
  <2>10. CASE UpdateJwts(t)
    BY <1>0, <2>10 DEF UpdateJwts, RowsToBlacklist, Goto, TaskState, Queries, db, history
  <2>11. CASE InsertBlacklist(t)
    BY <1>0, <2>11, IdleType DEF InsertBlacklist, Finish, TaskState, db, history
  <2>12. CASE ResetStep1(t)
    BY <1>0, <2>12, StartType DEF ResetStep1, Requests, Queries, db, history
  <2>13. CASE ListUsers(t)
    BY <1>0, <2>13, IdleType DEF ListUsers, Finish, Goto, TaskState, Queries, db, history
  <2>14. CASE FindUser(t)
    <3>1. task[t].user \in User \cup {NoUser}
      BY DEF TaskState
    <3>2. minted' \in [Token -> TokenInfo] /\ task' \in [Task -> TaskState]
      BY <1>0, <2>14, <3>1, IdleType, MintType DEF FindUser, Finish, TaskState, Queries
    <3> QED
      BY <1>0, <2>14, <3>2 DEF FindUser, db, history
  <2>15. CASE InsertResetToken(t)
    BY <1>0, <2>15, IdleType DEF InsertResetToken, Finish, Goto, TaskState, Queries, At,
       db, history, CreatorInv
  <2>16. CASE SendEmail(t)
    BY <1>0, <2>16, IdleType DEF SendEmail, Finish, At, db, history, CreatorInv
  <2>17. CASE ResetStep2(t)
    BY <1>0, <2>17, StartType DEF ResetStep2, Requests, Queries, db, history
  <2>18. CASE LookupResetToken(t)
    BY <1>0, <2>18, IdleType DEF LookupResetToken, Finish, TaskState, TokenInfo, Queries,
       db, history
  <2>19. CASE DeleteResetToken(t)
    <3>1. task[t].user \in User \cup {NoUser}
      BY DEF TaskState
    <3>2. minted' \in [Token -> TokenInfo] /\ task' \in [Task -> TaskState]
      <4>1. PICK j \in Fresh :
                /\ Mint(j, "jwt", task[t].user, JwtLife)
                /\ task' = [task EXCEPT ![t].pc = "register_jwt", ![t].jwt = j]
        BY <2>19 DEF DeleteResetToken
      <4> QED
        <5>1. minted' \in [Token -> TokenInfo] /\ j \in Token
          BY <1>0, <3>1, <4>1, MintType
        <5> QED
          BY <1>0, <4>1, <5>1 DEF TaskState, Queries
    <3> QED
      BY <1>0, <2>19, <3>2 DEF DeleteResetToken, db, history
  <2>20. CASE TaskFails(t)
    BY <1>0, <2>20, IdleType DEF TaskFails, Finish, db, history
  <2> QED
    BY <1>1, <2>1, <2>2, <2>3, <2>4, <2>5, <2>6, <2>7, <2>8, <2>9, <2>10, <2>11, <2>12,
       <2>13, <2>14, <2>15, <2>16, <2>17, <2>18, <2>19, <2>20 DEF Handler
<1>2. CASE Cleaner
  BY <1>0, <1>2 DEF Cleaner, CleanerWakes, CleanRefreshTokens, CleanJwts,
     CleanResetTokens,
                    CleanerError, AfterError, db, history
<1>3. ASSUME NEW u \in User, DeleteUser(u) \/ CreateUser(u)
      PROVE  TypeOK'
  BY <1>0, <1>3 DEF DeleteUser, GoneWith, CreateUser, db, history
<1>4. CASE Tick
  BY <1>0, <1>4 DEF Tick, db, history
<1>5. CASE Restart
  BY <1>0, <1>5, IdleType DEF Restart, StoredBlacklist, db, history
<1> QED
  BY <1>1, <1>2, <1>3, <1>4, <1>5 DEF Next

\* A token that is gone stays gone.
LEMMA GoneStable ==
  ASSUME IInv, Next, NEW x \in Token, minted[x].kind # "none", Gone(x)
  PROVE  Gone(x)'
<1>1. TypeOK /\ TypeOK'
  BY TypeStep DEF IInv
<1> QED
  BY <1>1, Monotone DEF Gone, Expired, TypeOK, TokenInfo

\* The only actions that take a row out of jwt_storage, or the mark off one.
LEMMA RowsStable ==
  ASSUME IInv, Next, NEW x \in jwtStorage
  PROVE  /\ Recorded(x)'
         /\ x \in dbBlacklisted => Blacklisted(x)'
<1>0. TypeOK /\ TypeOK'
  BY TypeStep DEF IInv
<1>00. minted[x].kind = "jwt" /\ x \in Token
  BY <1>0 DEF IInv, Kinds, TypeOK
<1>1. ASSUME NEW t \in Task, Handler(t)
      PROVE  jwtStorage \subseteq jwtStorage' /\ dbBlacklisted \subseteq dbBlacklisted'
  BY <1>1 DEF Handler, Login, GetUserGroups, CreateRefreshToken, RegisterJwt, Refresh,
       CheckToken, Logout, DeleteRefreshToken, SelectJwts, UpdateJwts, InsertBlacklist,
       ResetStep1, ListUsers, FindUser, InsertResetToken, SendEmail, ResetStep2,
       LookupResetToken, DeleteResetToken, TaskFails, db
<1>2. CASE CleanJwts
  BY <1>0, <1>00, <1>2 DEF CleanJwts, Stale, Recorded, Blacklisted, Gone, Expired, history
<1>3. CASE Cleaner /\ ~CleanJwts
  BY <1>3 DEF Cleaner, CleanerWakes, CleanRefreshTokens, CleanResetTokens, CleanerError,
              db, Recorded, Blacklisted
<1>4. ASSUME NEW u \in User, DeleteUser(u)
      PROVE  Recorded(x)' /\ (x \in dbBlacklisted => Blacklisted(x)')
  BY <1>0, <1>00, <1>4 DEF DeleteUser, GoneWith, Recorded, Blacklisted, Gone, TypeOK
<1>5. ASSUME NEW u \in User, CreateUser(u)
      PROVE  UNCHANGED db
  BY <1>5 DEF CreateUser
<1>6. CASE Tick \/ Restart
  BY <1>6 DEF Tick, Restart, db, Recorded, Blacklisted
<1> QED
  BY <1>1, <1>2, <1>3, <1>4, <1>5, <1>6 DEF Next, db, Recorded, Blacklisted

\* Hence what is recorded, or blacklisted, stays so.
LEMMA StatusStable ==
  ASSUME IInv, Next, NEW x \in Token, minted[x].kind # "none"
  PROVE  /\ Recorded(x) => Recorded(x)'
         /\ Blacklisted(x) => Blacklisted(x)'
<1>1. dbBlacklisted \subseteq jwtStorage
  BY DEF IInv, TypeOK
<1> QED
  BY <1>1, RowsStable, GoneStable DEF Recorded, Blacklisted

-----------------------------------------------------------------------------
(* The other conjuncts of IInv, one lemma each.                             *)

LEMMA KindsStep ==
  ASSUME IInv, Next
  PROVE  Kinds'
<1>0. TypeOK /\ TypeOK' /\ Kinds
  BY TypeStep DEF IInv
<1> USE <1>0, Monotone
<1>1. ASSUME NEW t \in Task, Handler(t)
      PROVE  Kinds'
  <2>0. CreatorInv(t) /\ LogoutInv(t)
    BY DEF IInv
  <2>1. CASE RegisterJwt(t)
    BY <2>0, <2>1 DEF RegisterJwt, CreatorInv, At, Kinds, TypeOK
  <2>2. CASE SendEmail(t)
    BY <2>0, <2>2 DEF SendEmail, CreatorInv, At, Kinds, TypeOK, db
  <2>3. CASE InsertBlacklist(t)
    BY <2>0, <2>3 DEF InsertBlacklist, LogoutInv, LogoutSteps, IsJwt, At, Kinds, TypeOK,
       db
  <2>4. CASE CreateRefreshToken(t)
    BY <2>0, <2>4 DEF CreateRefreshToken, CreatorInv, At, Kinds, TypeOK, history
  <2>5. CASE InsertResetToken(t)
    BY <2>0, <2>5 DEF InsertResetToken, CreatorInv, At, Kinds, TypeOK, history
  <2>6. CASE /\ UNCHANGED <<jwtStorage, held, loggedOut, jwtBlacklist>>
             /\ jwtRefreshStorage' \subseteq jwtRefreshStorage
             /\ passwordResetTokens' \subseteq passwordResetTokens
    BY <2>6 DEF Kinds, TypeOK
  <2> QED
    BY <1>1, <2>1, <2>2, <2>3, <2>4, <2>5, <2>6
       DEF Handler, Login, GetUserGroups, CreateRefreshToken, Refresh,
           CheckToken, Logout, DeleteRefreshToken, SelectJwts, UpdateJwts,
           ResetStep1, ListUsers, FindUser, InsertResetToken, ResetStep2,
           LookupResetToken, DeleteResetToken, TaskFails, db, history
<1>2. CASE Cleaner
  BY <1>2 DEF Cleaner, CleanerWakes, CleanRefreshTokens, CleanJwts, CleanResetTokens,
              CleanerError, db, history, Kinds, TypeOK
<1>3. ASSUME NEW u \in User, DeleteUser(u) \/ CreateUser(u)
      PROVE  Kinds'
  BY <1>3 DEF DeleteUser, GoneWith, CreateUser, db, history, Kinds, TypeOK
<1>4. CASE Tick
  BY <1>4 DEF Tick, db, history, Kinds, TypeOK
<1>5. CASE Restart
  BY <1>5 DEF Restart, StoredBlacklist, db, history, Kinds, TypeOK
<1> QED
  BY <1>1, <1>2, <1>3, <1>4, <1>5 DEF Next

\* Every action but the handlers' leaves the handlers alone, or ends them all.
LEMMA TasksFrame ==
  ASSUME Next, ~(\E t \in Task : Handler(t))
  PROVE  /\ UNCHANGED held
         /\ jwtRefreshStorage' \subseteq jwtRefreshStorage
         /\ UNCHANGED minted
         /\ UNCHANGED loggedOut
         /\ UNCHANGED task \/ task' = [t \in Task |-> Idle]
  BY DEF Next, Cleaner, CleanerWakes, CleanRefreshTokens, CleanJwts, CleanResetTokens,
         CleanerError, DeleteUser, CreateUser, Tick, Restart, db, history

\* A handler's step leaves the other handlers alone, and says what the clients
\* may receive.
LEMMA OtherTasks ==
  ASSUME TypeOK, NEW t \in Task, Handler(t)
  PROVE  /\ \A s \in Task : s # t => task'[s] = task[s]
         /\ \/ held' = held
            \/ /\ At(t, "register_jwt")
               /\ held' = held \cup {task[t].jwt}
                               \cup (IF task[t].op = "login" THEN {task[t].token} ELSE {})
            \/ /\ At(t, "send_email")
               /\ held' = held \cup {task[t].token}
         /\ \/ jwtRefreshStorage' \subseteq jwtRefreshStorage
            \/ /\ At(t, "create_refresh_token")
               /\ jwtRefreshStorage' = jwtRefreshStorage \cup {task[t].token}
<1> USE DEF TypeOK, Start, Goto, Finish, db, history
<1>1. CASE \/ Login(t) \/ Refresh(t) \/ Logout(t) \/ ResetStep1(t) \/ ResetStep2(t)
  BY <1>1 DEF Login, Refresh, Logout, ResetStep1, ResetStep2
<1>2. CASE \/ GetUserGroups(t) \/ CreateRefreshToken(t) \/ RegisterJwt(t) \/ CheckToken(t)
  BY <1>2 DEF GetUserGroups, CreateRefreshToken, RegisterJwt, CheckToken
<1>3. CASE \/ DeleteRefreshToken(t) \/ SelectJwts(t) \/ UpdateJwts(t) \/ InsertBlacklist(t)
  BY <1>3 DEF DeleteRefreshToken, SelectJwts, UpdateJwts, InsertBlacklist
<1>4. CASE \/ ListUsers(t) \/ FindUser(t) \/ InsertResetToken(t) \/ SendEmail(t)
  BY <1>4 DEF ListUsers, FindUser, InsertResetToken, SendEmail
<1>5. CASE LookupResetToken(t) \/ DeleteResetToken(t) \/ TaskFails(t)
  BY <1>5 DEF LookupResetToken, DeleteResetToken, TaskFails
<1> QED
  BY <1>1, <1>2, <1>3, <1>4, <1>5 DEF Handler

LEMMA CreatorStep ==
  ASSUME IInv, Next, NEW s \in Task
  PROVE  CreatorInv(s)'
<1>0. TypeOK /\ TypeOK' /\ CreatorInv(s) /\ Kinds
  BY TypeStep DEF IInv
<1> USE <1>0, Monotone
<1>1. ASSUME NEW t \in Task, Handler(t), s # t
      PROVE  CreatorInv(s)'
  <2>1. CreatorInv(t) /\ DistinctTokens
    BY DEF IInv
  <2>2. task'[s] = task[s]
    BY <1>1, OtherTasks
  <2>3. At(s, "create_refresh_token") => task[s].token \notin held'
    BY <1>1, <2>1, OtherTasks DEF CreatorInv, DistinctTokens, At
  <2> QED
    BY <2>2, <2>3 DEF CreatorInv, At
<1>2. ASSUME Handler(s)
      PROVE  CreatorInv(s)'
  <2> USE DEF TypeOK, At, history
  <2> task[s] \in TaskState
    OBVIOUS
  <2>1. CASE GetUserGroups(s)
    <3>1. CASE Finish(s)
      BY <3>1 DEF Finish, Idle, CreatorInv
    <3>2. ASSUME NEW r \in Fresh, task[s].op = "login",
                 Mint(r, "refresh", task[s].user, RefreshLife),
                 task' = [task EXCEPT ![s].pc = "create_refresh_token", ![s].token = r]
          PROVE  CreatorInv(s)'
      <4>1. /\ r \in Token /\ minted'[r].kind = "refresh" /\ minted'[r].user = task[s].user
            /\ r \notin held
        BY <3>2 DEF Mint, Fresh, Kinds, TaskState
      <4>2. /\ task'[s].pc = "create_refresh_token" /\ task'[s].token = r
            /\ task'[s].op = "login" /\ task'[s].user = task[s].user
        BY <3>2 DEF TaskState
      <4>3. held' = held
        BY <2>1 DEF GetUserGroups
      <4> QED
        BY <4>1, <4>2, <4>3 DEF CreatorInv
    <3>3. ASSUME NEW j \in Fresh, task[s].op = "refresh",
                 Mint(j, "jwt", task[s].user, JwtLife),
                 task' = [task EXCEPT ![s].pc = "register_jwt", ![s].jwt = j]
          PROVE  CreatorInv(s)'
      <4>1. j \in Token /\ minted'[j].kind = "jwt" /\ minted'[j].user = task[s].user
        BY <3>3 DEF Mint, Fresh, TaskState
      <4>2. /\ task'[s].pc = "register_jwt" /\ task'[s].jwt = j
            /\ task'[s].op = "refresh" /\ task'[s].user = task[s].user
        BY <3>3 DEF TaskState
      <4> QED
        BY <4>1, <4>2 DEF CreatorInv
    <3> QED
      BY <2>1, <3>1, <3>2, <3>3 DEF GetUserGroups
  <2>2. CASE CreateRefreshToken(s)
    <3>1. CASE Finish(s)
      BY <3>1 DEF Finish, Idle, CreatorInv
    <3>2. ASSUME NEW j \in Fresh, Mint(j, "jwt", task[s].user, JwtLife),
                 task' = [task EXCEPT ![s].pc = "register_jwt", ![s].jwt = j]
          PROVE  CreatorInv(s)'
      <4>1. j \in Token /\ minted'[j].kind = "jwt" /\ minted'[j].user = task[s].user
        BY <3>2 DEF Mint, Fresh, TaskState
      <4>2. /\ task'[s].pc = "register_jwt" /\ task'[s].jwt = j
            /\ task'[s].token = task[s].token /\ task'[s].user = task[s].user
        BY <3>2 DEF TaskState
      <4> QED
        BY <2>2, <4>1, <4>2 DEF CreatorInv, CreateRefreshToken
    <3> QED
      BY <2>2, <3>1, <3>2 DEF CreateRefreshToken
  <2>3. CASE FindUser(s)
    <3>1. CASE Finish(s)
      BY <3>1 DEF Finish, Idle, CreatorInv
    <3>2. ASSUME NEW x \in Fresh, Mint(x, "reset", task[s].user, ResetLife),
                 task' = [task EXCEPT ![s].pc = "insert_reset_token", ![s].token = x]
          PROVE  CreatorInv(s)'
      <4>1. x \in Token /\ minted'[x].kind = "reset" /\ minted'[x].user = task[s].user
        BY <3>2 DEF Mint, Fresh, TaskState
      <4>2. /\ task'[s].pc = "insert_reset_token" /\ task'[s].token = x
            /\ task'[s].user = task[s].user
        BY <3>2 DEF TaskState
      <4> QED
        BY <4>1, <4>2 DEF CreatorInv
    <3> QED
      BY <2>3, <3>1, <3>2 DEF FindUser
  <2>4. CASE InsertResetToken(s)
    <3>1. CASE Finish(s)
      BY <3>1 DEF Finish, Idle, CreatorInv
    <3>2. CASE Goto(s, "send_email")
      <4>1. task'[s].pc = "send_email" /\ task'[s].token = task[s].token
        BY <3>2 DEF Goto, TaskState
      <4> QED
        BY <2>4, <4>1 DEF InsertResetToken, CreatorInv
    <3> QED
      BY <2>4, <3>1, <3>2 DEF InsertResetToken
  <2>5. CASE DeleteResetToken(s)
    <3>1. PICK j \in Fresh :
              /\ Mint(j, "jwt", task[s].user, JwtLife)
              /\ task' = [task EXCEPT ![s].pc = "register_jwt", ![s].jwt = j]
      BY <2>5 DEF DeleteResetToken
    <3>2. j \in Token /\ minted'[j].kind = "jwt" /\ minted'[j].user = task[s].user
      BY <3>1 DEF Mint, Fresh, TaskState
    <3>3. task[s].op = "reset_step2"
      BY <2>5 DEF DeleteResetToken, CreatorInv
    <3>4. /\ task'[s].pc = "register_jwt" /\ task'[s].jwt = j
          /\ task'[s].op = "reset_step2" /\ task'[s].user = task[s].user
      BY <3>1, <3>3 DEF TaskState
    <3> QED
      BY <3>2, <3>4 DEF CreatorInv
  <2>6. CASE \/ Login(s) \/ Refresh(s) \/ Logout(s) \/ ResetStep1(s) \/ ResetStep2(s)
    BY <2>6 DEF Login, Refresh, Logout, ResetStep1, ResetStep2, Start, CreatorInv
  <2>7. CASE CheckToken(s) \/ ListUsers(s) \/ DeleteRefreshToken(s) \/ UpdateJwts(s)
    BY <2>7 DEF CheckToken, ListUsers, DeleteRefreshToken, UpdateJwts, Goto, Finish, Idle,
                CreatorInv, TaskState
  <2>8. CASE SelectJwts(s)
    BY <2>8 DEF SelectJwts, CreatorInv, TaskState
  <2>9. CASE LookupResetToken(s)
    BY <2>9 DEF LookupResetToken, Finish, Idle, CreatorInv, TaskState
  <2>10. CASE RegisterJwt(s) \/ SendEmail(s) \/ InsertBlacklist(s) \/ TaskFails(s)
    BY <2>10 DEF RegisterJwt, SendEmail, InsertBlacklist, TaskFails, Finish, Idle,
       CreatorInv
  <2> QED
    BY <1>2, <2>1, <2>2, <2>3, <2>4, <2>5, <2>6, <2>7, <2>8, <2>9, <2>10 DEF Handler
<1>3. CASE ~(\E t \in Task : Handler(t))
  BY <1>3, TasksFrame DEF CreatorInv, At, Idle
<1> QED
  BY <1>1, <1>2, <1>3

\* A login draws its refresh token among the fresh ones.
LEMMA DistinctStep ==
  ASSUME IInv, Next
  PROVE  DistinctTokens'
<1>0. TypeOK /\ TypeOK' /\ Kinds /\ DistinctTokens
  BY TypeStep DEF IInv
<1>1. ASSUME NEW t \in Task, Handler(t)
      PROVE  DistinctTokens'
  <2>1. \A s \in Task : s # t => task'[s] = task[s]
    BY <1>0, <1>1, OtherTasks
  <2>2. CASE /\ task'[t].token = task[t].token /\ task'[t].op = task[t].op
             /\ At(t, "create_refresh_token")' => At(t, "create_refresh_token")
             /\ At(t, "register_jwt")' =>
                   \/ task[t].pc \in {"create_refresh_token", "register_jwt"}
                   \/ task[t].op # "login"
    BY <1>0, <2>1, <2>2 DEF DistinctTokens, At
  <2>3. CASE task'[t].pc \notin {"create_refresh_token", "register_jwt"}
    BY <1>0, <2>1, <2>3 DEF DistinctTokens, At
  <2>4. CASE GetUserGroups(t) /\ task[t].op = "login"
    <3>1. CASE Finish(t)
      BY <1>0, <2>3, <3>1 DEF Finish, Idle, TypeOK
    <3>2. ASSUME NEW r \in Fresh, task'[t].token = r
          PROVE  DistinctTokens'
      <4>1. \A s \in Task : /\ s # t
                            /\ task[s].op = "login"
                            /\ task[s].pc \in {"create_refresh_token", "register_jwt"}
                            => task[s].token # r
        BY <3>2 DEF IInv, CreatorInv, Fresh, At
      <4> QED
        BY <1>0, <2>1, <3>2, <4>1 DEF DistinctTokens, At, IInv, CreatorInv
    <3> QED
      BY <1>0, <2>4, <3>1, <3>2 DEF GetUserGroups, TypeOK, TaskState
  <2>5. CASE GetUserGroups(t) /\ task[t].op # "login"
    <3>1. CASE Finish(t)
      BY <1>0, <2>3, <3>1 DEF Finish, Idle, TypeOK
    <3>2. CASE /\ task[t].op = "refresh"
               /\ \E j \in Fresh :
                     task' = [task EXCEPT ![t].pc = "register_jwt", ![t].jwt = j]
      <4>1. /\ task'[t].op = "refresh" /\ task'[t].token = task[t].token
            /\ task'[t].pc = "register_jwt"
        BY <1>0, <3>2 DEF TypeOK, TaskState
      <4> QED
        BY <2>2, <3>2, <4>1 DEF At
    <3> QED
      BY <2>5, <3>1, <3>2 DEF GetUserGroups
  <2>6. CASE CreateRefreshToken(t)
    <3>1. CASE Finish(t)
      BY <1>0, <2>3, <3>1 DEF Finish, Idle, TypeOK
    <3>2. CASE \E j \in Fresh :
                  task' = [task EXCEPT ![t].pc = "register_jwt", ![t].jwt = j]
      <4>1. /\ task'[t].op = task[t].op /\ task'[t].token = task[t].token
            /\ task'[t].pc = "register_jwt"
        BY <1>0, <3>2 DEF TypeOK, TaskState
      <4> QED
        BY <2>2, <2>6, <4>1 DEF At, CreateRefreshToken
    <3> QED
      BY <2>6, <3>1, <3>2 DEF CreateRefreshToken
  <2>7. CASE DeleteResetToken(t)
    <3>1. task[t].op = "reset_step2"
      BY <2>7 DEF DeleteResetToken, IInv, CreatorInv, At
    <3>2. /\ task'[t].op = task[t].op /\ task'[t].token = task[t].token
          /\ task'[t].pc = "register_jwt"
      BY <1>0, <2>7 DEF DeleteResetToken, TypeOK, TaskState
    <3> QED
      BY <2>2, <3>1, <3>2 DEF At
  <2>8. CASE \/ Login(t) \/ Refresh(t) \/ Logout(t) \/ ResetStep1(t) \/ ResetStep2(t)
    BY <1>0, <2>3, <2>8 DEF Login, Refresh, Logout, ResetStep1, ResetStep2, Start, TypeOK
  <2>9. CASE \/ CheckToken(t) \/ ListUsers(t) \/ DeleteRefreshToken(t) \/ UpdateJwts(t)
             \/ SelectJwts(t) \/ LookupResetToken(t) \/ FindUser(t) \/ InsertResetToken(t)
    BY <1>0, <2>3, <2>9 DEF CheckToken, ListUsers, DeleteRefreshToken, UpdateJwts,
       SelectJwts,
         LookupResetToken, FindUser, InsertResetToken, Goto, Finish, Idle, TypeOK, TaskState
  <2>10. CASE RegisterJwt(t) \/ SendEmail(t) \/ InsertBlacklist(t) \/ TaskFails(t)
    BY <1>0, <2>3, <2>10 DEF RegisterJwt, SendEmail, InsertBlacklist, TaskFails, Finish,
       Idle, TypeOK
  <2> QED
    BY <1>1, <2>4, <2>5, <2>6, <2>7, <2>8, <2>9, <2>10 DEF Handler
<1>2. CASE ~(\E t \in Task : Handler(t))
  BY <1>0, <1>2, TasksFrame DEF DistinctTokens, At, Idle
<1> QED
  BY <1>1, <1>2

\* The steps of a logout, and what the others may do to it meanwhile.
LEMMA LogoutStep ==
  ASSUME IInv, Next, NEW s \in Task
  PROVE  LogoutInv(s)'
<1>0. TypeOK /\ TypeOK' /\ Kinds /\ Kinds' /\ LogoutInv(s)
  BY TypeStep, KindsStep DEF IInv
<1>1. ASSUME task'[s] = task[s],
             held \subseteq held',
             task[s].token \in held => task[s].token \notin jwtRefreshStorage' \ jwtRefreshStorage
      PROVE  LogoutInv(s)'
  <2>0. \A x \in Token : minted[x].kind # "none" => minted'[x] = minted[x]
    BY Monotone
  <2>00. held \subseteq Token /\ task[s] \in TaskState /\ \A x \in held : minted[x].kind # "none"
    BY <1>0 DEF Kinds, TypeOK
  <2>1. task[s].pc \in LogoutSteps =>
          /\ task[s].token \in held' /\ minted'[task[s].token].kind = "refresh"
          /\ task[s].before \subseteq held'
          /\ \A x \in task[s].before :
                IF IsJwt(x)' THEN minted'[x].user = task[s].user ELSE x = task[s].token
    BY <1>0, <1>1, <2>0, <2>00 DEF LogoutInv, IsJwt, TaskState
  <2>2. task[s].pc \in LogoutSteps \ {"delete_refresh_token"} =>
          task[s].token \notin jwtRefreshStorage'
    BY <1>0, <1>1 DEF LogoutInv
  <2>3. At(s, "update_jwts") =>
          \A x \in task[s].selected :
              IsJwt(x)' /\ minted'[x].user = task[s].user /\ Recorded(x)'
    BY <1>0, <2>0, <2>00, StatusStable DEF LogoutInv, IsJwt, TaskState
  <2>4. At(s, "insert_blacklist") =>
          /\ \A x \in task[s].selected : IsJwt(x)' /\ Blacklisted(x)'
          /\ \A x \in task[s].before : IsJwt(x)' => Blacklisted(x)'
    <3>1. ASSUME At(s, "insert_blacklist"), NEW x \in task[s].selected
          PROVE  IsJwt(x)' /\ Blacklisted(x)'
      BY <1>0, <2>0, <2>00, <3>1, StatusStable DEF LogoutInv, IsJwt, TaskState
    <3>2. ASSUME At(s, "insert_blacklist"), NEW x \in task[s].before, IsJwt(x)'
          PROVE  Blacklisted(x)'
      <4>1. x \in Token /\ minted[x].kind # "none"
        BY <1>0, <2>00, <3>2 DEF LogoutInv, LogoutSteps, At
      <4>2. IsJwt(x)
        BY <2>0, <3>2, <4>1 DEF IsJwt
      <4> QED
        BY <1>0, <3>2, <4>1, <4>2, StatusStable DEF LogoutInv
    <3> QED
      BY <3>1, <3>2
  <2> QED
    BY <1>1, <2>1, <2>2, <2>3, <2>4 DEF LogoutInv, At
<1>2. ASSUME NEW t \in Task, Handler(t), s # t
      PROVE  LogoutInv(s)'
  <2>1. task'[s] = task[s] /\ held \subseteq held'
    BY <1>0, <1>2, OtherTasks
  <2>2. task[s].token \in held => task[s].token \notin jwtRefreshStorage' \ jwtRefreshStorage
    BY <1>0, <1>2, OtherTasks DEF IInv, CreatorInv
  <2> QED
    BY <1>1, <2>1, <2>2
<1>3. CASE task'[s].pc \notin LogoutSteps
  BY <1>3 DEF LogoutInv, LogoutSteps, At
<1>4. ASSUME Handler(s)
      PROVE  LogoutInv(s)'
  <2> USE DEF At, history
  <2>0. task[s] \in TaskState /\ held \subseteq Token
    BY <1>0 DEF TypeOK
  <2>1. CASE Logout(s)
    <3>1. PICK r \in held : /\ minted[r].kind = "refresh"
                            /\ Start(s, "logout", "delete_refresh_token", minted[r].user, r)
      BY <2>1 DEF Logout
    <3>2. /\ task'[s].pc = "delete_refresh_token" /\ task'[s].token = r
          /\ task'[s].user = minted[r].user
          /\ task'[s].before = (held \cap JwtsOf(minted[r].user)) \cup {r}
      BY <1>0, <3>1 DEF Start, TypeOK
    <3>3. UNCHANGED <<held, minted>>
      BY <2>1 DEF Logout
    <3> QED
      BY <3>1, <3>2, <3>3 DEF LogoutInv, LogoutSteps, JwtsOf, IsJwt
  <2>2. CASE DeleteRefreshToken(s)
    <3>1. task' = [task EXCEPT ![s].pc = "select_jwts"]
      BY <2>2 DEF DeleteRefreshToken, Goto
    <3>2. task'[s].pc = "select_jwts" /\ task'[s].token = task[s].token
          /\ task'[s].user = task[s].user /\ task'[s].before = task[s].before
      BY <1>0, <2>0, <3>1 DEF TaskState, TypeOK
    <3>3. UNCHANGED <<held, minted>> /\ task[s].token \notin jwtRefreshStorage'
      BY <2>2 DEF DeleteRefreshToken
    <3> QED
      BY <1>0, <2>2, <3>2, <3>3 DEF LogoutInv, LogoutSteps, IsJwt, DeleteRefreshToken
  <2>3. CASE SelectJwts(s)
    <3>1. task'[s].pc = "update_jwts" /\ task'[s].token = task[s].token
          /\ task'[s].user = task[s].user /\ task'[s].before = task[s].before
          /\ task'[s].selected = (jwtStorage \ dbBlacklisted) \cap JwtsOf(task[s].user)
      BY <1>0, <2>0, <2>3 DEF SelectJwts, TaskState, TypeOK
    <3>2. UNCHANGED <<held, minted, jwtRefreshStorage, jwtStorage>>
      BY <2>3 DEF SelectJwts, db
    <3>3. \A x \in task'[s].selected :
              IsJwt(x)' /\ minted'[x].user = task[s].user /\ Recorded(x)'
      BY <3>1, <3>2 DEF IsJwt, JwtsOf, Recorded
    <3>4. /\ task[s].token \in held /\ minted[task[s].token].kind = "refresh"
          /\ task[s].before \subseteq held
          /\ task[s].token \notin jwtRefreshStorage
          /\ \A x \in task[s].before :
                IF IsJwt(x) THEN minted[x].user = task[s].user ELSE x = task[s].token
      BY <1>0, <2>3 DEF LogoutInv, LogoutSteps, SelectJwts
    <3> QED
      BY <3>1, <3>2, <3>3, <3>4 DEF LogoutInv, IsJwt
  <2>4. CASE UpdateJwts(s)
    <3>1. task' = [task EXCEPT ![s].pc = "insert_blacklist"]
      BY <2>4 DEF UpdateJwts, Goto
    <3>2. task'[s].pc = "insert_blacklist" /\ task'[s].token = task[s].token
          /\ task'[s].user = task[s].user /\ task'[s].before = task[s].before
          /\ task'[s].selected = task[s].selected
      BY <1>0, <2>0, <3>1 DEF TaskState, TypeOK
    <3>3. /\ UNCHANGED <<held, minted, jwtRefreshStorage, jwtStorage, orphaned, now>>
          /\ dbBlacklisted' = dbBlacklisted \cup (jwtStorage \cap JwtsOf(task[s].user))
      BY <2>4 DEF UpdateJwts, RowsToBlacklist
    <3>4. ASSUME NEW x \in Token, IsJwt(x), minted[x].user = task[s].user, Recorded(x)
          PROVE  Blacklisted(x)'
      BY <3>3, <3>4 DEF Recorded, Blacklisted, Gone, Expired, JwtsOf, IsJwt
    <3>5. \A x \in task[s].selected : IsJwt(x)' /\ Blacklisted(x)'
      BY <1>0, <2>0, <2>4, <3>3, <3>4 DEF LogoutInv, UpdateJwts, TaskState, IsJwt
    <3>6. \A x \in task[s].before : IsJwt(x)' => Blacklisted(x)'
      <4>1. \A x \in held : IsJwt(x) => Recorded(x)
        BY DEF IInv, HeldJwtsRegistered, Recorded, Gone
      <4> QED
        BY <1>0, <2>0, <2>4, <3>3, <3>4, <4>1 DEF LogoutInv, LogoutSteps, UpdateJwts,
           IsJwt
    <3> QED
      BY <1>0, <2>4, <3>2, <3>3, <3>5, <3>6 DEF LogoutInv, LogoutSteps, IsJwt, UpdateJwts
  <2>5. CASE \/ Login(s) \/ Refresh(s) \/ ResetStep1(s) \/ ResetStep2(s)
    BY <1>0, <1>3, <2>5 DEF Login, Refresh, ResetStep1, ResetStep2, Start, TypeOK,
       LogoutSteps
  <2>6. CASE CheckToken(s) \/ ListUsers(s) \/ LookupResetToken(s) \/ InsertResetToken(s)
    BY <1>0, <1>3, <2>0, <2>6 DEF CheckToken, ListUsers, LookupResetToken,
       InsertResetToken,
         Goto, Finish, Idle, TypeOK, TaskState, LogoutSteps
  <2>7. CASE GetUserGroups(s) \/ CreateRefreshToken(s) \/ FindUser(s) \/ DeleteResetToken(s)
    BY <1>0, <1>3, <2>0, <2>7 DEF GetUserGroups, CreateRefreshToken, FindUser,
       DeleteResetToken,
         Finish, Idle, TypeOK, TaskState, LogoutSteps
  <2>8. CASE RegisterJwt(s) \/ SendEmail(s) \/ InsertBlacklist(s) \/ TaskFails(s)
    BY <1>0, <1>3, <2>8 DEF RegisterJwt, SendEmail, InsertBlacklist, TaskFails, Finish,
       Idle,
         TypeOK, LogoutSteps
  <2> QED
    BY <1>4, <2>1, <2>2, <2>3, <2>4, <2>5, <2>6, <2>7, <2>8 DEF Handler
<1>5. CASE ~(\E t \in Task : Handler(t))
  <2>1. CASE UNCHANGED task
    BY <1>1, <1>5, <2>1, TasksFrame
  <2>2. CASE task' = [t \in Task |-> Idle]
    BY <1>3, <2>2 DEF Idle, LogoutSteps
  <2> QED
    BY <1>5, <2>1, <2>2, TasksFrame
<1> QED
  BY <1>2, <1>4, <1>5

\* A JWT is registered in the step that hands it out.
LEMMA HeldStep ==
  ASSUME IInv, Next
  PROVE  HeldJwtsRegistered'
<1>0. TypeOK /\ Kinds
  BY DEF IInv
<1>1. \A x \in held : x \in Token /\ minted[x].kind # "none"
  BY <1>0 DEF Kinds, TypeOK
<1>2. ASSUME NEW x \in held, IsJwt(x)'
      PROVE  Recorded(x)'
  <2>1. IsJwt(x)
    BY <1>1, <1>2, Monotone DEF IsJwt
  <2>2. Recorded(x)
    BY <2>1 DEF IInv, HeldJwtsRegistered, Recorded, Gone
  <2> QED
    BY <1>1, <2>2, StatusStable
<1>3. ASSUME NEW t \in Task, Handler(t), NEW x \in held' \ held, IsJwt(x)'
      PROVE  Recorded(x)'
  <2>1. CreatorInv(t)
    BY DEF IInv
  <2>2. CASE At(t, "send_email")
    <3>1. x = task[t].token
      BY <1>0, <1>3, <2>2, OtherTasks DEF At
    <3> QED
      BY <1>3, <2>1, <2>2, <3>1, Monotone DEF CreatorInv, At, IsJwt
  <2>3. CASE At(t, "register_jwt")
    <3>1. RegisterJwt(t) \/ held' = held
      BY <1>3, <2>3 DEF Handler, Login, GetUserGroups, CreateRefreshToken, Refresh,
           CheckToken, Logout, DeleteRefreshToken, SelectJwts, UpdateJwts, InsertBlacklist,
           ResetStep1, ListUsers, FindUser, InsertResetToken, SendEmail, ResetStep2,
           LookupResetToken, DeleteResetToken, TaskFails, At, history
    <3>2. x = task[t].jwt \/ (x = task[t].token /\ task[t].op = "login")
      BY <1>3, <3>1 DEF RegisterJwt
    <3>3. x = task[t].jwt
      BY <1>3, <2>1, <2>3, <3>2, Monotone DEF CreatorInv, IsJwt, At
    <3> QED
      BY <1>3, <3>1, <3>3 DEF RegisterJwt, Recorded
  <2> QED
    BY <1>0, <1>3, <2>2, <2>3, OtherTasks
<1>4. ASSUME NEW x \in held', IsJwt(x)'
      PROVE  Recorded(x)'
  BY <1>2, <1>3, <1>4, TasksFrame
<1> QED
  BY <1>4 DEF HeldJwtsRegistered, Recorded, Gone

\* The rows of a user who logged out stay blacklisted, the refresh token away.
LEMMA DurableStep ==
  ASSUME IInv, Next
  PROVE  LogoutDurable'
<1>0. TypeOK /\ Kinds /\ LogoutDurable
  BY DEF IInv
<1>1. \A x \in held : x \in Token /\ minted[x].kind # "none"
  BY <1>0 DEF Kinds, TypeOK
<1>2. ASSUME NEW x \in held, IsJwt(x) => Blacklisted(x),
             ~IsJwt(x) => x \notin jwtRefreshStorage'
      PROVE  IF IsJwt(x)' THEN Blacklisted(x)' ELSE x \notin jwtRefreshStorage'
  <2>1. IsJwt(x)' <=> IsJwt(x)
    BY <1>1, Monotone DEF IsJwt
  <2> QED
    BY <1>1, <1>2, <2>1, StatusStable
<1>3. ASSUME NEW x \in held
      PROVE  x \notin jwtRefreshStorage => x \notin jwtRefreshStorage'
  <2>1. CASE \E t \in Task : Handler(t)
    BY <1>0, <1>3, <2>1, OtherTasks DEF IInv, CreatorInv
  <2>2. CASE ~(\E t \in Task : Handler(t))
    BY <2>2, TasksFrame
  <2> QED
    BY <2>1, <2>2
<1>4. ASSUME NEW x \in loggedOut
      PROVE  IF IsJwt(x)' THEN Blacklisted(x)' ELSE x \notin jwtRefreshStorage'
  <2>1. x \in held
    BY <1>0 DEF Kinds
  <2>2. IF IsJwt(x) THEN Blacklisted(x) ELSE x \notin jwtRefreshStorage
    BY <1>0 DEF LogoutDurable, Blacklisted, Gone
  <2> QED
    BY <1>2, <1>3, <2>1, <2>2
<1>5. ASSUME NEW t \in Task, InsertBlacklist(t), NEW x \in task[t].before
      PROVE  IF IsJwt(x)' THEN Blacklisted(x)' ELSE x \notin jwtRefreshStorage'
  <2>1. LogoutInv(t)
    BY DEF IInv
  <2>2. /\ x \in held
        /\ IsJwt(x) => Blacklisted(x)
        /\ ~IsJwt(x) => x \notin jwtRefreshStorage
    BY <1>5, <2>1 DEF InsertBlacklist, LogoutInv, LogoutSteps, At
  <2> QED
    BY <1>2, <1>3, <2>2
<1>6. ASSUME NEW x \in loggedOut'
      PROVE  x \in loggedOut \/ \E t \in Task : InsertBlacklist(t) /\ x \in task[t].before
  <2>1. ASSUME NEW t \in Task, Handler(t)
        PROVE  loggedOut' = loggedOut \/ (InsertBlacklist(t) /\ loggedOut' = loggedOut \cup task[t].before)
    BY <2>1 DEF Handler, Login, GetUserGroups, CreateRefreshToken, RegisterJwt, Refresh,
         CheckToken, Logout, DeleteRefreshToken, SelectJwts, UpdateJwts, InsertBlacklist,
         ResetStep1, ListUsers, FindUser, InsertResetToken, SendEmail, ResetStep2,
         LookupResetToken, DeleteResetToken, TaskFails, history
  <2> QED
    BY <1>6, <2>1, TasksFrame
<1>7. \A x \in loggedOut' : IF IsJwt(x)' THEN Blacklisted(x)' ELSE x \notin jwtRefreshStorage'
  BY <1>4, <1>5, <1>6
<1> QED
  BY <1>7 DEF LogoutDurable, Blacklisted, Gone

\* What goes into the blacklist in memory is marked in the database already.
LEMMA BlacklistStep ==
  ASSUME IInv, Next
  PROVE  BlacklistDurable'
<1>0. TypeOK /\ Kinds /\ BlacklistDurable
  BY DEF IInv
<1>1. ASSUME NEW x \in jwtBlacklist
      PROVE  Blacklisted(x)'
  BY <1>0, StatusStable DEF BlacklistDurable, Kinds, TypeOK
<1>2. ASSUME NEW t \in Task, InsertBlacklist(t)
      PROVE  BlacklistDurable'
  <2>1. \A x \in task[t].selected : x \in Token /\ minted[x].kind # "none" /\ Blacklisted(x)
    BY <1>0, <1>2 DEF IInv, LogoutInv, InsertBlacklist, At, IsJwt, TypeOK, TaskState
  <2> QED
    BY <1>1, <1>2, <2>1, StatusStable DEF InsertBlacklist, BlacklistDurable
<1>3. CASE Restart
  BY <1>3 DEF Restart, StoredBlacklist, BlacklistDurable, Blacklisted, db
<1>4. CASE UNCHANGED jwtBlacklist
  BY <1>1, <1>4 DEF BlacklistDurable
<1>5. ASSUME NEW t \in Task, Handler(t)
      PROVE  UNCHANGED jwtBlacklist \/ InsertBlacklist(t)
  BY <1>5 DEF Handler, Login, GetUserGroups, CreateRefreshToken, RegisterJwt, Refresh,
         CheckToken, Logout, DeleteRefreshToken, SelectJwts, UpdateJwts, InsertBlacklist,
         ResetStep1, ListUsers, FindUser, InsertResetToken, SendEmail, ResetStep2,
         LookupResetToken, DeleteResetToken, TaskFails, history
<1> QED
  BY <1>2, <1>3, <1>4, <1>5
     DEF Next, Cleaner, CleanerWakes, CleanRefreshTokens, CleanJwts, CleanResetTokens,
         CleanerError, DeleteUser, CreateUser, Tick, history

LEMMA IInvStutter ==
  ASSUME IInv, UNCHANGED vars
  PROVE  IInv'
  BY DEF vars, db, history, IInv, TypeOK, RowsOwned, Kinds, CreatorInv, DistinctTokens, LogoutInv,
         HeldJwtsRegistered, LogoutDurable, BlacklistDurable, Recorded, Blacklisted, Gone,
         Expired, IsJwt, At

-----------------------------------------------------------------------------

\* The invariant is inductive.
THEOREM Invariance == Spec => []IInv
<1>1. IInv /\ [Next]_vars => IInv'
  <2>1. ASSUME IInv, Next
        PROVE  IInv'
    BY <2>1, TypeStep, KindsStep, CreatorStep, DistinctStep, LogoutStep, HeldStep,
       DurableStep, BlacklistStep DEF IInv
  <2> QED
    BY <2>1, IInvStutter
<1> QED
  BY InitIInv, <1>1, PTL DEF Spec

\* Every variable of the session layer keeps its type.
THEOREM TypeCorrect == Spec => []TypeOK
<1>1. IInv => TypeOK
  BY DEF IInv
<1> QED
  BY Invariance, <1>1, PTL

\* A JWT handed out by create_jwt's callers is on record until it expires or
\* its user is deleted: the cleaner never removes a row too early.
THEOREM HeldRegistered == Spec => []HeldJwtsRegistered
<1>1. IInv => HeldJwtsRegistered
  BY DEF IInv
<1> QED
  BY Invariance, <1>1, PTL

\* An answered logout is in the database, however it interleaved with logins,
\* refreshes, resets, other logouts, the cleaner and restarts.
THEOREM LogoutIsDurable == Spec => []LogoutDurable
<1>1. IInv => LogoutDurable
  BY DEF IInv
<1> QED
  BY Invariance, <1>1, PTL

\* check_if_token_is_valid never changes its mind from no to yes, restarts
\* included, except for JWTs of deleted users.
THEOREM RejectionIsStable == Spec => RejectionStable
<1>1. ASSUME IInv, [Next]_vars, NEW x \in held, IsJwt(x), ~Accepted(x)
      PROVE  ~Accepted(x)' \/ x \in orphaned'
  <2>0. TypeOK /\ x \in Token
    BY <1>1 DEF IInv, TypeOK
  <2>1. CASE UNCHANGED vars
    BY <1>1, <2>1 DEF vars, db, history, Accepted, Expired
  <2>2. CASE Next
    <3>1. CASE Expired(x)
      BY <1>1, <2>0, <2>2, <3>1, GoneStable DEF Gone, IsJwt, Accepted
    <3>2. CASE x \in jwtBlacklist
      <4>1. Blacklisted(x)'
        BY <1>1, <2>0, <2>2, <3>2, StatusStable DEF IInv, BlacklistDurable, IsJwt
      <4>2. jwtBlacklist \subseteq jwtBlacklist' \/ jwtBlacklist' = dbBlacklisted'
        <5>1. ASSUME NEW t \in Task, Handler(t)
              PROVE  jwtBlacklist \subseteq jwtBlacklist'
          BY <5>1 DEF Handler, Login, GetUserGroups, CreateRefreshToken, RegisterJwt,
             Refresh,
               CheckToken, Logout, DeleteRefreshToken, SelectJwts, UpdateJwts,
               InsertBlacklist, ResetStep1, ListUsers, FindUser, InsertResetToken,
               SendEmail, ResetStep2, LookupResetToken, DeleteResetToken, TaskFails
        <5>2. CASE Restart
          BY <5>2 DEF Restart, StoredBlacklist, db
        <5> QED
          BY <2>2, <5>1, <5>2
             DEF Next, Cleaner, CleanerWakes, CleanRefreshTokens, CleanJwts,
                 CleanResetTokens, CleanerError, DeleteUser, CreateUser, Tick
      <4> QED
        BY <3>2, <4>1, <4>2 DEF Blacklisted, Gone, Accepted
    <3> QED
      BY <1>1, <3>1, <3>2 DEF Accepted
  <2> QED
    BY <1>1, <2>1, <2>2
<1>2. IInv /\ [Next]_vars =>
        [\A x \in held : IsJwt(x) /\ ~Accepted(x) => ~Accepted(x)' \/ x \in orphaned']_vars
  BY <1>1
<1> QED
  BY Invariance, <1>2, PTL DEF Spec, RejectionStable

=============================================================================
