------------------------------- MODULE Opaque --------------------------------
(***************************************************************************)
(* The server's side of passwords: OpaqueHandler and LoginHandler of       *)
(* sql_opaque_handler.rs over the column users.password_hash.              *)
(*                                                                         *)
(* The cryptography of opaque_ke is symbolic.  A password file is the      *)
(* password it was made from and the server's key at that time; the        *)
(* answer to a login_start lets its client find out whether a password is  *)
(* the one of the file, and nothing else.  What the server has to remember *)
(* between the two requests of a dialogue it gives to the client, sealed   *)
(* with its key.                                                           *)
(***************************************************************************)
EXTENDS FiniteSets

CONSTANTS
    User,        \* user ids
    Password,    \* passwords
    Key,         \* keys of the server
    NoPassword,  \* password_hash is NULL
    NoKey        \* the key of no file

ASSUME OpaqueAssumption == NoPassword \notin Password /\ NoKey \notin Key

VARIABLES
    users,  \* rows of the table "users"
    file,   \* their password_hash
    key     \* the server's key

NoFile == [password |-> NoPassword, key |-> NoKey]

\* Mutant: the dummy answer for a user without a password can be finished.
DummyProves(p, r) == r.file.password \in {p, NoPassword}

\* opaque::client::login::finish_login: the file in the answer is one that was
\* made from the password, with the key of the server that answers.
Proves(p, r) == r.file.password = p /\ r.file.key = r.key

\* Mutant: what was sealed with an earlier key is accepted.
AlwaysOpens(r) == TRUE

\* orion::aead::open, whose key is the server's.
Opens(r) == r.key = key

\* login_start: a dummy if there is no such user, or no password.
LoginStart(u) == [user |-> u, key |-> key, file |-> file[u]]

\* login_finish: the state that was sealed at the start, and the proof of the
\* client.  The table is not read again.
LoginFinish(r, p) == Opens(r) /\ Proves(p, r)

\* get_login_successful_response begins with the user's groups.
HasGroups(u) == u \in users

\* bind: get_password_file_for_user, then passwords_match.
Bind(u, p) == file[u].password # NoPassword /\ Proves(p, LoginStart(u))

\* registration_start; the server's key is in the answer.
RegistrationStart(u) == [user |-> u, key |-> key, file |-> NoFile]

\* registration_finish: the update of no row is an error.
RegistrationFinish(r) == Opens(r) /\ r.user \in users

\* get_password_file: the client made it from the answer to its start.
Registered(r, p) == [file EXCEPT ![r.user] = [password |-> p, key |-> r.key]]

=============================================================================
