---------------------------- MODULE PasswordForms ----------------------------
(***************************************************************************)
(* The clients that know passwords: the forms of the web front end for     *)
(* logging in (login.rs), changing (change_password.rs) and resetting a    *)
(* password (reset_password_step2.rs) and the tool lldap_set_password,     *)
(* with the server's handlers behind them.                                 *)
(*                                                                         *)
(* A form handles one message at a time: a click, a keystroke or the       *)
(* answer to its call.  call_backend notes that a task is running, which   *)
(* the next rendering shows as a disabled button.  The answer may be an    *)
(* error, or get lost after the server has done its part; meanwhile other  *)
(* clients change the password, users are deleted and created, and the     *)
(* server is restarted with another key.                                   *)
(***************************************************************************)
EXTENDS Opaque

CONSTANTS
    Client,  \* browser windows and terminals
    Fields,  \* what can stand in the fields of a form
    Long     \* the passwords of eight characters or more

ASSUME FormsAssumption ==
    /\ User # {} /\ Fields # {}
    /\ Fields \subseteq [old : Password, password : Password, confirm : Password]
    /\ Long \subseteq Password

VARIABLES
    form,   \* the state of each component
    call,   \* its call of the server
    during  \* history: the passwords its user has had since the last submit

server == <<users, file, key>>
vars == <<users, file, key, form, call, during>>

NoData == [kind |-> "None", password |-> NoPassword]
NoCall == [pc |-> "none", op |-> "none", user |-> CHOOSE u \in User : TRUE,
           password |-> NoPassword,
           reply |-> [user |-> CHOOSE u \in User : TRUE, key |-> NoKey, file |-> NoFile]]

Kinds == {"Login", "Change", "AdminChange", "Reset", "Tool"}

Fresh(kind, u, fs) ==
    [kind |-> kind, mounted |-> TRUE, user |-> u, fields |-> fs, submitted |-> fs,
     shown |-> FALSE, data |-> NoData, running |-> FALSE, disabled |-> FALSE, panicked |-> FALSE]

Unmounted ==
    [Fresh("Login", CHOOSE u \in User : TRUE, CHOOSE fs \in Fields : TRUE)
        EXCEPT !.mounted = FALSE]

Init ==
    /\ users = User /\ key \in Key
    /\ file \in [User -> [password : Password, key : {key}]]
    /\ form = [c \in Client |-> Unmounted]
    /\ call = [c \in Client |-> NoCall]
    /\ during = [c \in Client |-> {}]

-----------------------------------------------------------------------------
(* CommonComponent.                                                         *)

Become(c, f) == form' = [form EXCEPT ![c] = f]

\* Mutant: the button stays as it was.
RenderStill(f) == f

\* view: the submit button is disabled while a task is running.
Render(f) == [f EXCEPT !.disabled = f.running]

\* call_backend, with its assertion.
CallBackend(c, f, op, u, p, r) ==
    IF f.running
    THEN Become(c, [f EXCEPT !.panicked = TRUE]) /\ UNCHANGED call
    ELSE /\ Become(c, [f EXCEPT !.running = TRUE])
         /\ call' = [call EXCEPT ![c] = [pc |-> "sent", op |-> op, user |-> u, password |-> p,
                                         reply |-> r]]

\* The same, in a handler that asks for a new rendering.
CallAndRender(c, f, op, u, p) ==
    IF f.running
    THEN Become(c, [f EXCEPT !.panicked = TRUE]) /\ UNCHANGED call
    ELSE /\ Become(c, Render([f EXCEPT !.running = TRUE]))
         /\ call' = [call EXCEPT ![c] = [pc |-> "sent", op |-> op, user |-> u, password |-> p,
                                         reply |-> NoCall.reply]]

\* update, when handle_msg returns an error: no task may be running.
Fails(c, f) == Become(c, IF f.running THEN [f EXCEPT !.panicked = TRUE] ELSE Render(f))

\* Mutant: the task is noted until the message has been handled.
StillRunning(c) == form[c]

\* The future has its result: no task is running when the message is handled.
Ended(c) == [form[c] EXCEPT !.running = FALSE]
Answered(c, op, pc) == form[c].mounted /\ call[c].op = op /\ call[c].pc = pc
EndCall(c) ==
    /\ call' = [call EXCEPT ![c] = NoCall]
    /\ during' = [during EXCEPT ![c] = {}]

\* The component is replaced by another page, or the program ends.
Leaves(c) == Become(c, Unmounted)

\* A press of the button: what the fields hold is noted for the properties.
Pressed(c) ==
    /\ form[c].mounted /\ form[c].shown /\ ~form[c].disabled /\ ~form[c].panicked
    /\ during' = [during EXCEPT ![c] = {file[form[c].user].password}]
    /\ UNCHANGED server

Submitted(c) == [form[c] EXCEPT !.submitted = form[c].fields]

-----------------------------------------------------------------------------
(* The life of a form.                                                      *)

\* create: the form to log in tries to refresh first, the one to reset a
\* password has its token validated.
Mount(c, kind, u, fs) ==
    /\ ~form[c].mounted /\ call[c] = NoCall
    /\ during' = [during EXCEPT ![c] = {}]
    /\ LET f == Fresh(kind, u, fs) IN
       CASE kind = "Login" -> CallAndRender(c, f, "refresh", u, NoPassword)
         [] kind = "Reset" -> CallAndRender(c, f, "validate", u, NoPassword)
         [] OTHER -> Become(c, [f EXCEPT !.shown = TRUE]) /\ UNCHANGED call
    /\ UNCHANGED server

\* Fields are never disabled.
FormUpdate(c, fs) ==
    /\ form[c].mounted /\ form[c].shown /\ form[c].kind # "Tool" /\ ~form[c].panicked
    /\ Become(c, Render([form[c] EXCEPT !.fields = fs]))
    /\ UNCHANGED <<server, call, during>>

\* The user goes to another page; what was sent is still answered.
Unmount(c) ==
    /\ form[c].mounted
    /\ Leaves(c)
    /\ UNCHANGED <<server, call, during>>

Dropped(c) ==
    /\ ~form[c].mounted /\ call[c].pc \in {"ok", "error"}
    /\ EndCall(c)
    /\ UNCHANGED <<server, form>>

-----------------------------------------------------------------------------
(* Logging in.                                                              *)

AuthenticationRefreshResponse(c) ==
    /\ Answered(c, "refresh", call[c].pc) /\ call[c].pc \in {"ok", "error"}
    /\ IF call[c].pc = "ok" THEN Leaves(c)
       ELSE Become(c, Render([Ended(c) EXCEPT !.shown = TRUE]))
    /\ EndCall(c)
    /\ UNCHANGED server

LoginSubmit(c) ==
    /\ form[c].kind = "Login" /\ Pressed(c)
    /\ IF form[c].fields.password \in Long
       THEN CallAndRender(c, Submitted(c), "login_start", form[c].user, form[c].fields.password)
       ELSE Fails(c, Submitted(c)) /\ UNCHANGED call

\* The state of the client came with the message.
LoginStartResponse(c) ==
    /\ form[c].kind = "Login" /\ Answered(c, "login_start", "ok")
    /\ IF Proves(call[c].password, call[c].reply)
       THEN /\ CallBackend(c, Ended(c), "login_finish", call[c].user, call[c].password,
                           call[c].reply)
            /\ UNCHANGED during
       ELSE Become(c, Render(Ended(c))) /\ EndCall(c)
    /\ UNCHANGED server

LoginFinishResponse(c) ==
    /\ Answered(c, "login_finish", "ok")
    /\ Leaves(c) /\ EndCall(c)
    /\ UNCHANGED server

-----------------------------------------------------------------------------
(* Changing and resetting a password.                                       *)

\* The constraints of FormModel.
Valid(c, fs) == fs.password \in Long /\ fs.confirm = fs.password
                /\ (form[c].kind = "Change" => fs.old \in Long)

\* Msg::SubmitNewPassword takes the password from the form.
SubmitNewPassword(c, f) ==
    CallAndRender(c, [f EXCEPT !.data = [kind |-> "Registration", password |-> f.fields.password]],
                  "register_start", f.user, f.fields.password)

ChangeSubmit(c) ==
    /\ form[c].kind \in {"Change", "AdminChange"} /\ Pressed(c)
    /\ IF ~Valid(c, form[c].fields) THEN Fails(c, Submitted(c)) /\ UNCHANGED call
       ELSE IF form[c].kind = "AdminChange" THEN SubmitNewPassword(c, Submitted(c))
       ELSE CallAndRender(c, [Submitted(c) EXCEPT !.data = [kind |-> "Login",
                                                            password |-> form[c].fields.old]],
                          "login_start", form[c].user, form[c].fields.old)

\* Mutant: the error of finish_login is not looked at.
CarryOn(c) ==
    /\ form[c].kind = "Change" /\ Answered(c, "login_start", "ok")
    /\ SubmitNewPassword(c, [Ended(c) EXCEPT !.data = NoData])
    /\ UNCHANGED <<server, during>>

\* Msg::AuthenticationStartResponse; the login is not finished on the server.
ChangeLoginStarted(c) ==
    /\ form[c].kind = "Change" /\ Answered(c, "login_start", "ok")
    /\ LET f == [Ended(c) EXCEPT !.data = NoData] IN
       IF form[c].data.kind # "Login" THEN Become(c, [f EXCEPT !.panicked = TRUE]) /\ EndCall(c)
       ELSE IF ~Proves(form[c].data.password, call[c].reply) THEN Fails(c, f) /\ EndCall(c)
       ELSE SubmitNewPassword(c, f) /\ UNCHANGED during
    /\ UNCHANGED server

ValidateTokenResponse(c) ==
    /\ Answered(c, "validate", "ok")
    /\ Become(c, Render([Ended(c) EXCEPT !.shown = TRUE])) /\ EndCall(c)
    /\ UNCHANGED server

ResetSubmit(c) ==
    /\ form[c].kind = "Reset" /\ Pressed(c)
    /\ IF Valid(c, form[c].fields) THEN SubmitNewPassword(c, Submitted(c))
       ELSE Fails(c, Submitted(c)) /\ UNCHANGED call

RegistrationStartResponse(c) ==
    /\ form[c].kind \in {"Change", "AdminChange", "Reset"} /\ Answered(c, "register_start", "ok")
    /\ LET f == [Ended(c) EXCEPT !.data = NoData] IN
       IF form[c].data.kind # "Registration"
       THEN Become(c, [f EXCEPT !.panicked = TRUE]) /\ EndCall(c)
       ELSE /\ CallBackend(c, f, "register_finish", call[c].user, form[c].data.password,
                           call[c].reply)
            /\ UNCHANGED during
    /\ UNCHANGED server

RegistrationFinishResponse(c) ==
    /\ Answered(c, "register_finish", "ok")
    /\ Leaves(c) /\ EndCall(c)
    /\ UNCHANGED server

\* Mutant: a form that failed to start the change tries again at once.
TryAgain(c) ==
    /\ form[c].kind # "Tool" /\ form[c].mounted /\ call[c].pc = "error" /\ call[c].op # "refresh"
    /\ CallBackend(c, Ended(c), call[c].op, call[c].user, call[c].password, call[c].reply)
    /\ UNCHANGED <<server, during>>

\* Every handler hands on the error of its call.  The state of an earlier start
\* stays in the form.
ErrorResponse(c) ==
    /\ form[c].kind # "Tool" /\ form[c].mounted /\ call[c].pc = "error" /\ call[c].op # "refresh"
    /\ Fails(c, Ended(c)) /\ EndCall(c)
    /\ UNCHANGED server

-----------------------------------------------------------------------------
(* lldap_set_password: without a token it logs in as the administrator, with *)
(* the password that stands in the field of the old one.                    *)

ToolRun(c, admin, bypass, credentials) ==
    /\ form[c].kind = "Tool" /\ Pressed(c)
    /\ LET f == [Submitted(c) EXCEPT !.shown = FALSE] IN
       IF (~bypass /\ f.fields.password \notin Long) \/ credentials = "missing"
       THEN Leaves(c) /\ UNCHANGED call
       ELSE IF credentials = "token"
       THEN CallBackend(c, f, "register_start", f.user, f.fields.password, NoCall.reply)
       ELSE CallBackend(c, f, "simple_login", admin, f.fields.old, NoCall.reply)

ToolContinues(c) ==
    /\ form[c].kind = "Tool" /\ form[c].mounted /\ call[c].pc = "ok"
    /\ CASE call[c].op = "simple_login" ->
              /\ CallBackend(c, Ended(c), "register_start", form[c].user, form[c].fields.password,
                             NoCall.reply)
              /\ UNCHANGED during
         [] call[c].op = "register_start" ->
              /\ CallBackend(c, Ended(c), "register_finish", form[c].user, call[c].password,
                             call[c].reply)
              /\ UNCHANGED during
         [] OTHER -> Leaves(c) /\ EndCall(c)
    /\ UNCHANGED server

ToolFails(c) ==
    /\ form[c].kind = "Tool" /\ form[c].mounted /\ call[c].pc = "error"
    /\ Leaves(c) /\ EndCall(c)
    /\ UNCHANGED server

-----------------------------------------------------------------------------
(* The server.                                                              *)

Reply(c, ok, r) == call' = [call EXCEPT ![c].pc = IF ok THEN "ok" ELSE "error", ![c].reply = r]
Sent(c, op) == call[c].pc = "sent" /\ call[c].op = op

\* get_refresh: a JWT for the refresh token (module Sessions says when).
ServeRefresh(c) ==
    /\ Sent(c, "refresh")
    /\ Reply(c, TRUE, call[c].reply)
    /\ UNCHANGED <<server, form, during>>

\* get_password_reset_step2: a JWT for the token of the mail.
ServeResetToken(c) ==
    /\ Sent(c, "validate")
    /\ Reply(c, TRUE, call[c].reply)
    /\ UNCHANGED <<server, form, during>>

ServeLogin(c) ==
    /\ \/ Sent(c, "login_start") /\ Reply(c, TRUE, LoginStart(call[c].user))
       \/ Sent(c, "login_finish")
             /\ Reply(c, LoginFinish(call[c].reply, call[c].password) /\ HasGroups(call[c].user),
                      call[c].reply)
       \/ Sent(c, "simple_login")
             /\ Reply(c, Bind(call[c].user, call[c].password) /\ HasGroups(call[c].user),
                      call[c].reply)
    /\ UNCHANGED <<server, form, during>>

\* The caller's token allows it; if not, the call fails like any other.
ServeRegisterStart(c) ==
    /\ Sent(c, "register_start")
    /\ Reply(c, HasGroups(call[c].user), RegistrationStart(call[c].user))
    /\ UNCHANGED <<server, form, during>>

Since(files) ==
    [c \in Client |-> IF during[c] = {} THEN {} ELSE during[c] \cup {files[form[c].user].password}]

ServeRegisterFinish(c) ==
    /\ Sent(c, "register_finish")
    /\ LET ok == RegistrationFinish(call[c].reply) IN
       /\ Reply(c, ok, call[c].reply)
       /\ file' = IF ok THEN Registered(call[c].reply, call[c].password) ELSE file
    /\ during' = Since(file')
    /\ UNCHANGED <<users, key, form>>

\* A client that is not modelled one by one gives the user a new password.
OtherRegisters(u, p) ==
    /\ RegistrationFinish(RegistrationStart(u))
    /\ file' = Registered(RegistrationStart(u), p)
    /\ during' = Since(file')
    /\ UNCHANGED <<users, key, form, call>>

\* The request, or the answer, does not arrive, or is refused.
Lost(c) ==
    /\ call[c].pc \in {"sent", "ok"}
    /\ call' = [call EXCEPT ![c].pc = "error"]
    /\ UNCHANGED <<server, form, during>>

CreateUser(u) ==
    /\ u \notin users
    /\ users' = users \cup {u}
    /\ UNCHANGED <<file, key, form, call, during>>

DeleteUser(u) ==
    /\ u \in users
    /\ users' = users \ {u}
    /\ file' = [file EXCEPT ![u] = NoFile]
    /\ UNCHANGED <<key, form, call, during>>

\* A restart with another key (configuration.rs) breaks what is under way.
Rekey(k) ==
    /\ k # key
    /\ key' = k
    /\ call' = [c \in Client |-> IF call[c].pc = "sent" THEN [call[c] EXCEPT !.pc = "error"]
                                 ELSE call[c]]
    /\ UNCHANGED <<users, file, form, during>>

-----------------------------------------------------------------------------
Handle(c) ==
    \/ Dropped(c)
    \/ AuthenticationRefreshResponse(c) \/ LoginStartResponse(c) \/ LoginFinishResponse(c)
    \/ ChangeLoginStarted(c) \/ ValidateTokenResponse(c)
    \/ RegistrationStartResponse(c) \/ RegistrationFinishResponse(c) \/ ErrorResponse(c)
    \/ ToolContinues(c) \/ ToolFails(c)

Serve(c) ==
    \/ ServeRefresh(c) \/ ServeResetToken(c) \/ ServeLogin(c)
    \/ ServeRegisterStart(c) \/ ServeRegisterFinish(c) \/ Lost(c)

Press(c) ==
    \/ LoginSubmit(c) \/ ChangeSubmit(c) \/ ResetSubmit(c)
    \/ \E a \in User, bypass \in BOOLEAN, credentials \in {"token", "password", "missing"} :
          ToolRun(c, a, bypass, credentials)

Next ==
    \/ \E c \in Client : Handle(c) \/ Serve(c) \/ Press(c) \/ Unmount(c)
    \/ \E c \in Client, fs \in Fields :
          FormUpdate(c, fs) \/ \E kind \in Kinds, u \in User : Mount(c, kind, u, fs)
    \/ \E u \in User : CreateUser(u) \/ DeleteUser(u)
    \/ \E u \in User, p \in Password : OtherRegisters(u, p)
    \/ \E k \in Key : Rekey(k)

Spec == Init /\ [][Next]_vars

\* The browser settles every request, and handles what it has settled.
FairSpec == Spec /\ \A c \in Client : WF_vars(Handle(c)) /\ WF_vars(Serve(c))

-----------------------------------------------------------------------------
(* Properties.                                                              *)

\* No sequence of clicks, keystrokes, answers and errors runs into the
\* assertions of call_backend and update, or into the panics of the forms for
\* unexpected data from an earlier step.
FormsNeverPanic == \A c \in Client : ~form[c].panicked

\* login_finish succeeds only with a password that was the user's at some
\* moment between the start of the login and its end, although it looks only
\* at what was read at the start.
LoginByPassword ==
    \A c \in Client :
        call[c].op = "login_finish" /\ call[c].pc = "ok" =>
            call[c].password \in during[c] \cap Password

\* The form of a regular user sends a new password only after the old one that
\* was typed was theirs, at some moment since they pressed the button.
ChangeNeedsOld ==
    \A c \in Client :
        (form[c].kind = "Change" /\ form[c].mounted
         /\ call[c].op \in {"register_start", "register_finish"})
            => form[c].submitted.old \in during[c]

\* A password file is only ever written with the key of the server that runs:
\* a registration that began under another key is refused, not stored unusable.
FilesUsable ==
    [][\A u \in User : file'[u] # file[u] /\ file'[u] # NoFile => file'[u].key = key']_vars

\* A form never gets stuck: after every press of the button, whatever is lost or
\* refused, the button can be pressed again, or the page has been left.
Settles == \A c \in Client : form[c].mounted /\ form[c].disabled
                              ~> ~form[c].mounted \/ ~form[c].disabled

=============================================================================
