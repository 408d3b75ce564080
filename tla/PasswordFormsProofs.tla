------------------------- MODULE PasswordFormsProofs -------------------------
(* Proofs about PasswordForms, for any users, passwords, keys and clients.  *)
EXTENDS PasswordForms, TLAPS

Operations == {"none", "refresh", "validate", "login_start", "login_finish", "simple_login",
               "register_start", "register_finish"}
AnyPassword == Password \cup {NoPassword}
File == [password : AnyPassword, key : Key \cup {NoKey}]
Answer == [user : User, key : Key \cup {NoKey}, file : File]
Data == [kind : {"None", "Login", "Registration"}, password : AnyPassword]
Form == [kind : Kinds, mounted : BOOLEAN, user : User, fields : Fields, submitted : Fields,
         shown : BOOLEAN, data : Data, running : BOOLEAN, disabled : BOOLEAN,
         panicked : BOOLEAN]
Call == [pc : {"none", "sent", "ok", "error"}, op : Operations, user : User,
         password : AnyPassword, reply : Answer]

Types ==
    /\ users \subseteq User /\ key \in Key
    /\ file \in [User -> File]
    /\ form \in [Client -> Form]
    /\ call \in [Client -> Call]
    /\ during \in [Client -> SUBSET AnyPassword]

\* The operations that a form of each kind calls.
Calls == [Login |-> {"refresh", "login_start", "login_finish"},
          Change |-> {"login_start", "register_start", "register_finish"},
          AdminChange |-> {"register_start", "register_finish"},
          Reset |-> {"validate", "register_start", "register_finish"},
          Tool |-> {"simple_login", "register_start", "register_finish"}]

\* A task is running while there is a call, and then the button cannot be
\* pressed: it is disabled, or gone from the terminal.
RunsWithCall(f, k) ==
    /\ k.pc = "none" <=> k.op = "none"
    /\ f.mounted => /\ f.running <=> k.pc # "none"
                    /\ k.pc # "none" => k.op \in Calls[f.kind]
                    /\ f.running => f.disabled \/ ~f.shown
                    /\ f.running => f.disabled \/ f.kind = "Tool"

\* The data of the earlier step are those that the handler of the answer expects.
DataFits(f, k) ==
    f.mounted /\ f.kind # "Tool" =>
        /\ k.op = "login_start" /\ f.kind = "Change" =>
              f.data.kind = "Login" /\ f.data.password = f.submitted.old
        /\ k.op = "register_start" => f.data.kind = "Registration"

\* What the history knows: the present password of the form's user, and the one
\* that the answer to a start of a login was made from.
PasswordsNoted(f, k, d, files) ==
    f.mounted =>
        /\ d # {} => files[f.user].password \in d \cup {NoPassword}
        /\ k.op = "login_start" =>
              /\ k.user = f.user /\ d # {}
              /\ k.pc = "ok" => k.reply.file.password \in d \cup {NoPassword}
              /\ f.kind = "Login" => k.password \in Password

\* A login is finished, and a password changed, with a password of the history.
LoginProved(k, d) == k.op = "login_finish" => k.password \in d \cap Password
ChangeProved(f, k, d) ==
    f.mounted /\ f.kind = "Change" /\ k.op \in {"register_start", "register_finish"} =>
        f.submitted.old \in d

ClientInv(f, k, d, files) ==
    /\ ~f.panicked
    /\ RunsWithCall(f, k)
    /\ DataFits(f, k)
    /\ PasswordsNoted(f, k, d, files)
    /\ LoginProved(k, d)
    /\ ChangeProved(f, k, d)

IInv == Types /\ \A c \in Client : ClientInv(form[c], call[c], during[c], file)

-----------------------------------------------------------------------------

USE OpaqueAssumption, FormsAssumption

\* A step that concerns the client c only.
Only(c) ==
    /\ form' = [form EXCEPT ![c] = form'[c]]
    /\ call' = [call EXCEPT ![c] = call'[c]]
    /\ during' = [during EXCEPT ![c] = during'[c]]
    /\ UNCHANGED server

\* It keeps the invariant if it does so for that client.
LEMMA OneClient ==
  ASSUME IInv, NEW c \in Client, Only(c),
         form'[c] \in Form, call'[c] \in Call, during'[c] \in SUBSET AnyPassword,
         ClientInv(form'[c], call'[c], during'[c], file)
  PROVE  IInv'
<1>1. Types'
  BY DEF IInv, Types, Only, server
<1>2. ASSUME NEW x \in Client
      PROVE  ClientInv(form'[x], call'[x], during'[x], file)
  <2>1. CASE x = c
    BY <2>1
  <2>2. CASE x # c
    <3>1. form'[x] = form[x] /\ call'[x] = call[x] /\ during'[x] = during[x]
      BY <2>2 DEF IInv, Types, Only
    <3> QED
      BY <3>1 DEF IInv
  <2> QED
    BY <2>1, <2>2
<1>3. file' = file
  BY DEF Only, server
<1> QED
  BY <1>1, <1>2, <1>3 DEF IInv

\* The constants of the module have their types.
LEMMA ConstantTypes ==
  /\ NoFile \in File
  /\ NoCall \in Call /\ NoCall.reply \in Answer /\ NoCall.pc = "none" /\ NoCall.op = "none"
  /\ NoData \in Data /\ NoData.kind = "None"
  /\ Unmounted \in Form /\ ~Unmounted.mounted /\ ~Unmounted.panicked /\ ~Unmounted.running
<1>1. /\ (CHOOSE u \in User : TRUE) \in User
      /\ (CHOOSE fs \in Fields : TRUE) \in Fields
  OBVIOUS
<1>2. NoFile \in File
  BY DEF NoFile, File, AnyPassword
<1>3. NoCall \in Call /\ NoCall.reply \in Answer /\ NoCall.pc = "none" /\ NoCall.op = "none"
  BY <1>1, <1>2 DEF NoCall, Call, Answer, Operations, AnyPassword
<1>4. NoData \in Data /\ NoData.kind = "None"
  BY DEF NoData, Data, AnyPassword
<1>5. Unmounted \in Form /\ ~Unmounted.mounted /\ ~Unmounted.panicked /\ ~Unmounted.running
  BY <1>1, <1>4 DEF Unmounted, Fresh, Form, Kinds
<1> QED
  BY <1>2, <1>3, <1>4, <1>5

\* A form that differs in what it shows and whether it waits.
Same(g, f) ==
    /\ g \in Form
    /\ g.kind = f.kind /\ g.user = f.user
    /\ g.fields = f.fields /\ g.submitted = f.submitted /\ g.data = f.data
    /\ g.mounted <=> f.mounted
    /\ g.panicked <=> f.panicked

LEMMA RenderFacts ==
  ASSUME NEW f \in Form
  PROVE  /\ Same(Render(f), f)
         /\ Render(f).shown <=> f.shown
         /\ Render(f).running <=> f.running
         /\ Render(f).disabled <=> f.running
  BY DEF Same, Render, Form

LEMMA RunningFacts ==
  ASSUME NEW f \in Form, NEW b \in BOOLEAN
  PROVE  LET g == [f EXCEPT !.running = b]
         IN  /\ Same(g, f)
             /\ g.running <=> b
             /\ g.shown <=> f.shown
             /\ g.disabled <=> f.disabled
  BY DEF Same, Form

LEMMA ShownFacts ==
  ASSUME NEW f \in Form, NEW b \in BOOLEAN
  PROVE  LET g == [f EXCEPT !.shown = b]
         IN  /\ Same(g, f)
             /\ g.shown <=> b
             /\ g.running <=> f.running
             /\ g.disabled <=> f.disabled
  BY DEF Same, Form

LEMMA DataFacts ==
  ASSUME NEW f \in Form, NEW x \in Data
  PROVE  LET g == [f EXCEPT !.data = x]
         IN  /\ g \in Form
             /\ g.kind = f.kind /\ g.user = f.user /\ g.data = x
             /\ g.fields = f.fields /\ g.submitted = f.submitted
             /\ g.mounted <=> f.mounted
             /\ g.panicked <=> f.panicked
             /\ g.shown <=> f.shown
             /\ g.running <=> f.running
             /\ g.disabled <=> f.disabled
  BY DEF Form

LEMMA FieldsFacts ==
  ASSUME NEW f \in Form, NEW fs \in Fields
  PROVE  LET g == [f EXCEPT !.fields = fs]
             h == [f EXCEPT !.submitted = fs]
         IN  /\ g \in Form /\ h \in Form
             /\ g.kind = f.kind /\ g.user = f.user /\ g.data = f.data
             /\ h.kind = f.kind /\ h.user = f.user /\ h.data = f.data
             /\ g.fields = fs /\ g.submitted = f.submitted
             /\ h.fields = f.fields /\ h.submitted = fs
             /\ g.mounted <=> f.mounted
             /\ h.mounted <=> f.mounted
             /\ g.panicked <=> f.panicked
             /\ h.panicked <=> f.panicked
             /\ g.shown <=> f.shown
             /\ h.shown <=> f.shown
             /\ g.running <=> f.running
             /\ h.running <=> f.running
             /\ g.disabled <=> f.disabled
             /\ h.disabled <=> f.disabled
  BY DEF Form

\* What stands in the fields of a record of each type.
LEMMA FieldTypes ==
  /\ \A f \in Form : /\ f.kind \in Kinds /\ f.user \in User /\ f.data \in Data
                     /\ f.fields \in Fields /\ f.fields.old \in Password
                     /\ f.fields.password \in Password
                     /\ f.submitted \in Fields /\ f.submitted.old \in Password
  /\ \A p \in Password : /\ [kind |-> "Registration", password |-> p] \in Data
                         /\ [kind |-> "Login", password |-> p] \in Data
  /\ \A x \in Data : x.password \in AnyPassword
  /\ \A k \in Call : k.user \in User /\ k.password \in AnyPassword /\ k.reply \in Answer
  BY DEF Form, Data, AnyPassword, Call

\* A call that the handler of the client c makes from the form f.
Called(c, f, op, u, p, r) ==
    /\ form' = [form EXCEPT ![c] = form'[c]] /\ call' = [call EXCEPT ![c] = call'[c]]
    /\ Same(form'[c], f) /\ form'[c].running
    /\ form'[c].shown <=> f.shown
    /\ call'[c] \in Call
    /\ call'[c].pc = "sent" /\ call'[c].op = op /\ call'[c].user = u /\ call'[c].password = p
    /\ call'[c].reply = r

LEMMA CallBackendFacts ==
  ASSUME Types, NEW c \in Client, NEW f \in Form, ~f.running,
         NEW op \in Operations, NEW u \in User, NEW p \in AnyPassword, NEW r \in Answer,
         CallBackend(c, f, op, u, p, r)
  PROVE  Called(c, f, op, u, p, r) /\ (form'[c].disabled <=> f.disabled)
<1> DEFINE k == [pc |-> "sent", op |-> op, user |-> u, password |-> p, reply |-> r]
           g == [f EXCEPT !.running = TRUE]
<1>1. form' = [form EXCEPT ![c] = g] /\ call' = [call EXCEPT ![c] = k]
  BY DEF CallBackend, Become
<1>2. form'[c] = g /\ call'[c] = k
  BY <1>1 DEF Types
<1>3. k \in Call
  BY DEF Call
<1>4. form' = [form EXCEPT ![c] = form'[c]] /\ call' = [call EXCEPT ![c] = call'[c]]
  BY <1>1, <1>2
<1>5. /\ Same(form'[c], f) /\ form'[c].running
      /\ form'[c].shown <=> f.shown
      /\ form'[c].disabled <=> f.disabled
  <2>1. /\ Same(g, f) /\ g.running
        /\ g.shown <=> f.shown
        /\ g.disabled <=> f.disabled
    BY RunningFacts
  <2> HIDE DEF g
  <2> QED
    BY <1>2, <2>1, Zenon
<1>6. /\ call'[c].pc = "sent" /\ call'[c].op = op /\ call'[c].user = u
      /\ call'[c].password = p /\ call'[c].reply = r
  BY <1>2
<1> QED
  BY <1>2, <1>3, <1>4, <1>5, <1>6, Zenon DEF Called

LEMMA CallAndRenderFacts ==
  ASSUME Types, NEW c \in Client, NEW f \in Form, ~f.running,
         NEW op \in Operations, NEW u \in User, NEW p \in AnyPassword,
         CallAndRender(c, f, op, u, p)
  PROVE  Called(c, f, op, u, p, NoCall.reply) /\ form'[c].disabled
<1> DEFINE k == [pc |-> "sent", op |-> op, user |-> u, password |-> p, reply |-> NoCall.reply]
           g == [f EXCEPT !.running = TRUE]
<1>1. form' = [form EXCEPT ![c] = Render(g)] /\ call' = [call EXCEPT ![c] = k]
  BY DEF CallAndRender, Become
<1>2. form'[c] = Render(g) /\ call'[c] = k
  BY <1>1 DEF Types
<1>3. k \in Call
  BY ConstantTypes DEF Call
<1>4. /\ Same(g, f) /\ g.running
      /\ g.shown <=> f.shown
  BY RunningFacts
<1>5. /\ Same(Render(g), g)
      /\ Render(g).running /\ Render(g).disabled
      /\ Render(g).shown <=> g.shown
  <2> HIDE DEF g
  <2> QED
    BY <1>4, RenderFacts DEF Same
<1>6. Same(Render(g), f) /\ (Render(g).shown <=> f.shown)
  <2> HIDE DEF g
  <2> QED
    BY <1>4, <1>5 DEF Same
<1>7. form' = [form EXCEPT ![c] = form'[c]] /\ call' = [call EXCEPT ![c] = call'[c]]
  BY <1>1, <1>2
<1>8. /\ call'[c].pc = "sent" /\ call'[c].op = op /\ call'[c].user = u
      /\ call'[c].password = p /\ call'[c].reply = NoCall.reply
  BY <1>2
<1> QED
  BY <1>2, <1>3, <1>5, <1>6, <1>7, <1>8, Zenon DEF Called

\* The handler of the client c ends with an error, without a call.
LEMMA FailsFacts ==
  ASSUME Types, NEW c \in Client, NEW f \in Form, ~f.running, Fails(c, f)
  PROVE  /\ form' = [form EXCEPT ![c] = form'[c]] /\ Same(form'[c], f)
         /\ ~form'[c].running /\ ~form'[c].disabled
<1>1. form' = [form EXCEPT ![c] = Render(f)]
  BY DEF Fails, Become
<1>2. form'[c] = Render(f)
  BY <1>1 DEF Types
<1>3. form' = [form EXCEPT ![c] = form'[c]]
  BY <1>1, <1>2
<1>4. Same(Render(f), f) /\ ~Render(f).running /\ ~Render(f).disabled
  BY RenderFacts
<1> QED
  BY <1>2, <1>3, <1>4, Zenon

\* The call of the client c is over.
LEMMA EndCallFacts ==
  ASSUME Types, NEW c \in Client, EndCall(c)
  PROVE  /\ call' = [call EXCEPT ![c] = call'[c]]
         /\ call'[c] \in Call /\ call'[c].pc = "none" /\ call'[c].op = "none"
         /\ during' = [during EXCEPT ![c] = during'[c]] /\ during'[c] = {}
  BY ConstantTypes DEF Types, EndCall

LEMMA LeavesFacts ==
  ASSUME Types, NEW c \in Client, Leaves(c)
  PROVE  /\ form' = [form EXCEPT ![c] = form'[c]]
         /\ form'[c] \in Form /\ ~form'[c].mounted /\ ~form'[c].panicked
  BY ConstantTypes DEF Types, Leaves, Become

\* The form of an answered call.
LEMMA EndedFacts ==
  ASSUME Types, NEW c \in Client
  PROVE  /\ Same(Ended(c), form[c]) /\ ~Ended(c).running
         /\ Ended(c).shown <=> form[c].shown
         /\ Ended(c).disabled <=> form[c].disabled
<1>1. form[c] \in Form
  BY DEF Types
<1> QED
  BY <1>1, RunningFacts, Zenon DEF Ended

-----------------------------------------------------------------------------
\* What the invariant says of one client.
LEMMA Here ==
  ASSUME IInv, NEW c \in Client
  PROVE  /\ Types
         /\ form[c] \in Form /\ call[c] \in Call /\ during[c] \in SUBSET AnyPassword
         /\ ClientInv(form[c], call[c], during[c], file)
  BY DEF IInv, Types

\* A handler that ends the call of the client and does not panic keeps the
\* invariant.
LEMMA EndsCall ==
  ASSUME IInv, NEW c \in Client, EndCall(c), UNCHANGED server,
         form' = [form EXCEPT ![c] = form'[c]], form'[c] \in Form,
         ~form'[c].panicked, form'[c].mounted => ~form'[c].running
  PROVE  IInv'
<1>1. /\ call' = [call EXCEPT ![c] = call'[c]]
      /\ call'[c] \in Call /\ call'[c].pc = "none" /\ call'[c].op = "none"
      /\ during' = [during EXCEPT ![c] = during'[c]] /\ during'[c] = {}
  BY EndCallFacts, Here
<1>2. Only(c)
  BY <1>1 DEF Only
<1>3. ClientInv(form'[c], call'[c], during'[c], file)
  BY <1>1 DEF ClientInv, RunsWithCall, DataFits, PasswordsNoted, LoginProved, ChangeProved
<1> QED
  BY <1>1, <1>2, <1>3, OneClient

\* The handlers that end the call whatever the answer is.
LEMMA EndingSteps ==
  ASSUME IInv, NEW c \in Client,
         \/ Dropped(c) \/ AuthenticationRefreshResponse(c) \/ LoginFinishResponse(c)
         \/ ValidateTokenResponse(c) \/ RegistrationFinishResponse(c) \/ ErrorResponse(c)
         \/ ToolFails(c)
  PROVE  IInv'
<1>1. /\ Types /\ form[c] \in Form /\ ~form[c].panicked
  BY Here DEF ClientInv
<1>2. ASSUME EndCall(c), UNCHANGED server, Leaves(c)
      PROVE  IInv'
  BY <1>1, <1>2, LeavesFacts, EndsCall
<1>3. /\ Ended(c) \in Form /\ ~Ended(c).panicked /\ ~Ended(c).running
  BY <1>1, EndedFacts DEF Same
<1>4. ASSUME EndCall(c), UNCHANGED server, Become(c, Render([Ended(c) EXCEPT !.shown = TRUE]))
      PROVE  IInv'
  <2> DEFINE g == [Ended(c) EXCEPT !.shown = TRUE]
  <2>1. g \in Form /\ ~g.panicked /\ ~g.running
    <3>1. Same(g, Ended(c)) /\ (g.running <=> Ended(c).running)
      BY <1>3, ShownFacts
    <3> HIDE DEF g
    <3> QED
      BY <1>3, <3>1 DEF Same
  <2> HIDE DEF g
  <2>2. Become(c, Render(g))
    BY <1>4 DEF g
  <2>3. Render(g) \in Form /\ ~Render(g).panicked /\ ~Render(g).running
    BY <2>1, RenderFacts DEF Same
  <2>4. form'[c] = Render(g)
    BY <1>1, <2>2 DEF Types, Become
  <2>5. form' = [form EXCEPT ![c] = form'[c]]
    BY <2>2, <2>4 DEF Become
  <2>6. form'[c] \in Form /\ ~form'[c].panicked /\ ~form'[c].running
    BY <2>3, <2>4, Zenon
  <2> QED
    BY <1>4, <2>5, <2>6, EndsCall
<1>5. CASE Dropped(c)
  <2>1. EndCall(c) /\ UNCHANGED server /\ form' = form /\ ~form[c].mounted
    BY <1>5 DEF Dropped
  <2>2. form' = [form EXCEPT ![c] = form'[c]]
    BY <1>1, <2>1 DEF Types
  <2> QED
    BY <1>1, <2>1, <2>2, EndsCall
<1>6. CASE ErrorResponse(c)
  <2>1. EndCall(c) /\ UNCHANGED server /\ Fails(c, Ended(c))
    BY <1>6 DEF ErrorResponse
  <2> QED
    BY <1>1, <1>3, <2>1, FailsFacts, EndsCall DEF Same
<1>7. CASE AuthenticationRefreshResponse(c)
  BY <1>2, <1>4, <1>7 DEF AuthenticationRefreshResponse
<1>8. CASE ValidateTokenResponse(c)
  BY <1>4, <1>8 DEF ValidateTokenResponse
<1>9. CASE LoginFinishResponse(c) \/ RegistrationFinishResponse(c) \/ ToolFails(c)
  BY <1>2, <1>9 DEF LoginFinishResponse, RegistrationFinishResponse, ToolFails
<1> QED
  BY <1>5, <1>6, <1>7, <1>8, <1>9

\* A handler that calls the server keeps the invariant if the call is one for the
\* form, and what it sends is covered by the data and the history.
LEMMA CallsOn ==
  ASSUME IInv, NEW c \in Client, NEW f \in Form, NEW op \in Operations \ {"none"}, NEW u, NEW p, NEW r,
         Called(c, f, op, u, p, r), UNCHANGED server,
         during' = [during EXCEPT ![c] = during'[c]], during'[c] \in SUBSET AnyPassword,
         ~f.panicked, op \in Calls[f.kind],
         form'[c].disabled \/ (~f.shown /\ f.kind = "Tool"),
         f.kind = "Change" /\ op = "login_start" =>
            f.data.kind = "Login" /\ f.data.password = f.submitted.old,
         f.kind # "Tool" /\ op = "register_start" => f.data.kind = "Registration",
         during'[c] # {} => file[f.user].password \in during'[c] \cup {NoPassword},
         op = "login_start" => u = f.user /\ during'[c] # {} /\ p \in Password,
         op = "login_finish" => p \in during'[c] \cap Password,
         f.kind = "Change" /\ op \in {"register_start", "register_finish"} =>
            f.submitted.old \in during'[c]
  PROVE  IInv'
<1>1. Only(c) /\ form'[c] \in Form /\ call'[c] \in Call
  BY DEF Only, Called, Same
<1> DEFINE g == form'[c]
           k == call'[c]
           d == during'[c]
<1>2. /\ g.kind = f.kind /\ g.user = f.user /\ g.submitted = f.submitted /\ g.data = f.data
      /\ ~g.panicked /\ g.running
      /\ g.disabled \/ (~g.shown /\ g.kind = "Tool")
      /\ k.pc = "sent" /\ k.op = op /\ k.user = u /\ k.password = p
  BY DEF Called, Same
<1> HIDE DEF g, k, d
<1>3. RunsWithCall(g, k)
  BY <1>2 DEF RunsWithCall
<1>4. DataFits(g, k)
  BY <1>2 DEF DataFits
<1>5. PasswordsNoted(g, k, d, file)
  BY <1>2 DEF PasswordsNoted, d
<1>6. LoginProved(k, d) /\ ChangeProved(g, k, d)
  BY <1>2 DEF LoginProved, ChangeProved, d
<1>7. ClientInv(g, k, d, file)
  BY <1>2, <1>3, <1>4, <1>5, <1>6 DEF ClientInv
<1> QED
  BY <1>1, <1>7, OneClient DEF g, k, d

\* A running task has a call, and the other way round.
LEMMA MountedFacts ==
  ASSUME IInv, NEW c \in Client, form[c].mounted
  PROVE  /\ form[c].running <=> call[c].pc # "none"
         /\ call[c].pc = "none" <=> call[c].op = "none"
         /\ call[c].pc # "none" => call[c].op \in Calls[form[c].kind]
         /\ form[c].running => form[c].disabled \/ (~form[c].shown /\ form[c].kind = "Tool")
  BY Here DEF ClientInv, RunsWithCall

\* The server's answer to the start of a login was made from a password of the
\* history, so a password that it proves is one.
LEMMA ProvedFacts ==
  ASSUME IInv, NEW c \in Client, form[c].mounted, Answered(c, "login_start", "ok"),
         NEW p \in Password, Proves(p, call[c].reply)
  PROVE  p \in during[c]
  BY Here DEF ClientInv, PasswordsNoted, Proves, Answered

LEMMA LoginStartResponseKeeps ==
  ASSUME IInv, NEW c \in Client, LoginStartResponse(c)
  PROVE  IInv'
<1>1. /\ Types /\ form[c] \in Form /\ call[c] \in Call /\ ~form[c].panicked
      /\ during[c] \in SUBSET AnyPassword
      /\ ClientInv(form[c], call[c], during[c], file)
  BY Here DEF ClientInv
<1>2. /\ Ended(c) \in Form /\ Same(Ended(c), form[c]) /\ ~Ended(c).running
      /\ Ended(c).shown <=> form[c].shown
      /\ Ended(c).disabled <=> form[c].disabled
  BY <1>1, EndedFacts DEF Same
<1>3. /\ form[c].kind = "Login" /\ form[c].mounted /\ call[c].op = "login_start"
      /\ call[c].pc = "ok" /\ UNCHANGED server
  BY DEF LoginStartResponse, Answered
<1>4. CASE Proves(call[c].password, call[c].reply)
  <2>1. CallBackend(c, Ended(c), "login_finish", call[c].user, call[c].password, call[c].reply)
    BY <1>4 DEF LoginStartResponse
  <2>2. during' = during
    BY <1>4 DEF LoginStartResponse
  <2>3. /\ call[c].user \in User /\ call[c].password \in AnyPassword /\ call[c].reply \in Answer
    BY <1>1, FieldTypes
  <2>4. /\ Called(c, Ended(c), "login_finish", call[c].user, call[c].password, call[c].reply)
        /\ form'[c].disabled <=> Ended(c).disabled
    BY <1>1, <1>2, <2>1, <2>3, CallBackendFacts DEF Operations
  <2>5. call[c].password \in Password
    BY <1>1, <1>3 DEF ClientInv, PasswordsNoted
  <2>6. call[c].password \in during[c]
    BY <1>3, <1>4, <2>5, ProvedFacts DEF Answered
  <2>7. form[c].disabled
    BY <1>3, MountedFacts
  <2>8. during' = [during EXCEPT ![c] = during'[c]]
    BY <1>1, <2>2 DEF Types
  <2>9. file[form[c].user].password \in during[c] \cup {NoPassword}
    BY <1>1, <1>3, <2>6 DEF ClientInv, PasswordsNoted
  <2>10. /\ Ended(c).kind = "Login" /\ Ended(c).user = form[c].user /\ ~Ended(c).panicked
    BY <1>1, <1>2, <1>3 DEF Same
  <2>11. "login_finish" \in Operations \ {"none"} /\ "login_finish" \in Calls["Login"]
    BY DEF Operations, Calls
  <2> QED
    BY <1>1, <1>2, <1>3, <2>2, <2>4, <2>5, <2>6, <2>7, <2>8, <2>9, <2>10, <2>11, CallsOn
<1>5. CASE ~Proves(call[c].password, call[c].reply)
  <2>1. Become(c, Render(Ended(c))) /\ EndCall(c)
    BY <1>5 DEF LoginStartResponse
  <2>2. Fails(c, Ended(c))
    BY <1>2, <2>1 DEF Fails
  <2> QED
    BY <1>1, <1>2, <1>3, <2>1, <2>2, FailsFacts, EndsCall DEF Same
<1> QED
  BY <1>4, <1>5

\* SubmitNewPassword keeps the invariant, from a form in which the old password
\* is covered if it must be.
LEMMA SubmitsNewPassword ==
  ASSUME IInv, NEW c \in Client, NEW f \in Form, ~f.running, ~f.panicked,
         f.kind \in {"Change", "AdminChange", "Reset"}, SubmitNewPassword(c, f), UNCHANGED server,
         during' = [during EXCEPT ![c] = during'[c]], during'[c] \in SUBSET AnyPassword,
         during'[c] # {} => file[f.user].password \in during'[c] \cup {NoPassword},
         f.kind = "Change" => f.submitted.old \in during'[c]
  PROVE  IInv'
<1> DEFINE x == [kind |-> "Registration", password |-> f.fields.password]
           g == [f EXCEPT !.data = x]
<1>1. Types /\ x \in Data /\ f.user \in User /\ f.fields.password \in Password
  BY Here, FieldTypes
<1>2. /\ g \in Form /\ g.kind = f.kind /\ g.user = f.user /\ g.submitted = f.submitted
      /\ g.data = x /\ ~g.panicked /\ ~g.running
  <2> HIDE DEF x
  <2> QED
    BY <1>1, DataFacts
<1>3. CallAndRender(c, g, "register_start", f.user, f.fields.password)
  BY DEF SubmitNewPassword
<1>4. x.kind = "Registration"
  OBVIOUS
<1> HIDE DEF x, g
<1>5. /\ Called(c, g, "register_start", f.user, f.fields.password, NoCall.reply)
      /\ form'[c].disabled
  BY <1>1, <1>2, <1>3, CallAndRenderFacts DEF Operations, AnyPassword
<1>6. "register_start" \in Operations \ {"none"} /\ "register_start" \in Calls[f.kind]
  BY DEF Operations, Calls
<1> QED
  BY <1>2, <1>4, <1>5, <1>6, CallsOn

LEMMA ChangeLoginStartedKeeps ==
  ASSUME IInv, NEW c \in Client, ChangeLoginStarted(c)
  PROVE  IInv'
<1> DEFINE f == [Ended(c) EXCEPT !.data = NoData]
<1>1. /\ Types /\ form[c] \in Form /\ ~form[c].panicked
      /\ ClientInv(form[c], call[c], during[c], file)
  BY Here DEF ClientInv
<1>2. /\ form[c].kind = "Change" /\ form[c].mounted /\ call[c].op = "login_start"
      /\ call[c].pc = "ok" /\ UNCHANGED server
  BY DEF ChangeLoginStarted, Answered
<1>3. form[c].data.kind = "Login" /\ form[c].data.password = form[c].submitted.old
  BY <1>1, <1>2 DEF ClientInv, DataFits
<1>4. /\ Ended(c) \in Form /\ Same(Ended(c), form[c]) /\ ~Ended(c).running
  BY <1>1, EndedFacts DEF Same
<1>5. /\ f \in Form /\ f.kind = "Change" /\ f.user = form[c].user
      /\ f.submitted = form[c].submitted /\ ~f.panicked /\ ~f.running
  BY <1>1, <1>2, <1>4, ConstantTypes, DataFacts DEF Same
<1>6. \/ Fails(c, f) /\ EndCall(c)
      \/ /\ Proves(form[c].data.password, call[c].reply)
         /\ SubmitNewPassword(c, f) /\ UNCHANGED during
  BY <1>3 DEF ChangeLoginStarted
<1> HIDE DEF f
<1>7. CASE Fails(c, f) /\ EndCall(c)
  BY <1>1, <1>2, <1>5, <1>7, FailsFacts, EndsCall DEF Same
<1>8. CASE /\ Proves(form[c].data.password, call[c].reply)
           /\ SubmitNewPassword(c, f) /\ UNCHANGED during
  <2>1. form[c].submitted.old \in during[c]
    BY <1>1, <1>2, <1>3, <1>8, ProvedFacts, FieldTypes DEF Answered
  <2>2. file[form[c].user].password \in during[c] \cup {NoPassword}
    BY <1>1, <1>2, <2>1 DEF ClientInv, PasswordsNoted
  <2>3. during' = [during EXCEPT ![c] = during'[c]] /\ during'[c] \in SUBSET AnyPassword
    BY <1>1, <1>8 DEF Types
  <2> QED
    BY <1>2, <1>5, <1>8, <2>1, <2>2, <2>3, SubmitsNewPassword
<1> QED
  BY <1>6, <1>7, <1>8

LEMMA RegistrationStartResponseKeeps ==
  ASSUME IInv, NEW c \in Client, RegistrationStartResponse(c)
  PROVE  IInv'
<1> DEFINE f == [Ended(c) EXCEPT !.data = NoData]
<1>1. /\ Types /\ form[c] \in Form /\ call[c] \in Call /\ ~form[c].panicked
      /\ ClientInv(form[c], call[c], during[c], file)
  BY Here DEF ClientInv
<1>2. /\ form[c].kind \in {"Change", "AdminChange", "Reset"} /\ form[c].mounted
      /\ call[c].op = "register_start" /\ call[c].pc = "ok" /\ UNCHANGED server
  BY DEF RegistrationStartResponse, Answered
<1>3. form[c].data.kind = "Registration"
  BY <1>1, <1>2 DEF ClientInv, DataFits
<1>4. /\ Ended(c) \in Form /\ Same(Ended(c), form[c]) /\ ~Ended(c).running
      /\ Ended(c).disabled <=> form[c].disabled
  BY <1>1, EndedFacts DEF Same
<1>5. /\ f \in Form /\ f.kind = form[c].kind /\ f.user = form[c].user
      /\ f.submitted = form[c].submitted /\ ~f.panicked /\ ~f.running
      /\ f.disabled <=> form[c].disabled
  BY <1>1, <1>4, ConstantTypes, DataFacts DEF Same
<1>6. /\ CallBackend(c, f, "register_finish", call[c].user, form[c].data.password, call[c].reply)
      /\ during' = during
  BY <1>3 DEF RegistrationStartResponse
<1> HIDE DEF f
<1>7. /\ Called(c, f, "register_finish", call[c].user, form[c].data.password, call[c].reply)
      /\ form'[c].disabled <=> f.disabled
  BY <1>1, <1>5, <1>6, FieldTypes, CallBackendFacts DEF Operations
<1>8. form[c].disabled
  BY <1>2, MountedFacts
<1>9. during' = [during EXCEPT ![c] = during'[c]] /\ during'[c] \in SUBSET AnyPassword
  BY <1>1, <1>6 DEF Types
<1>10. /\ during[c] # {} => file[form[c].user].password \in during[c] \cup {NoPassword}
       /\ form[c].kind = "Change" => form[c].submitted.old \in during[c]
  BY <1>1, <1>2 DEF ClientInv, PasswordsNoted, ChangeProved
<1>11. "register_finish" \in Operations \ {"none"} /\ "register_finish" \in Calls[form[c].kind]
  BY <1>2 DEF Operations, Calls
<1> QED
  BY <1>2, <1>5, <1>6, <1>7, <1>8, <1>9, <1>10, <1>11, CallsOn

\* The tool has no button while it waits.
LEMMA ToolContinuesKeeps ==
  ASSUME IInv, NEW c \in Client, ToolContinues(c)
  PROVE  IInv'
<1>1. /\ Types /\ form[c] \in Form /\ call[c] \in Call /\ ~form[c].panicked
      /\ ClientInv(form[c], call[c], during[c], file)
  BY Here DEF ClientInv
<1>2. /\ form[c].kind = "Tool" /\ form[c].mounted /\ call[c].pc = "ok" /\ UNCHANGED server
  BY DEF ToolContinues
<1>3. /\ Ended(c) \in Form /\ Same(Ended(c), form[c]) /\ ~Ended(c).running
      /\ Ended(c).shown <=> form[c].shown
      /\ Ended(c).disabled <=> form[c].disabled
  BY <1>1, EndedFacts DEF Same
<1>4. /\ Ended(c).kind = "Tool" /\ Ended(c).user = form[c].user /\ ~Ended(c).panicked
      /\ Ended(c).disabled \/ ~Ended(c).shown
  BY <1>1, <1>2, <1>3, MountedFacts DEF Same
<1>5. /\ form[c].user \in User /\ form[c].fields.password \in AnyPassword
      /\ call[c].password \in AnyPassword /\ call[c].reply \in Answer /\ NoCall.reply \in Answer
  BY <1>1, FieldTypes, ConstantTypes DEF AnyPassword
<1>6. ASSUME NEW op \in {"register_start", "register_finish"}, NEW p \in AnyPassword,
             NEW r \in Answer, CallBackend(c, Ended(c), op, form[c].user, p, r), UNCHANGED during
      PROVE  IInv'
  <2>1. /\ Called(c, Ended(c), op, form[c].user, p, r)
        /\ form'[c].disabled <=> Ended(c).disabled
    BY <1>1, <1>3, <1>5, <1>6, CallBackendFacts DEF Operations
  <2>2. during' = [during EXCEPT ![c] = during'[c]] /\ during'[c] \in SUBSET AnyPassword
    BY <1>1, <1>6 DEF Types
  <2>3. during'[c] # {} => file[form[c].user].password \in during'[c] \cup {NoPassword}
    BY <1>1, <1>2, <1>6 DEF ClientInv, PasswordsNoted
  <2>4. op \in Operations \ {"none"} /\ op \in Calls["Tool"]
    BY DEF Operations, Calls
  <2> QED
    BY <1>2, <1>3, <1>4, <2>1, <2>2, <2>3, <2>4, CallsOn
<1>7. \/ CallBackend(c, Ended(c), "register_start", form[c].user, form[c].fields.password,
                     NoCall.reply) /\ UNCHANGED during
      \/ CallBackend(c, Ended(c), "register_finish", form[c].user, call[c].password,
                     call[c].reply) /\ UNCHANGED during
      \/ Leaves(c) /\ EndCall(c)
  BY DEF ToolContinues
<1>8. CASE Leaves(c) /\ EndCall(c)
  BY <1>1, <1>2, <1>8, LeavesFacts, EndsCall
<1> QED
  BY <1>5, <1>6, <1>7, <1>8

\* The button can be pressed only while there is no call.
LEMMA PressedFacts ==
  ASSUME IInv, NEW c \in Client, Pressed(c)
  PROVE  /\ UNCHANGED server /\ form[c].mounted
         /\ call[c].pc = "none" /\ call[c].op = "none"
         /\ during' = [during EXCEPT ![c] = during'[c]] /\ during'[c] \in SUBSET AnyPassword
         /\ during'[c] = {file[form[c].user].password}
         /\ Submitted(c) \in Form
         /\ Submitted(c).kind = form[c].kind /\ Submitted(c).user = form[c].user
         /\ Submitted(c).fields = form[c].fields /\ Submitted(c).submitted = form[c].fields
         /\ ~Submitted(c).running /\ ~Submitted(c).panicked
<1>1. /\ Types /\ form[c] \in Form /\ ~form[c].panicked
  BY Here DEF ClientInv
<1>2. /\ UNCHANGED server /\ form[c].mounted /\ form[c].shown /\ ~form[c].disabled
      /\ during' = [during EXCEPT ![c] = {file[form[c].user].password}]
  BY DEF Pressed
<1>3. call[c].pc = "none" /\ call[c].op = "none" /\ ~form[c].running
  BY <1>2, MountedFacts
<1>4. during'[c] = {file[form[c].user].password}
  BY <1>1, <1>2 DEF Types
<1>5. /\ Submitted(c) \in Form
      /\ Submitted(c).kind = form[c].kind /\ Submitted(c).user = form[c].user
      /\ Submitted(c).fields = form[c].fields /\ Submitted(c).submitted = form[c].fields
      /\ Submitted(c).running <=> form[c].running
      /\ Submitted(c).panicked <=> form[c].panicked
  BY <1>1, FieldTypes, FieldsFacts DEF Submitted
<1>6. file[form[c].user].password \in AnyPassword
  BY <1>1, FieldTypes DEF Types, File
<1> QED
  BY <1>1, <1>2, <1>3, <1>4, <1>5, <1>6

\* A press that leads to no call keeps the invariant.
LEMMA PressedInVain ==
  ASSUME IInv, NEW c \in Client, Pressed(c), UNCHANGED call, Fails(c, Submitted(c)) \/ Leaves(c)
  PROVE  IInv'
<1>1. /\ Types /\ call[c] \in Call
  BY Here
<1>2. /\ UNCHANGED server /\ call[c].pc = "none" /\ call[c].op = "none"
      /\ during' = [during EXCEPT ![c] = during'[c]] /\ during'[c] \in SUBSET AnyPassword
      /\ during'[c] = {file[form[c].user].password}
      /\ Submitted(c) \in Form /\ Submitted(c).user = form[c].user
      /\ ~Submitted(c).running /\ ~Submitted(c).panicked
  BY PressedFacts
<1>3. /\ form' = [form EXCEPT ![c] = form'[c]] /\ form'[c] \in Form
      /\ ~form'[c].panicked
      /\ form'[c].mounted => form'[c].user = form[c].user /\ ~form'[c].running
  <2>1. CASE Fails(c, Submitted(c))
    BY <1>1, <1>2, <2>1, FailsFacts DEF Same
  <2>2. CASE Leaves(c)
    BY <1>1, <2>2, LeavesFacts
  <2> QED
    BY <2>1, <2>2
<1>4. call' = [call EXCEPT ![c] = call'[c]]
  BY <1>1 DEF Types
<1>5. Only(c)
  BY <1>2, <1>3, <1>4 DEF Only
<1>6. ClientInv(form'[c], call'[c], during'[c], file)
  BY <1>2, <1>3 DEF ClientInv, RunsWithCall, DataFits, PasswordsNoted, LoginProved, ChangeProved
<1> QED
  BY <1>1, <1>2, <1>3, <1>5, <1>6, OneClient

LEMMA LoginSubmitKeeps ==
  ASSUME IInv, NEW c \in Client, LoginSubmit(c)
  PROVE  IInv'
<1>1. Pressed(c) /\ form[c].kind = "Login"
  BY DEF LoginSubmit
<1>2. CASE Fails(c, Submitted(c)) /\ UNCHANGED call
  BY <1>1, <1>2, PressedInVain
<1> DEFINE p == form[c].fields.password
<1>3. CASE CallAndRender(c, Submitted(c), "login_start", form[c].user, p)
  <2>1. Types /\ form[c].user \in User /\ p \in Password
    BY Here, FieldTypes
  <2> HIDE DEF p
  <2>2. /\ Called(c, Submitted(c), "login_start", form[c].user, p, NoCall.reply)
        /\ form'[c].disabled
    BY <1>1, <1>3, <2>1, PressedFacts, CallAndRenderFacts DEF Operations, AnyPassword
  <2>3. "login_start" \in Operations \ {"none"} /\ "login_start" \in Calls["Login"]
    BY DEF Operations, Calls
  <2> QED
    BY <1>1, <2>1, <2>2, <2>3, PressedFacts, CallsOn
<1> QED
  BY <1>2, <1>3 DEF LoginSubmit

LEMMA ChangeSubmitKeeps ==
  ASSUME IInv, NEW c \in Client, ChangeSubmit(c)
  PROVE  IInv'
<1>1. Pressed(c) /\ form[c].kind \in {"Change", "AdminChange"}
  BY DEF ChangeSubmit
<1>2. CASE Fails(c, Submitted(c)) /\ UNCHANGED call
  BY <1>1, <1>2, PressedInVain
<1>3. CASE form[c].kind = "AdminChange" /\ SubmitNewPassword(c, Submitted(c))
  BY <1>1, <1>3, PressedFacts, SubmitsNewPassword
<1> DEFINE p == form[c].fields.old
           x == [kind |-> "Login", password |-> p]
           g == [Submitted(c) EXCEPT !.data = x]
<1>4. CASE form[c].kind = "Change" /\ CallAndRender(c, g, "login_start", form[c].user, p)
  <2>1. Types /\ form[c].user \in User /\ p \in Password /\ x \in Data
    BY Here, FieldTypes
  <2>2. x.kind = "Login" /\ x.password = p
    OBVIOUS
  <2> HIDE DEF x
  <2>3. /\ g \in Form /\ g.kind = "Change" /\ g.user = form[c].user /\ g.data = x
        /\ g.submitted = form[c].fields /\ ~g.running /\ ~g.panicked
    BY <1>1, <1>4, <2>1, PressedFacts, DataFacts
  <2>4. g.submitted.old = p
    BY <2>3
  <2> HIDE DEF g, p
  <2>5. /\ Called(c, g, "login_start", form[c].user, p, NoCall.reply)
        /\ form'[c].disabled
    BY <1>1, <1>4, <2>1, <2>3, CallAndRenderFacts DEF Operations, AnyPassword
  <2>6. "login_start" \in Operations \ {"none"} /\ "login_start" \in Calls["Change"]
    BY DEF Operations, Calls
  <2>7. g.data.kind = "Login" /\ g.data.password = g.submitted.old
    BY <2>2, <2>3, <2>4
  <2>8. /\ UNCHANGED server
        /\ during' = [during EXCEPT ![c] = during'[c]] /\ during'[c] \in SUBSET AnyPassword
        /\ during'[c] = {file[form[c].user].password}
    BY <1>1, PressedFacts
  <2> QED
    BY <2>1, <2>3, <2>5, <2>6, <2>7, <2>8, CallsOn
<1> QED
  BY <1>1, <1>2, <1>3, <1>4 DEF ChangeSubmit

LEMMA ResetSubmitKeeps ==
  ASSUME IInv, NEW c \in Client, ResetSubmit(c)
  PROVE  IInv'
<1>1. Pressed(c) /\ form[c].kind = "Reset"
  BY DEF ResetSubmit
<1>2. CASE Fails(c, Submitted(c)) /\ UNCHANGED call
  BY <1>1, <1>2, PressedInVain
<1>3. CASE SubmitNewPassword(c, Submitted(c))
  BY <1>1, <1>3, PressedFacts, SubmitsNewPassword
<1> QED
  BY <1>2, <1>3 DEF ResetSubmit

LEMMA ToolRunKeeps ==
  ASSUME IInv, NEW c \in Client, NEW admin \in User, NEW bypass, NEW credentials,
         ToolRun(c, admin, bypass, credentials)
  PROVE  IInv'
<1> DEFINE f == [Submitted(c) EXCEPT !.shown = FALSE]
<1>1. Pressed(c) /\ form[c].kind = "Tool"
  BY DEF ToolRun
<1>2. CASE Leaves(c) /\ UNCHANGED call
  BY <1>1, <1>2, PressedInVain
<1>3. /\ f \in Form /\ f.kind = "Tool" /\ f.user = form[c].user /\ f.fields = form[c].fields
      /\ ~f.running /\ ~f.panicked /\ ~f.shown
  <2>1. /\ Submitted(c) \in Form /\ Submitted(c).kind = "Tool"
        /\ Submitted(c).user = form[c].user /\ Submitted(c).fields = form[c].fields
        /\ ~Submitted(c).running /\ ~Submitted(c).panicked
    BY <1>1, PressedFacts
  <2>2. /\ Same(f, Submitted(c)) /\ ~f.shown
        /\ f.running <=> Submitted(c).running
    BY <2>1, ShownFacts
  <2> HIDE DEF f
  <2> QED
    BY <2>1, <2>2 DEF Same
<1>4. \/ Leaves(c) /\ UNCHANGED call
      \/ CallBackend(c, f, "register_start", f.user, f.fields.password, NoCall.reply)
      \/ CallBackend(c, f, "simple_login", admin, f.fields.old, NoCall.reply)
  BY DEF ToolRun
<1> HIDE DEF f
<1>5. Types /\ f.user \in User /\ f.fields.password \in AnyPassword /\ f.fields.old \in AnyPassword
  BY <1>3, Here, FieldTypes DEF AnyPassword
<1>6. ASSUME NEW op \in {"register_start", "simple_login"}, NEW u \in User, NEW p \in AnyPassword,
             CallBackend(c, f, op, u, p, NoCall.reply)
      PROVE  IInv'
  <2>1. Called(c, f, op, u, p, NoCall.reply)
    BY <1>3, <1>5, <1>6, ConstantTypes, CallBackendFacts DEF Operations
  <2>2. op \in Operations \ {"none"} /\ op \in Calls["Tool"]
    BY DEF Operations, Calls
  <2> QED
    BY <1>1, <1>3, <2>1, <2>2, PressedFacts, CallsOn
<1> QED
  BY <1>2, <1>4, <1>5, <1>6

\* A new form begins without a call, or with its first one.
LEMMA MountKeeps ==
  ASSUME IInv, NEW c \in Client, NEW kind \in Kinds, NEW u \in User, NEW fs \in Fields,
         Mount(c, kind, u, fs)
  PROVE  IInv'
<1> DEFINE f == Fresh(kind, u, fs)
<1>1. Types /\ call[c] \in Call
  BY Here
<1>2. /\ ~form[c].mounted /\ call[c] = NoCall /\ UNCHANGED server
      /\ during' = [during EXCEPT ![c] = {}]
  BY DEF Mount
<1>3. during' = [during EXCEPT ![c] = during'[c]] /\ during'[c] = {}
  BY <1>1, <1>2 DEF Types
<1>4. f \in Form /\ f.kind = kind /\ f.mounted /\ f.user = u /\ ~f.running /\ ~f.panicked
  BY ConstantTypes DEF Fresh, Form
<1>5. \/ kind = "Login" /\ CallAndRender(c, f, "refresh", u, NoPassword)
      \/ kind = "Reset" /\ CallAndRender(c, f, "validate", u, NoPassword)
      \/ Become(c, [f EXCEPT !.shown = TRUE]) /\ UNCHANGED call
  BY DEF Mount
<1> HIDE DEF f
<1>6. ASSUME NEW op \in {"refresh", "validate"}, op \in Calls[kind],
             CallAndRender(c, f, op, u, NoPassword)
      PROVE  IInv'
  <2>1. Called(c, f, op, u, NoPassword, NoCall.reply) /\ form'[c].disabled
    BY <1>1, <1>4, <1>6, CallAndRenderFacts DEF Operations, AnyPassword
  <2> QED
    BY <1>2, <1>3, <1>4, <1>6, <2>1, CallsOn DEF Operations
<1>7. CASE Become(c, [f EXCEPT !.shown = TRUE]) /\ UNCHANGED call
  <2> DEFINE g == [f EXCEPT !.shown = TRUE]
  <2>1. g \in Form /\ ~g.running /\ ~g.panicked
    BY <1>4, ShownFacts DEF Same
  <2>2. Become(c, g) /\ UNCHANGED call
    BY <1>7
  <2> HIDE DEF g
  <2>3. form'[c] = g
    BY <1>1, <2>2 DEF Become, Types
  <2>4. Only(c)
    BY <1>1, <1>2, <1>3, <2>2, <2>3 DEF Only, Become, Types
  <2>5. call'[c].pc = "none" /\ call'[c].op = "none"
    BY <1>2, <2>2, ConstantTypes
  <2>6. ClientInv(g, call'[c], {}, file)
    BY <2>1, <2>5 DEF ClientInv, RunsWithCall, DataFits, PasswordsNoted, LoginProved, ChangeProved
  <2> QED
    BY <1>1, <1>3, <2>1, <2>2, <2>3, <2>4, <2>6, OneClient
<1> QED
  BY <1>5, <1>6, <1>7 DEF Calls

LEMMA FormUpdateKeeps ==
  ASSUME IInv, NEW c \in Client, NEW fs \in Fields, FormUpdate(c, fs)
  PROVE  IInv'
<1> DEFINE f == form[c]
           g == [f EXCEPT !.fields = fs]
           h == Render(g)
<1>1. /\ Types /\ f \in Form /\ call[c] \in Call /\ during[c] \in SUBSET AnyPassword
      /\ ClientInv(f, call[c], during[c], file) /\ ~f.panicked
  BY Here DEF ClientInv
<1>2. Become(c, h) /\ UNCHANGED <<server, call, during>>
  BY DEF FormUpdate
<1>3. /\ g \in Form /\ g.kind = f.kind /\ g.user = f.user /\ g.data = f.data
      /\ g.submitted = f.submitted
      /\ g.mounted <=> f.mounted
      /\ g.panicked <=> f.panicked
      /\ g.running <=> f.running
  <2> HIDE DEF f
  <2> QED
    BY <1>1, FieldsFacts
<1> HIDE DEF g
<1>4. /\ h \in Form /\ h.kind = f.kind /\ h.user = f.user /\ h.data = f.data
      /\ h.submitted = f.submitted /\ ~h.panicked
      /\ h.mounted <=> f.mounted
      /\ h.running <=> f.running
      /\ h.disabled <=> f.running
  <2> HIDE DEF f
  <2> QED
    BY <1>1, <1>3, RenderFacts DEF Same
<1> HIDE DEF h
<1>5. form'[c] = h
  BY <1>1, <1>2 DEF Become, Types
<1>6. Only(c)
  BY <1>1, <1>2, <1>5 DEF Only, Become, Types
<1>7. ClientInv(h, call[c], during[c], file)
  <2> HIDE DEF f
  <2> QED
    BY <1>1, <1>4
    DEF ClientInv, RunsWithCall, DataFits, PasswordsNoted, LoginProved, ChangeProved
<1> QED
  BY <1>1, <1>2, <1>4, <1>5, <1>6, <1>7, OneClient

LEMMA UnmountKeeps ==
  ASSUME IInv, NEW c \in Client, Unmount(c)
  PROVE  IInv'
<1>1. /\ Types /\ call[c] \in Call /\ during[c] \in SUBSET AnyPassword
      /\ ClientInv(form[c], call[c], during[c], file)
  BY Here
<1>2. Leaves(c) /\ UNCHANGED <<server, call, during>>
  BY DEF Unmount
<1>3. /\ form' = [form EXCEPT ![c] = form'[c]]
      /\ form'[c] \in Form /\ ~form'[c].mounted /\ ~form'[c].panicked
  BY <1>1, <1>2, LeavesFacts
<1>4. Only(c)
  BY <1>1, <1>2, <1>3 DEF Only, Types
<1>5. ClientInv(form'[c], call[c], during[c], file)
  BY <1>1, <1>3 DEF ClientInv, RunsWithCall, DataFits, PasswordsNoted, LoginProved, ChangeProved
<1> QED
  BY <1>1, <1>2, <1>3, <1>4, <1>5, OneClient

-----------------------------------------------------------------------------

\* A call that has gone on, to an answer or to an error.
Advanced(k, h) ==
    /\ h \in Call
    /\ h.op = k.op /\ h.user = k.user /\ h.password = k.password
    /\ h.pc = "none" <=> k.pc = "none"

LEMMA AdvancedFacts ==
  ASSUME NEW k \in Call, k.pc # "none", NEW pc \in {"ok", "error"}, NEW r \in Answer
  PROVE  /\ Advanced(k, [k EXCEPT !.pc = pc]) /\ [k EXCEPT !.pc = pc].pc = pc
         /\ Advanced(k, [k EXCEPT !.pc = pc, !.reply = r])
         /\ [k EXCEPT !.pc = pc, !.reply = r].pc = pc
         /\ [k EXCEPT !.pc = pc, !.reply = r].reply = r
  BY DEF Call, Advanced

\* A call that goes on keeps the invariant of its client, if the answer to a
\* login's start is made from a password of the history.
LEMMA AdvancedKeeps ==
  ASSUME NEW f, NEW k, NEW h, NEW d, NEW files, ClientInv(f, k, d, files), Advanced(k, h),
         f.mounted /\ h.op = "login_start" /\ h.pc = "ok" =>
            h.reply.file.password \in d \cup {NoPassword}
  PROVE  ClientInv(f, h, d, files)
  BY DEF ClientInv, RunsWithCall, DataFits, PasswordsNoted, LoginProved, ChangeProved, Advanced

LEMMA ReplyKeeps ==
  ASSUME IInv, NEW c \in Client, NEW ok \in BOOLEAN, NEW r \in Answer, Reply(c, ok, r),
         call[c].pc # "none", UNCHANGED <<server, form, during>>,
         call[c].op = "login_start" => call[c].pc = "sent" /\ r.file = file[call[c].user]
  PROVE  IInv'
<1> DEFINE pc == IF ok THEN "ok" ELSE "error"
           h == [call[c] EXCEPT !.pc = pc, !.reply = r]
<1>1. /\ Types /\ form[c] \in Form /\ call[c] \in Call /\ during[c] \in SUBSET AnyPassword
      /\ ClientInv(form[c], call[c], during[c], file)
  BY Here
<1>2. call' = [call EXCEPT ![c] = h]
  BY <1>1 DEF Reply, Types
<1>3. pc \in {"ok", "error"}
  OBVIOUS
<1> HIDE DEF pc
<1>4. Advanced(call[c], h) /\ h.pc = pc /\ h.reply = r
  <2>1. Advanced(call[c], h)
    BY <1>1, <1>3, AdvancedFacts
  <2>2. h.pc = pc /\ h.reply = r
    BY <1>1 DEF Call
  <2> QED
    BY <2>1, <2>2
<1> HIDE DEF h
<1>5. call'[c] = h
  BY <1>1, <1>2 DEF Types
<1>6. Only(c)
  BY <1>1, <1>2, <1>5 DEF Only, Types
<1>7. form[c].mounted /\ h.op = "login_start" => r.file.password \in during[c] \cup {NoPassword}
  BY <1>1, <1>4 DEF ClientInv, PasswordsNoted, Advanced
<1>8. ClientInv(form[c], h, during[c], file)
  BY <1>1, <1>4, <1>7, AdvancedKeeps
<1> QED
  BY <1>1, <1>4, <1>5, <1>6, <1>8, OneClient DEF Advanced

LEMMA ServeKeeps ==
  ASSUME IInv, NEW c \in Client,
         ServeRefresh(c) \/ ServeResetToken(c) \/ ServeLogin(c) \/ ServeRegisterStart(c)
  PROVE  IInv'
<1>1. Types /\ call[c] \in Call /\ call[c].user \in User /\ call[c].reply \in Answer
  BY Here, FieldTypes
<1>2. /\ LoginStart(call[c].user) \in Answer
      /\ LoginStart(call[c].user).file = file[call[c].user]
      /\ RegistrationStart(call[c].user) \in Answer
  BY <1>1, ConstantTypes DEF LoginStart, RegistrationStart, Answer, Types
<1>3. UNCHANGED <<server, form, during>> /\ call[c].pc = "sent"
  BY DEF ServeRefresh, ServeResetToken, ServeLogin, ServeRegisterStart, Sent
<1>4. \/ /\ call[c].op \in {"refresh", "validate"} /\ Reply(c, TRUE, call[c].reply)
      \/ /\ call[c].op = "login_start" /\ Reply(c, TRUE, LoginStart(call[c].user))
      \/ /\ call[c].op = "login_finish"
         /\ Reply(c, LoginFinish(call[c].reply, call[c].password) /\ HasGroups(call[c].user),
                  call[c].reply)
      \/ /\ call[c].op = "simple_login"
         /\ Reply(c, Bind(call[c].user, call[c].password) /\ HasGroups(call[c].user),
                  call[c].reply)
      \/ /\ call[c].op = "register_start"
         /\ Reply(c, HasGroups(call[c].user), RegistrationStart(call[c].user))
  BY DEF ServeRefresh, ServeResetToken, ServeLogin, ServeRegisterStart, Sent
<1>5. /\ (LoginFinish(call[c].reply, call[c].password) /\ HasGroups(call[c].user)) \in BOOLEAN
      /\ (Bind(call[c].user, call[c].password) /\ HasGroups(call[c].user)) \in BOOLEAN
      /\ HasGroups(call[c].user) \in BOOLEAN /\ TRUE \in BOOLEAN
  BY DEF HasGroups
<1>6. ASSUME NEW ok \in BOOLEAN, Reply(c, ok, call[c].reply), call[c].op # "login_start"
      PROVE  IInv'
  BY <1>1, <1>3, <1>6, ReplyKeeps
<1>7. CASE call[c].op = "login_start" /\ Reply(c, TRUE, LoginStart(call[c].user))
  BY <1>2, <1>3, <1>7, ReplyKeeps
<1>8. CASE /\ call[c].op = "register_start"
           /\ Reply(c, HasGroups(call[c].user), RegistrationStart(call[c].user))
  BY <1>2, <1>3, <1>5, <1>8, ReplyKeeps
<1> QED
  BY <1>4, <1>5, <1>6, <1>7, <1>8

LEMMA LostKeeps ==
  ASSUME IInv, NEW c \in Client, Lost(c)
  PROVE  IInv'
<1> DEFINE h == [call[c] EXCEPT !.pc = "error"]
<1>1. /\ Types /\ form[c] \in Form /\ call[c] \in Call /\ during[c] \in SUBSET AnyPassword
      /\ ClientInv(form[c], call[c], during[c], file)
  BY Here
<1>2. /\ call[c].pc # "none" /\ UNCHANGED <<server, form, during>>
      /\ call' = [call EXCEPT ![c] = h]
  BY <1>1 DEF Lost, Types
<1>3. Advanced(call[c], h) /\ h.pc = "error"
  BY <1>1, <1>2, AdvancedFacts DEF Call
<1> HIDE DEF h
<1>4. call'[c] = h
  BY <1>1, <1>2 DEF Types
<1>5. Only(c)
  BY <1>1, <1>2, <1>4 DEF Only, Types
<1>6. ClientInv(form[c], h, during[c], file)
  BY <1>1, <1>3, AdvancedKeeps
<1> QED
  BY <1>1, <1>2, <1>3, <1>4, <1>5, <1>6, OneClient DEF Advanced

LEMMA RekeyKeeps ==
  ASSUME IInv, NEW k \in Key, Rekey(k)
  PROVE  IInv'
<1>1. Types
  BY DEF IInv
<1>2. /\ key' = k /\ UNCHANGED <<users, file, form, during>>
      /\ \A c \in Client : call'[c] = IF call[c].pc = "sent" THEN [call[c] EXCEPT !.pc = "error"]
                                      ELSE call[c]
      /\ DOMAIN call' = Client
      /\ call' = [c \in Client |-> call'[c]]
  BY DEF Rekey
<1>3. ASSUME NEW c \in Client
      PROVE  call'[c] \in Call /\ ClientInv(form[c], call'[c], during[c], file)
  <2> DEFINE h == [call[c] EXCEPT !.pc = "error"]
  <2>1. call[c] \in Call /\ ClientInv(form[c], call[c], during[c], file)
    BY Here
  <2>2. CASE call[c].pc = "sent"
    <3>1. Advanced(call[c], h) /\ h.pc = "error"
      BY <2>1, <2>2, AdvancedFacts DEF Call
    <3>2. call'[c] = h
      BY <1>2, <2>2
    <3> HIDE DEF h
    <3>3. ClientInv(form[c], h, during[c], file)
      BY <2>1, <3>1, AdvancedKeeps
    <3> QED
      BY <3>1, <3>2, <3>3 DEF Advanced
  <2>3. CASE call[c].pc # "sent"
    BY <1>2, <2>1, <2>3
  <2> QED
    BY <2>2, <2>3
<1>4. call' \in [Client -> Call]
  BY <1>2, <1>3
<1>5. Types'
  BY <1>1, <1>2, <1>4 DEF Types
<1> QED
  BY <1>2, <1>3, <1>5 DEF IInv

\* When a password is written, the history of every client that waits takes note
\* of it.
LEMMA WrittenKeeps ==
  ASSUME IInv, file' \in [User -> File], during' = Since(file'), UNCHANGED <<users, key, form>>,
         call' \in [Client -> Call],
         \A c \in Client :
            call'[c] = call[c] \/ (Advanced(call[c], call'[c]) /\ call[c].op # "login_start")
  PROVE  IInv'
<1>1. Types
  BY DEF IInv
<1>2. ASSUME NEW c \in Client
      PROVE  /\ during'[c] \in SUBSET AnyPassword
             /\ ClientInv(form[c], call'[c], during'[c], file')
  <2>1. /\ form[c] \in Form /\ call[c] \in Call /\ during[c] \in SUBSET AnyPassword
        /\ ClientInv(form[c], call[c], during[c], file)
    BY Here
  <2> DEFINE p == file'[form[c].user].password
  <2>2. p \in AnyPassword
    BY <2>1, FieldTypes DEF File
  <2>3. during'[c] = IF during[c] = {} THEN {} ELSE during[c] \cup {p}
    BY DEF Since
  <2>4. during'[c] \in SUBSET AnyPassword /\ during[c] \subseteq during'[c]
    BY <2>1, <2>2, <2>3
  <2>5. during'[c] # {} => p \in during'[c]
    BY <2>3
  <2>6. ClientInv(form[c], call'[c], during[c], file)
    BY <2>1, AdvancedKeeps DEF Advanced
  <2> HIDE DEF p
  <2>7. ClientInv(form[c], call'[c], during'[c], file')
    BY <2>4, <2>5, <2>6
    DEF ClientInv, RunsWithCall, DataFits, PasswordsNoted, LoginProved, ChangeProved, p
  <2> QED
    BY <2>4, <2>7
<1>3. during' \in [Client -> SUBSET AnyPassword]
  <2>1. during' = [c \in Client |-> during'[c]]
    BY DEF Since
  <2> QED
    BY <1>2, <2>1
<1>4. Types'
  BY <1>1, <1>3 DEF Types
<1> QED
  BY <1>2, <1>4 DEF IInv

LEMMA RegisteredType ==
  ASSUME Types, NEW r \in Answer, NEW p \in AnyPassword
  PROVE  Registered(r, p) \in [User -> File]
<1>1. [password |-> p, key |-> r.key] \in File
  BY DEF File, Answer
<1> QED
  BY <1>1 DEF Registered, Types

LEMMA ServeRegisterFinishKeeps ==
  ASSUME IInv, NEW c \in Client, ServeRegisterFinish(c)
  PROVE  IInv'
<1> DEFINE ok == RegistrationFinish(call[c].reply)
           pc == IF ok THEN "ok" ELSE "error"
           h == [call[c] EXCEPT !.pc = pc, !.reply = call[c].reply]
<1>1. /\ Types /\ call[c] \in Call /\ call[c].reply \in Answer /\ call[c].password \in AnyPassword
  BY Here, FieldTypes
<1>2. /\ call[c].pc = "sent" /\ call[c].op = "register_finish"
      /\ call' = [call EXCEPT ![c] = h]
      /\ file' = IF ok THEN Registered(call[c].reply, call[c].password) ELSE file
      /\ during' = Since(file') /\ UNCHANGED <<users, key, form>>
  BY <1>1 DEF ServeRegisterFinish, Sent, Reply, Types
<1>3. pc \in {"ok", "error"}
  OBVIOUS
<1> HIDE DEF pc
<1>4. Advanced(call[c], h)
  BY <1>1, <1>2, <1>3, AdvancedFacts
<1> HIDE DEF h, ok
<1>5. file' \in [User -> File]
  BY <1>1, <1>2, RegisteredType DEF Types
<1>6. /\ call' \in [Client -> Call]
      /\ call'[c] = h
      /\ \A x \in Client : x # c => call'[x] = call[x]
  BY <1>1, <1>2, <1>4 DEF Advanced, Types
<1> QED
  BY <1>2, <1>4, <1>5, <1>6, WrittenKeeps

LEMMA OtherRegistersKeeps ==
  ASSUME IInv, NEW u \in User, NEW p \in Password, OtherRegisters(u, p)
  PROVE  IInv'
<1>1. Types
  BY DEF IInv
<1>2. RegistrationStart(u) \in Answer /\ p \in AnyPassword
  BY <1>1, ConstantTypes DEF RegistrationStart, Answer, Types, AnyPassword
<1>3. /\ file' = Registered(RegistrationStart(u), p)
      /\ during' = Since(file') /\ UNCHANGED <<users, key, form, call>>
  BY DEF OtherRegisters
<1>4. file' \in [User -> File]
  BY <1>1, <1>2, <1>3, RegisteredType
<1> QED
  BY <1>1, <1>3, <1>4, WrittenKeeps DEF Types

\* A deleted user has no password: the history need not know that.
LEMMA DeleteUserKeeps ==
  ASSUME IInv, NEW u \in User, DeleteUser(u)
  PROVE  IInv'
<1>1. Types
  BY DEF IInv
<1>2. /\ users' = users \ {u} /\ file' = [file EXCEPT ![u] = NoFile]
      /\ UNCHANGED <<key, form, call, during>>
  BY DEF DeleteUser
<1>3. Types'
  BY <1>1, <1>2, ConstantTypes DEF Types
<1>4. ASSUME NEW c \in Client
      PROVE  ClientInv(form[c], call[c], during[c], file')
  <2>1. form[c].user \in User /\ ClientInv(form[c], call[c], during[c], file)
    BY Here, FieldTypes
  <2>2. \/ file'[form[c].user].password = file[form[c].user].password
        \/ file'[form[c].user].password = NoPassword
    BY <1>1, <1>2, <2>1 DEF Types, NoFile
  <2> QED
    BY <2>1, <2>2
    DEF ClientInv, RunsWithCall, DataFits, PasswordsNoted, LoginProved, ChangeProved
<1> QED
  BY <1>2, <1>3, <1>4 DEF IInv

LEMMA UnchangedKeeps ==
  ASSUME IInv, UNCHANGED vars \/ \E u \in User : CreateUser(u)
  PROVE  IInv'
<1>1. /\ UNCHANGED <<file, key, form, call, during>> /\ users' \subseteq User
  BY DEF vars, CreateUser, IInv, Types
<1> QED
  BY <1>1 DEF IInv, Types

LEMMA InitKeeps == Init => IInv
<1> SUFFICES ASSUME Init PROVE IInv
  OBVIOUS
<1>1. Types
  <2>1. file \in [User -> File]
    BY DEF Init, File, AnyPassword
  <2> QED
    BY <2>1, ConstantTypes DEF Init, Types
<1>2. ASSUME NEW c \in Client
      PROVE  ClientInv(form[c], call[c], during[c], file)
  <2>1. form[c] = Unmounted /\ call[c] = NoCall /\ during[c] = {}
    BY DEF Init
  <2> QED
    BY <2>1, ConstantTypes
    DEF ClientInv, RunsWithCall, DataFits, PasswordsNoted, LoginProved, ChangeProved
<1> QED
  BY <1>1, <1>2 DEF IInv

LEMMA NextKeeps == IInv /\ [Next]_vars => IInv'
<1> SUFFICES ASSUME IInv, [Next]_vars PROVE IInv'
  OBVIOUS
<1>1. ASSUME NEW c \in Client, Handle(c)
      PROVE  IInv'
  BY <1>1, EndingSteps, LoginStartResponseKeeps, ChangeLoginStartedKeeps,
     RegistrationStartResponseKeeps, ToolContinuesKeeps DEF Handle
<1>2. ASSUME NEW c \in Client, Serve(c)
      PROVE  IInv'
  BY <1>2, ServeKeeps, ServeRegisterFinishKeeps, LostKeeps DEF Serve
<1>3. ASSUME NEW c \in Client, Press(c)
      PROVE  IInv'
  BY <1>3, LoginSubmitKeeps, ChangeSubmitKeeps, ResetSubmitKeeps, ToolRunKeeps DEF Press
<1>4. ASSUME NEW c \in Client, NEW fs \in Fields,
             FormUpdate(c, fs) \/ \E kind \in Kinds, u \in User : Mount(c, kind, u, fs)
      PROVE  IInv'
  BY <1>4, FormUpdateKeeps, MountKeeps
<1> QED
  BY <1>1, <1>2, <1>3, <1>4, UnmountKeeps, DeleteUserKeeps, OtherRegistersKeeps, RekeyKeeps,
     UnchangedKeeps DEF Next

-----------------------------------------------------------------------------

\* The inductive invariant: a task is running exactly while there is a call, with
\* the button disabled; the data in the form are those of the step that is under
\* way; and the history knows the passwords that the step relies on.
THEOREM Invariance == Spec => []IInv
  BY InitKeeps, NextKeeps, PTL DEF Spec

\* No form of the web front end panics: neither the assertion of call_backend,
\* nor the one of update, nor the handlers that expect the data of an earlier step
\* ever fail, for any number of windows and any order of clicks, answers and errors.
THEOREM NeverPanics == Spec => []FormsNeverPanic
<1>1. IInv => FormsNeverPanic
  BY DEF IInv, ClientInv, FormsNeverPanic
<1> QED
  BY <1>1, Invariance, PTL

\* A login that succeeds was made with a password that was the user's at some
\* moment between its start and its end.
THEOREM LoggedInByPassword == Spec => []LoginByPassword
<1>1. IInv => LoginByPassword
  BY DEF IInv, ClientInv, LoginProved, LoginByPassword
<1> QED
  BY <1>1, Invariance, PTL

\* The form of a regular user sends a new password only after the old one that
\* was typed was theirs.
THEOREM OldPasswordNeeded == Spec => []ChangeNeedsOld
<1>1. IInv => ChangeNeedsOld
  BY DEF IInv, ClientInv, ChangeProved, ChangeNeedsOld
<1> QED
  BY <1>1, Invariance, PTL

\* registration_finish stores a password file only under the key it can be used
\* with, whatever restarts there were since the registration began.
THEOREM FilesStayUsable == Spec => FilesUsable
<1> DEFINE Usable == \A u \in User : file'[u] # file[u] /\ file'[u] # NoFile => file'[u].key = key'
<1>1. ASSUME IInv, [Next]_vars
      PROVE  Usable
  <2>1. ASSUME NEW r \in Answer, NEW p, RegistrationFinish(r), key' = key, file' = Registered(r, p)
        PROVE  Usable
    BY <1>1, <2>1 DEF IInv, Types, RegistrationFinish, Opens, Registered
  <2>2. ASSUME file' = file
        PROVE  Usable
    BY <2>2
  <2>3. CASE \E c \in Client : ServeRegisterFinish(c)
    <3>1. PICK c \in Client : ServeRegisterFinish(c)
      BY <2>3
    <3>2. call[c].reply \in Answer
      BY <1>1, Here, FieldTypes
    <3> QED
      BY <2>1, <2>2, <3>1, <3>2 DEF ServeRegisterFinish
  <2>4. CASE \E u \in User, p \in Password : OtherRegisters(u, p)
    <3>1. PICK u \in User, p \in Password : OtherRegisters(u, p)
      BY <2>4
    <3>2. RegistrationStart(u) \in Answer
      BY <1>1, ConstantTypes DEF RegistrationStart, Answer, IInv, Types
    <3> QED
      BY <2>1, <3>1, <3>2 DEF OtherRegisters
  <2>5. CASE \E u \in User : DeleteUser(u)
    BY <1>1, <2>5 DEF DeleteUser, IInv, Types
  <2>6. CASE \E k \in Key : Rekey(k)
    BY <2>2, <2>6 DEF Rekey
  <2>7. CASE \E u \in User : CreateUser(u)
    BY <2>2, <2>7 DEF CreateUser
  <2>8. CASE UNCHANGED vars
    BY <2>2, <2>8 DEF vars
  <2>9. ASSUME NEW c \in Client, Handle(c) \/ Press(c) \/ Unmount(c)
        PROVE  UNCHANGED server
    BY <2>9
    DEF Handle, Dropped, AuthenticationRefreshResponse, LoginStartResponse, LoginFinishResponse,
        ChangeLoginStarted, ValidateTokenResponse, RegistrationStartResponse,
        RegistrationFinishResponse, ErrorResponse, ToolContinues, ToolFails,
        Press, LoginSubmit, ChangeSubmit, ResetSubmit, ToolRun, Pressed, Unmount
  <2>10. ASSUME NEW c \in Client, Serve(c), ~ServeRegisterFinish(c)
         PROVE  UNCHANGED server
    BY <2>10 DEF Serve, ServeRefresh, ServeResetToken, ServeLogin, ServeRegisterStart, Lost
  <2>11. ASSUME NEW c \in Client, NEW fs \in Fields,
               FormUpdate(c, fs) \/ \E kind \in Kinds, u \in User : Mount(c, kind, u, fs)
         PROVE  UNCHANGED server
    BY <2>11 DEF FormUpdate, Mount
  <2>12. ASSUME UNCHANGED server
         PROVE  Usable
    BY <2>2, <2>12 DEF server
  <2> HIDE DEF Usable
  <2> QED
    BY <1>1, <2>3, <2>4, <2>5, <2>6, <2>7, <2>8, <2>9, <2>10, <2>11, <2>12 DEF Next
<1>2. IInv /\ [Next]_vars => [Usable]_vars
  BY <1>1
<1> QED
  BY <1>2, Invariance, PTL DEF Spec, FilesUsable

=============================================================================
