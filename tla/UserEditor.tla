----------------------------- MODULE UserEditor ------------------------------
(***************************************************************************)
(* The page on which an admin creates and edits a user or a service        *)
(* account (ui/src/pages/admin/users/[id].tsx).  How a user signs in is a  *)
(* password, a provider or an invitation to choose a password; the page    *)
(* decides from several fields what to send, the server (create and update *)
(* in server/router/user-router.go) from what it is sent what to keep.     *)
(***************************************************************************)
EXTENDS WebPage

CONSTANTS
    MaxUserEdits,   \* clicks on this page (bound)
    HastyUserEdits  \* those of an admin who is not careful (bound)

UserRoles == {"user", "admin", "service"}
Methods == {"password", "provider", "invitation"}
Resets == {"delete", "resetPasskeys", "resetTotp", "revokeApiToken"}

(* The row of a user; passwords are numbered by when they were typed.      *)
Account(email, role, auth, password) ==
    [exists |-> TRUE, email |-> email, role |-> role, auth |-> auth,
     password |-> password, totp |-> FALSE, passkeys |-> FALSE, token |-> FALSE]

NoAccount == [Account(0, "user", "password", 0) EXCEPT !.exists = FALSE]

Person(auth, factor) ==
    [Account(0, "user", auth, 0) EXCEPT !.totp = factor, !.passkeys = factor]

ServiceAccount(token) ==
    [Account(0, "service", "password", 0) EXCEPT !.token = token]

Known == {Person(auth, factor) : auth \in Methods, factor \in BOOLEAN}
            \cup {ServiceAccount(token) : token \in BOOLEAN}

(* A new user or one the server knows; email 1 may belong to another.      *)
(* careful: waits for answers; ticks the box or changes the address when   *)
(* the way to sign in is another, without which the server keeps the old   *)
(* one; and does not save a service account for which the (then hidden)    *)
(* choice is other than a password.                                        *)
UserInit ==
    /\ page = "user" /\ blocked = FALSE /\ clicks = 0
    /\ \E user \in Known \cup {NoAccount}, others \in {{}, {1}},
          super, careful \in BOOLEAN :
          /\ server = [user |-> user, others |-> others]
          /\ state = [id |-> user.exists, email |-> 0, original |-> 0,
                      role |-> "user", method |-> "password", password |-> 0,
                      change |-> FALSE, resend |-> FALSE, totp |-> FALSE,
                      passkeys |-> FALSE, token |-> FALSE, tokenShown |-> FALSE,
                      pending |-> "none", saved |-> FALSE, error |-> FALSE,
                      gone |-> FALSE, loading |-> TRUE, super |-> super,
                      careful |-> careful, edited |-> FALSE]
    /\ calls = {[what |-> "load"]}

(* loadData: the method is told from the row.                              *)
UserLoaded ==
    /\ Goes("user") /\ [what |-> "load"] \in calls
    /\ state' = IF ~state.id THEN [state EXCEPT !.loading = FALSE]
                ELSE [state EXCEPT
                        !.email = server.user.email, !.original = server.user.email,
                        !.role = server.user.role, !.method = server.user.auth,
                        !.totp = server.user.totp,
                        !.passkeys = server.user.passkeys,
                        !.token = server.user.role = "service" /\ server.user.token,
                        !.loading = FALSE]
    /\ calls' = {} /\ UNCHANGED server

-----------------------------------------------------------------------------
(* What the admin does.                                                    *)
UserAdmin ==
    /\ Click("user") /\ clicks < MaxUserEdits
    /\ ~state.loading /\ ~state.gone
    /\ IF state.careful THEN calls = {} ELSE clicks < HastyUserEdits
    /\ UNCHANGED server

UserEdit(next) ==
    /\ UserAdmin /\ state.pending = "none" /\ ~state.tokenShown
    /\ state' = [next EXCEPT !.edited = TRUE]
    /\ UNCHANGED calls

Service(s) == s.role = "service"

EditEmail == UserEdit([state EXCEPT !.email = 1 - @])

(* changeRole: a service account gets a generated password, and an admin   *)
(* of lower rank than such an account cannot change it back.               *)
ChangeRole(role) ==
    LET change == state.change \/ role = "service" IN
    /\ role # state.role /\ (state.super \/ ~Service(state))
    /\ UserEdit([state EXCEPT !.role = role, !.change = change,
                              !.password = IF change THEN clicks + 1 ELSE @])

GeneratePassword ==
    /\ Service(state)
    /\ UserEdit([state EXCEPT !.password = clicks + 1, !.change = TRUE])

ChooseMethod(method) ==
    /\ ~Service(state) /\ method # state.method
    /\ UserEdit([state EXCEPT !.method = method])

(* The boxes to change the password and to send the invitation again.      *)
TickChange ==
    /\ ~Service(state) /\ state.id
    /\ \/ state.method = "password" /\ UserEdit([state EXCEPT !.change = ~@])
       \/ state.method = "invitation" /\ UserEdit([state EXCEPT !.resend = ~@])

TypeNewPassword ==
    /\ ~Service(state) /\ state.method = "password"
    /\ ~state.id \/ state.change
    /\ UserEdit([state EXCEPT !.password = clicks + 1])

(* onSubmit, which may be clicked again before there is an answer.         *)
Payload(s) ==
    [what |-> "save", n |-> clicks, new |-> ~s.id, email |-> s.email,
     role |-> s.role,
     invite |-> s.method = "invitation"
                /\ (~s.id \/ s.email # s.original \/ s.resend),
     provider |-> s.method = "provider",
     password |-> IF s.method = "password" /\ (s.change \/ ~s.id)
                  THEN s.password ELSE 0]

(* The field of a service account is disabled and so not validated.        *)
PasswordRequired(s) ==
    ~Service(s) /\ s.method = "password" /\ (~s.id \/ s.change)

SubmitUser ==
    LET sent == Payload(state) IN
    /\ UserAdmin /\ state.pending = "none" /\ ~state.tokenShown
    /\ PasswordRequired(state) => state.password # 0
    /\ state.careful =>
          /\ Service(state) => state.method = "password"
          /\ state.method # server.user.auth
             => sent.invite \/ sent.provider \/ sent.password # 0
    /\ state' = [state EXCEPT !.saved = FALSE, !.error = FALSE, !.edited = FALSE]
    /\ calls' = calls \cup {sent}

(* Delete and the resets ask first; each button is there for an account it *)
(* is of use to.                                                           *)
AskReset(what) ==
    /\ UserAdmin /\ state.id /\ state.pending = "none" /\ ~state.tokenShown
    /\ CASE what = "delete" -> TRUE
         [] what = "resetPasskeys" -> ~Service(state) /\ state.passkeys
         [] what = "resetTotp" -> ~Service(state) /\ state.totp
         [] what = "revokeApiToken" -> Service(state) /\ state.token
    /\ state' = [state EXCEPT !.pending = what]
    /\ UNCHANGED calls

(* confirmPendingAction, up to its call.                                   *)
AnswerReset(yes) ==
    /\ UserAdmin /\ state.pending # "none"
    /\ state' = [state EXCEPT !.pending = "none"]
    /\ calls' = IF yes THEN calls \cup {[what |-> state.pending, n |-> clicks]}
                ELSE calls

GenerateApiToken ==
    /\ UserAdmin /\ state.id /\ Service(state)
    /\ state.pending = "none" /\ ~state.tokenShown
    /\ calls' = calls \cup {[what |-> "generateApiToken", n |-> clicks]}
    /\ UNCHANGED state

HideToken ==
    /\ UserAdmin /\ state.tokenShown
    /\ state' = [state EXCEPT !.tokenShown = FALSE]
    /\ UNCHANGED calls

-----------------------------------------------------------------------------
(* Answers.                                                                *)
UserTakes(call, whats) ==
    Goes("user") /\ call.what \in whats /\ ~state.gone /\ calls' = calls \ {call}

(* create: an account without password or invitation signs in with a       *)
(* provider.                                                               *)
Created(call) ==
    Account(call.email, call.role,
            CASE call.invite -> "invitation"
              [] ~call.invite /\ call.password # 0 -> "password"
              [] OTHER -> "provider",
            call.password)

(* The mutated form of Updated: an invitation stays one.                   *)
UpdatedPasswordOnly(user, call) ==
    LET u == [user EXCEPT !.email = call.email, !.role = call.role] IN
    CASE call.invite -> [u EXCEPT !.auth = "invitation", !.password = 0]
      [] ~call.invite /\ call.password # 0 -> [u EXCEPT !.password = call.password]
      [] ~call.invite /\ call.password = 0 /\ call.provider ->
            [u EXCEPT !.auth = "provider", !.password = 0]
      [] OTHER -> u

(* update: what is not sent stays, the second factors always.              *)
Updated(user, call) ==
    LET u == [user EXCEPT !.email = call.email, !.role = call.role] IN
    CASE call.invite -> [u EXCEPT !.auth = "invitation", !.password = 0]
      [] ~call.invite /\ call.password # 0 ->
            [u EXCEPT !.auth = "password", !.password = call.password]
      [] ~call.invite /\ call.password = 0 /\ call.provider ->
            [u EXCEPT !.auth = "provider", !.password = 0]
      [] OTHER -> u

(* The address may be that of another, also of the user created by an      *)
(* earlier click; with another address two clicks make two users.          *)
Conflict(call) ==
    \/ call.email \in server.others
    \/ call.new /\ server.user.exists /\ call.email = server.user.email

UserSaved(call) ==
    /\ UserTakes(call, {"save"}) /\ ~Conflict(call)
    /\ server' = [user |-> IF call.new THEN Created(call)
                           ELSE Updated(server.user, call),
                  others |-> IF call.new /\ server.user.exists
                             THEN server.others \cup {server.user.email}
                             ELSE server.others]
    /\ state' = [state EXCEPT !.id = TRUE, !.saved = TRUE, !.resend = FALSE,
                              !.original = call.email]

(* This error has an application code: the page shows it.                  *)
UserRefused(call) ==
    /\ UserTakes(call, {"save"}) /\ Conflict(call)
    /\ state' = [state EXCEPT !.error = TRUE]
    /\ UNCHANGED server

ResetDone(call) ==
    /\ UserTakes(call, Resets)
    /\ CASE call.what = "delete" ->
              /\ server' = [server EXCEPT !.user = NoAccount]
              /\ state' = [state EXCEPT !.gone = TRUE]
         [] call.what = "resetPasskeys" ->
              /\ server' = [server EXCEPT !.user.passkeys = FALSE]
              /\ state' = [state EXCEPT !.passkeys = FALSE]
         [] call.what = "resetTotp" ->
              /\ server' = [server EXCEPT !.user.totp = FALSE]
              /\ state' = [state EXCEPT !.totp = FALSE]
         [] call.what = "revokeApiToken" ->
              /\ server' = [server EXCEPT !.user.token = FALSE]
              /\ state' = [state EXCEPT !.token = FALSE]

(* Only for what the server knows as a service account.                    *)
TokenGenerated(call) ==
    /\ UserTakes(call, {"generateApiToken"}) /\ server.user.role = "service"
    /\ server' = [server EXCEPT !.user.token = TRUE]
    /\ state' = [state EXCEPT !.token = TRUE, !.tokenShown = TRUE]

UserCallFails == Blocks("user") /\ calls # {} /\ calls' = {} /\ UNCHANGED server

UserNext ==
    /\ page = "user"
    /\ \/ UserLoaded \/ EditEmail \/ GeneratePassword \/ TickChange
       \/ \E role \in UserRoles : ChangeRole(role)
       \/ \E method \in Methods : ChooseMethod(method)
       \/ TypeNewPassword \/ SubmitUser \/ GenerateApiToken \/ HideToken
       \/ \E what \in Resets : AskReset(what)
       \/ \E yes \in BOOLEAN : AnswerReset(yes)
       \/ \E call \in calls : \/ UserSaved(call) \/ UserRefused(call)
                              \/ ResetDone(call) \/ TokenGenerated(call)
       \/ UserCallFails

UserSpec == UserInit /\ [][UserNext]_webVars

-----------------------------------------------------------------------------
(* For a careful admin the second factors and the token are shown as they  *)
(* are, also after saving, and when the page says that a user was saved,   *)
(* then the server has the address, role and way to sign in it shows, and  *)
(* the password if one was asked to be changed.                            *)
UserAsShown ==
    page = "user" /\ state.careful /\ calls = {} /\ ~blocked /\ ~state.gone
        /\ ~state.loading /\ state.id
    =>
    LET user == server.user IN
    /\ user.totp = state.totp /\ user.passkeys = state.passkeys
    /\ state.role = "service" => user.token = state.token
    /\ state.saved /\ ~state.edited =>
          /\ user.email = state.email /\ user.role = state.role
          /\ user.auth = state.method
          /\ state.method = "password" /\ state.change
             => user.password = state.password
=============================================================================
