------------------------------ MODULE LoginPage ------------------------------
(***************************************************************************)
(* The login page (ui/src/pages/login/index.tsx): it finds the             *)
(* organisation, offers its providers or a password, and asks for the      *)
(* second factor the server wants, a passkey or a code, or for a new       *)
(* password.  A request with a password is judged by loginPassword         *)
(* (server/router/auth-router.go).  Each answer flips some of the flags    *)
(* which decide what is shown; nothing but the user's patience keeps two   *)
(* requests from being under way together.                                 *)
(***************************************************************************)
EXTENDS WebPage

CONSTANTS
    MaxTries,       \* clicks on this page (bound)
    HastyTries      \* those of a user who does not wait (bound)

(* What the server knows of the user and the organisation.                 *)
Accounts == [totp : BOOLEAN, passkey : BOOLEAN, update : BOOLEAN]

LoginInit ==
    /\ page = "login" /\ blocked = FALSE /\ clicks = 0
    /\ \E account \in Accounts, waits, adminTarget, noRedirect \in BOOLEAN,
          domain, disabled \in BOOLEAN, providers \in 0 .. 2 :
          /\ noRedirect => providers = 1
          /\ server = [account |-> account, domain |-> domain,
                       providers |-> providers, disabled |-> disabled,
                       challenges |-> {}, codeUsed |-> FALSE]
          /\ state = [loading |-> TRUE, noDomain |-> FALSE, providers |-> 0,
                      disabled |-> FALSE, noRedirect |-> noRedirect,
                      password |-> "none", code |-> "none",
                      totp |-> FALSE, passkey |-> FALSE, update |-> FALSE,
                      fallback |-> FALSE, challenge |-> 0,
                      submitting |-> FALSE, inPasskey |-> FALSE,
                      invalid |-> FALSE, passkeyFailed |-> FALSE,
                      signedIn |-> FALSE, settings |-> FALSE, left |-> "no",
                      adminTarget |-> adminTarget, waits |-> waits]
    /\ calls = {[what |-> "org"]}

-----------------------------------------------------------------------------
(* render: once there are credentials the page goes where it was asked to, *)
(* to a page of admins only when it knows that the user is one.            *)
RedirectUrl(s) == IF s.adminTarget /\ ~s.settings THEN "search" ELSE "target"

Rendered(s) == IF s.left = "no" /\ s.signedIn
               THEN [s EXCEPT !.left = RedirectUrl(s)] ELSE s

Shows(next) == state' = Rendered(next)

(* The forms, each hidden by the flags of those before it.                 *)
FormsShown(s) ==
    {f \in {"passkey", "totp", "update", "password"} :
        CASE f = "passkey" -> s.passkey /\ ~s.update
          [] f = "totp" -> s.totp
          [] f = "update" -> ~s.totp /\ ~s.passkey /\ s.update
          [] f = "password" -> ~s.totp /\ ~s.passkey /\ ~s.update}

Forms(s) == s.left = "no" /\ ~s.signedIn /\ ~s.loading /\ ~s.noDomain
                /\ s.providers = 0 /\ ~s.disabled

Trier ==
    /\ Click("login") /\ clicks < MaxTries /\ state.left = "no"
    /\ IF state.waits
       THEN ~state.submitting /\ ~state.inPasskey /\ ~state.loading
       ELSE clicks < HastyTries
    /\ UNCHANGED server

OnForm(f) == Trier /\ Forms(state) /\ f \in FormsShown(state)

-----------------------------------------------------------------------------
(* The organisation of the domain, else the only one there is.  A single   *)
(* provider is used at once; the server never requires passwords.          *)
ApplyOrg(s) ==
    [s EXCEPT !.loading = FALSE, !.providers = server.providers,
              !.disabled = server.disabled,
              !.left = IF server.providers = 1 /\ ~s.noRedirect
                       THEN "provider" ELSE @]

OrgFound(what) ==
    /\ Goes("login") /\ [what |-> what] \in calls
    /\ what = "org" => server.domain
    /\ Shows(ApplyOrg(state))
    /\ calls' = calls \ {[what |-> what]} /\ UNCHANGED server

(* A server that fails is taken for one that knows of no organisation.     *)
OrgNotFound(what) ==
    /\ Goes("login") /\ [what |-> what] \in calls
    /\ calls' = (calls \ {[what |-> what]}) \cup
                    (IF what = "org" THEN {[what |-> "single"]} ELSE {})
    /\ Shows(IF what = "org" THEN state
             ELSE [state EXCEPT !.noDomain = TRUE, !.loading = FALSE])
    /\ UNCHANGED server

UseProvider ==
    /\ Trier /\ ~state.loading /\ state.providers > 0
    /\ Shows([state EXCEPT !.left = "provider"])
    /\ UNCHANGED calls

UsePassword ==
    /\ Trier /\ ~state.loading /\ state.providers > 0 /\ ~state.disabled
    /\ Shows([state EXCEPT !.providers = 0])
    /\ UNCHANGED calls

-----------------------------------------------------------------------------
(* What the server says to a password, with a code or a passkey or none.   *)
Login(s, credential) ==
    [what |-> "login", password |-> s.password, code |-> s.code,
     credential |-> credential, challenge |-> s.challenge, n |-> clicks]

TotpVerdict(call) ==
    IF ~server.account.totp THEN "ok"
    ELSE IF call.code = "none" THEN "code wanted"
    ELSE IF call.code = "right" /\ ~server.codeUsed THEN "ok"
    ELSE "refused"

PasskeyVerdicts(call) ==
    IF ~server.account.passkey THEN {TotpVerdict(call)}
    ELSE IF call.credential
    THEN IF call.challenge \in server.challenges
         THEN {"ok", "refused"} ELSE {"refused"}
    ELSE IF call.code # "none" /\ server.account.totp
    THEN {TotpVerdict(call)}
    ELSE {"passkey wanted"}

Judged(call) ==
    CASE call.password # "right" -> {"refused"}
      [] call.password = "right" /\ server.account.update -> {"update wanted"}
      [] OTHER -> PasskeyVerdicts(call)

(* The page takes any other status, that of a failing server too, for a    *)
(* refusal; only a request without an answer stops it.                     *)
Verdicts(call) == Judged(call) \cup {"refused"}

-----------------------------------------------------------------------------
TypePassword(password) ==
    /\ OnForm("password") /\ ~state.submitting /\ password # state.password
    /\ Shows([state EXCEPT !.password = password, !.invalid = FALSE,
                           !.passkeyFailed = FALSE])
    /\ UNCHANGED calls

(* onPasswordSubmit; the button is not locked.                             *)
Submit(s) ==
    /\ Shows([s EXCEPT !.submitting = TRUE])
    /\ calls' = calls \cup {Login(s, FALSE)}

SubmitPassword ==
    OnForm("password") /\ state.password # "none" /\ Submit(state)

(* TotpInput: the last digit, or a code that is pasted, submits the form;  *)
(* one that is not complete is no code yet.                                *)
TypeCode(code) ==
    /\ OnForm("totp") /\ ~state.submitting
    /\ IF code = "part"
       THEN /\ Shows([state EXCEPT !.code = code, !.invalid = FALSE])
            /\ UNCHANGED calls
       ELSE Submit([state EXCEPT !.code = code, !.invalid = FALSE])

(* onNewPasswordSubmit; same: the new password is the old one.             *)
SubmitNewPassword(same) ==
    /\ OnForm("update")
    /\ Shows([state EXCEPT !.submitting = TRUE])
    /\ calls' = calls \cup {[what |-> "updatepw", password |-> state.password,
                             same |-> same, n |-> clicks]}

BackToLogin ==
    /\ OnForm("update")
    /\ Shows([state EXCEPT !.update = FALSE, !.password = "none"])
    /\ UNCHANGED calls

(* performPasskeyAssertion opens the dialogue of the browser.              *)
AskPasskey(s, challenge, others) ==
    /\ Shows([s EXCEPT !.inPasskey = TRUE, !.invalid = FALSE])
    /\ calls' = others \cup {[what |-> "dialogue", challenge |-> challenge]}

AssertAgain ==
    /\ OnForm("passkey") /\ ~state.inPasskey
    /\ AskPasskey(state, state.challenge, calls)

UseTotpInstead ==
    /\ OnForm("passkey") /\ state.fallback /\ ~state.inPasskey
    /\ Shows([state EXCEPT !.passkey = FALSE, !.totp = TRUE])
    /\ UNCHANGED calls

(* loginWithPasskey: a passkey instead of the password.                    *)
LoginWithPasskey ==
    /\ OnForm("password") /\ ~state.inPasskey /\ ~state.submitting
    /\ Shows([state EXCEPT !.inPasskey = TRUE, !.invalid = FALSE])
    /\ calls' = calls \cup {[what |-> "begin"]}

-----------------------------------------------------------------------------
LoginTakes(call, what) ==
    Goes("login") /\ call.what = what /\ state.left # "provider"

(* onSuccessfulLogin: the credentials are stored, then the settings loaded. *)
Succeeds(s, call) ==
    /\ state' = [s EXCEPT !.signedIn = TRUE]
    /\ calls' = (calls \ {call}) \cup {[what |-> "settings"]}

LoginSettingsLoaded(call) ==
    /\ LoginTakes(call, "settings")
    /\ Shows([state EXCEPT !.settings = TRUE, !.inPasskey = FALSE])
    /\ calls' = calls \ {call} /\ UNCHANGED server

(* The answer to a password; with a challenge the page asks for the        *)
(* passkey at once.                                                        *)
PasswordAnswered(call) ==
    /\ LoginTakes(call, "login") /\ ~call.credential
    /\ \E verdict \in Verdicts(call) :
         LET s == [state EXCEPT !.submitting = FALSE,
                                !.invalid = verdict = "refused"]
             n == call.n + 1
         IN
         CASE verdict = "ok" ->
                /\ Succeeds(state, call)
                /\ server' = [server EXCEPT !.codeUsed = @ \/ call.code = "right"]
           [] verdict = "update wanted" ->
                /\ Shows([s EXCEPT !.update = TRUE])
                /\ calls' = calls \ {call} /\ UNCHANGED server
           [] verdict = "code wanted" ->
                /\ Shows([s EXCEPT !.totp = TRUE])
                /\ calls' = calls \ {call} /\ UNCHANGED server
           [] verdict = "passkey wanted" ->
                /\ AskPasskey([s EXCEPT !.passkey = TRUE, !.challenge = n,
                                    !.fallback = server.account.totp],
                          n, calls \ {call})
                /\ server' = [server EXCEPT !.challenges = @ \cup {n}]
           [] verdict = "refused" ->
                /\ Shows(s)
                /\ calls' = calls \ {call} /\ UNCHANGED server

(* The mutated form of AssertionFailed: a passkey is still required.       *)
AssertionFailedOnly(call) ==
    /\ Shows([state EXCEPT !.inPasskey = FALSE,
                           !.totp = @ \/ state.fallback,
                           !.invalid = ~state.fallback])
    /\ calls' = calls \ {call}

(* The password and the passkey together; whatever goes wrong leads to the *)
(* code, for a user who has one, or back to the password.                  *)
AssertionFailed(call) ==
    /\ Shows([state EXCEPT !.inPasskey = FALSE, !.passkey = FALSE,
                           !.totp = @ \/ state.fallback,
                           !.invalid = ~state.fallback])
    /\ calls' = calls \ {call}

DialogueAnswered(call, given) ==
    /\ LoginTakes(call, "dialogue")
    /\ IF given
       THEN /\ calls' = (calls \ {call}) \cup
                    {[Login(state, TRUE) EXCEPT !.challenge = call.challenge]}
            /\ UNCHANGED state
       ELSE AssertionFailed(call)
    /\ UNCHANGED server

AssertionAnswered(call) ==
    /\ LoginTakes(call, "login") /\ call.credential
    /\ server' = [server EXCEPT !.challenges = @ \ {call.challenge}]
    /\ \E verdict \in Verdicts(call) :
          IF verdict = "ok" THEN Succeeds(state, call) ELSE AssertionFailed(call)

(* updatePassword: once the password is changed the old one is wrong; it   *)
(* refuses, or fails, and the page says the same.                          *)
UpdateAnswered(call) ==
    /\ LoginTakes(call, "updatepw")
    /\ \/ /\ server.account.update /\ call.password = "right" /\ ~call.same
          /\ Succeeds(state, call)
          /\ server' = [server EXCEPT !.account.update = FALSE]
       \/ /\ Shows([state EXCEPT !.invalid = TRUE, !.submitting = FALSE])
          /\ calls' = calls \ {call} /\ UNCHANGED server

(* Begin, the dialogue of the browser, finish; an error of the server is   *)
(* not caught, only one of the browser.                                    *)
PasskeyBegun(call) ==
    /\ LoginTakes(call, "begin")
    /\ \/ calls' = (calls \ {call}) \cup {[what |-> "finish"]} /\ UNCHANGED state
       \/ \E cancelled \in BOOLEAN :
            /\ Shows([state EXCEPT !.inPasskey = FALSE,
                                   !.passkeyFailed = ~cancelled])
            /\ calls' = calls \ {call}
    /\ UNCHANGED server

PasskeyFinished(call) ==
    /\ LoginTakes(call, "finish") /\ server.account.passkey
    /\ Succeeds(state, call) /\ UNCHANGED server

LoginCallFails == Blocks("login") /\ calls # {} /\ calls' = {} /\ UNCHANGED server

LoginAnswer ==
    \/ \E what \in {"org", "single"} : OrgFound(what) \/ OrgNotFound(what)
    \/ \E call \in calls :
        \/ PasswordAnswered(call) \/ AssertionAnswered(call)
        \/ \E given \in BOOLEAN : DialogueAnswered(call, given)
        \/ UpdateAnswered(call) \/ PasskeyBegun(call) \/ PasskeyFinished(call)
        \/ LoginSettingsLoaded(call)

LoginNext ==
    /\ page = "login"
    /\ \/ UseProvider \/ UsePassword
       \/ \E password \in {"right", "wrong"} : TypePassword(password)
       \/ \E code \in {"part", "right", "wrong"} : TypeCode(code)
       \/ SubmitPassword \/ BackToLogin
       \/ \E same \in BOOLEAN : SubmitNewPassword(same)
       \/ AssertAgain \/ UseTotpInstead \/ LoginWithPasskey
       \/ LoginAnswer \/ LoginCallFails

LoginSpec == LoginInit /\ [][LoginNext]_webVars

-----------------------------------------------------------------------------
(* For a user who waits there is always exactly one form to go on with,    *)
(* whatever second factors the server has asked for and however they       *)
(* failed.  (Two passwords sent at once can bring up two forms.)           *)
OneForm ==
    page = "login" /\ state.waits /\ Forms(state) /\ ~blocked
    => Cardinality(FormsShown(state)) = 1
=============================================================================
