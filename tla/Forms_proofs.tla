---------------------------- MODULE Forms_proofs -----------------------------
(***************************************************************************)
(* What holds of the forms of the web client for any accounts, calendars,  *)
(* users, bookings, settings and floor plans: the login page, the          *)
(* preferences, and the pages on which an admin changes a user, a booking, *)
(* the settings and an area. For each page one invariant says what a call  *)
(* under way has to do with the form on display, of a visitor who waits    *)
(* for the answers.                                                        *)
(***************************************************************************)
EXTENDS Pages_proofs

(* The login page.                                                         *)

(* The types of the login page. A call that logs in counts the clicks      *)
(* before it.                                                              *)
LoginStates ==
    [loading : BOOLEAN, noDomain : BOOLEAN, providers : 0 .. 2,
     disabled : BOOLEAN, noRedirect : BOOLEAN,
     password : {"none", "right", "wrong"},
     code : {"none", "part", "right", "wrong"},
     totp : BOOLEAN, passkey : BOOLEAN, update : BOOLEAN, fallback : BOOLEAN,
     challenge : Nat, submitting : BOOLEAN, inPasskey : BOOLEAN,
     invalid : BOOLEAN, passkeyFailed : BOOLEAN, signedIn : BOOLEAN,
     settings : BOOLEAN, left : {"no", "provider", "search", "target"},
     adminTarget : BOOLEAN, waits : BOOLEAN]

LoginTypes ==
    /\ clicks \in Nat
    /\ state \in LoginStates
    /\ server \in [account : Accounts, domain : BOOLEAN, providers : 0 .. 2,
                   disabled : BOOLEAN, challenges : SUBSET Nat,
                   codeUsed : BOOLEAN]
    /\ \A call \in calls : call.what = "login" => call.n \in Nat
    /\ blocked => calls = {}

(* What the page asks for is what the account wants: never a new password  *)
(* together with a second factor.                                          *)
Factors ==
    /\ state.update => server.account.update \/ state.signedIn
    /\ state.passkey \/ state.totp \/ state.fallback => ~server.account.update
    /\ state.totp \/ state.fallback => server.account.totp

(* Which call is under way when, of a user who waits.                      *)
SentWhile(call) ==
    /\ call.what \in {"org", "single"} => state.loading
    /\ call.what = "login" /\ ~call.credential =>
          /\ state.submitting /\ ~state.passkey
          /\ state.totp => call.code # "none"
    /\ call.what = "login" /\ call.credential => state.inPasskey
    /\ call.what \in {"dialogue", "begin", "finish"} => state.inPasskey
    /\ call.what = "updatepw" => state.submitting
    /\ call.what = "settings" => state.submitting \/ state.inPasskey
    /\ call.what \in {"org", "single", "login", "dialogue", "begin", "finish",
                      "updatepw", "settings"}

(* A user who waits for each call has one under way, sent by what the page *)
(* is busy with, and is never asked for a passkey and a code together.     *)
Patience ==
    state.waits /\ ~blocked =>
        /\ \A c, d \in calls : c = d
        /\ \A call \in calls : SentWhile(call)
        /\ ~(state.passkey /\ state.totp)

(* The inductive invariant of the login page.                              *)
LoginInv == LoginTypes /\ Factors /\ Patience

(* Rendering may leave the page for another one; it changes no form.       *)
LEMMA RenderedIs ==
    ASSUME NEW s \in LoginStates
    PROVE  /\ Rendered(s) \in LoginStates
           /\ Rendered(s).totp = s.totp /\ Rendered(s).passkey = s.passkey
           /\ Rendered(s).update = s.update
           /\ Rendered(s).fallback = s.fallback
           /\ Rendered(s).submitting = s.submitting
           /\ Rendered(s).inPasskey = s.inPasskey
           /\ Rendered(s).loading = s.loading
           /\ Rendered(s).signedIn = s.signedIn
           /\ Rendered(s).waits = s.waits
BY DEF LoginStates, Rendered, RedirectUrl

(* The page opens with no form but the first.                              *)
LEMMA LoginBegins == LoginInit => LoginInv
<1> SUFFICES ASSUME LoginInit PROVE LoginInv OBVIOUS
<1>1. PICK account \in Accounts, waits, adminTarget, noRedirect \in BOOLEAN,
           domain, disabled \in BOOLEAN, providers \in 0 .. 2 :
          /\ noRedirect => providers = 1
          /\ server = [account |-> account, domain |-> domain,
                       providers |-> providers, disabled |-> disabled,
                       challenges |-> {}, codeUsed |-> FALSE]
          /\ state = [loading |-> TRUE, noDomain |-> FALSE, providers |-> 0,
                      disabled |-> FALSE, noRedirect |-> noRedirect,
                      password |-> "none", code |-> "none",
                      totp |-> FALSE, passkey |-> FALSE, update |-> FALSE,
                      fallback |-> FALSE, challenge |-> 0,
                      submitting |-> FALSE, inPasskey |-> FALSE,
                      invalid |-> FALSE, passkeyFailed |-> FALSE,
                      signedIn |-> FALSE, settings |-> FALSE, left |-> "no",
                      adminTarget |-> adminTarget, waits |-> waits]
  BY DEF LoginInit
<1>2. clicks = 0 /\ blocked = FALSE /\ calls = {[what |-> "org"]}
  BY DEF LoginInit
<1>3. LoginTypes
  BY <1>1, <1>2 DEF LoginTypes, LoginStates
<1> QED BY <1>1, <1>2, <1>3 DEF LoginInv, Factors, Patience, SentWhile

(* A click of a user who waits meets no call.                              *)
LEMMA NothingUnderWay ==
    ASSUME LoginInv, Trier
    PROVE  /\ state.waits => calls = {} /\ ~state.inPasskey /\ ~state.submitting
           /\ ~blocked /\ blocked' = blocked /\ clicks' \in Nat /\ server' = server
<1>1. ~blocked /\ blocked' = blocked /\ clicks' \in Nat /\ server' = server
  BY DEF Trier, Click, LoginInv, LoginTypes
<1>2. ASSUME state.waits, NEW call \in calls PROVE FALSE
  BY <1>1, <1>2 DEF Trier, LoginInv, Patience, SentWhile
<1> QED BY <1>1, <1>2 DEF Trier

(* How an action leaves the flags that matter.                             *)
LEMMA LoginGoesOn ==
    ASSUME LoginInv, NEW s \in LoginStates, Shows(s) \/ state' = s, s.waits = state.waits,
           clicks' \in Nat, blocked' = blocked, ~blocked,
           server' \in [account : Accounts, domain : BOOLEAN,
                        providers : 0 .. 2, disabled : BOOLEAN,
                        challenges : SUBSET Nat, codeUsed : BOOLEAN],
           \A call \in calls' : call.what = "login" => call.n \in Nat,
           s.update => server'.account.update \/ s.signedIn,
           s.passkey \/ s.totp \/ s.fallback => ~server'.account.update,
           s.totp \/ s.fallback => server'.account.totp,
           s.waits =>
             /\ \A c, d \in calls' : c = d
             /\ ~(s.passkey /\ s.totp)
             /\ \A call \in calls' :
                 /\ call.what \in {"org", "single"} => s.loading
                 /\ call.what = "login" /\ ~call.credential =>
                       /\ s.submitting /\ ~s.passkey
                       /\ s.totp => call.code # "none"
                 /\ call.what = "login" /\ call.credential => s.inPasskey
                 /\ call.what \in {"dialogue", "begin", "finish"} => s.inPasskey
                 /\ call.what = "updatepw" => s.submitting
                 /\ call.what = "settings" => s.submitting \/ s.inPasskey
                 /\ call.what \in {"org", "single", "login", "dialogue",
                                   "begin", "finish", "updatepw", "settings"}
    PROVE  LoginInv'
<1>1. /\ state' \in LoginStates
      /\ state'.totp = s.totp /\ state'.passkey = s.passkey
      /\ state'.update = s.update /\ state'.fallback = s.fallback
      /\ state'.submitting = s.submitting /\ state'.inPasskey = s.inPasskey
      /\ state'.loading = s.loading /\ state'.signedIn = s.signedIn
      /\ state'.waits = s.waits
  <2>1. CASE Shows(s) BY <2>1, RenderedIs DEF Shows
  <2>2. CASE state' = s BY <2>2
  <2> QED BY <2>1, <2>2
<1>2. LoginTypes'
  BY <1>1 DEF LoginTypes
<1>3. Factors'
  BY <1>1 DEF Factors
<1>4. Patience'
  BY <1>1 DEF Patience, SentWhile
<1> QED BY <1>2, <1>3, <1>4 DEF LoginInv

(* The invariant implies that one form is asked for.                       *)
LEMMA LoginIsEnough == LoginInv => OneForm
<1> SUFFICES ASSUME LoginInv, page = "login", state.waits, Forms(state), ~blocked
             PROVE  Cardinality(FormsShown(state)) = 1
  BY DEF OneForm
<1>1. /\ ~(state.passkey /\ state.totp) /\ ~state.signedIn
      /\ ~(state.update /\ (state.passkey \/ state.totp))
  BY DEF LoginInv, Factors, Patience, Forms
<1>2. \E f : FormsShown(state) = {f}
  <2>1. CASE state.passkey
    <3>1. FormsShown(state) = {"passkey"} BY <1>1, <2>1 DEF FormsShown
    <3> QED BY <3>1
  <2>2. CASE state.totp
    <3>1. FormsShown(state) = {"totp"} BY <1>1, <2>2 DEF FormsShown
    <3> QED BY <3>1
  <2>3. CASE ~state.passkey /\ ~state.totp /\ state.update
    <3>1. FormsShown(state) = {"update"} BY <2>3 DEF FormsShown
    <3> QED BY <3>1
  <2>4. CASE ~state.passkey /\ ~state.totp /\ ~state.update
    <3>1. FormsShown(state) = {"password"} BY <2>4 DEF FormsShown
    <3> QED BY <3>1
  <2> QED BY <2>1, <2>2, <2>3, <2>4
<1> QED BY <1>2, FS_Singleton

(* A click or a key that sends nothing.                                    *)
LEMMA LoginClicks ==
    ASSUME LoginInv,
           \/ UseProvider \/ UsePassword \/ BackToLogin \/ UseTotpInstead
           \/ \E password \in {"right", "wrong"} : TypePassword(password)
           \/ TypeCode("part")
    PROVE  LoginInv'
<1> DEFINE ServerTypes == [account : Accounts, domain : BOOLEAN,
                        providers : 0 .. 2, disabled : BOOLEAN,
                        challenges : SUBSET Nat, codeUsed : BOOLEAN]
<1>1. /\ state \in LoginStates /\ server \in ServerTypes
      /\ \A call \in calls : call.what = "login" => call.n \in Nat
      /\ state.waits /\ ~blocked => ~(state.passkey /\ state.totp)
  BY DEF LoginInv, LoginTypes, Patience
<1>2. /\ state.update => server.account.update \/ state.signedIn
      /\ state.passkey \/ state.totp \/ state.fallback => ~server.account.update
      /\ state.totp \/ state.fallback => server.account.totp
  BY DEF LoginInv, Factors
<1>3. Trier /\ calls' = calls
  BY DEF UseProvider, UsePassword, BackToLogin, UseTotpInstead, TypePassword,
     TypeCode, OnForm
<1>4. /\ state.waits => calls = {} /\ ~state.inPasskey /\ ~state.submitting
      /\ ~blocked /\ blocked' = blocked /\ clicks' \in Nat /\ server' = server
  BY <1>3, NothingUnderWay
<1>5. PICK s \in LoginStates :
        /\ Shows(s) /\ s.waits = state.waits /\ s.signedIn = state.signedIn
        /\ s.update => state.update
        /\ s.fallback = state.fallback
        /\ \/ s.passkey = state.passkey /\ s.totp = state.totp
           \/ ~s.passkey /\ s.totp /\ state.fallback
  <2>1. CASE UseProvider
    <3> DEFINE s == [state EXCEPT !.left = "provider"]
    <3>1. s \in LoginStates /\ Shows(s)
      BY <1>1, <2>1 DEF UseProvider, LoginStates
    <3> QED BY <1>1, <3>1 DEF LoginStates
  <2>2. CASE UsePassword
    <3> DEFINE s == [state EXCEPT !.providers = 0]
    <3>1. s \in LoginStates /\ Shows(s)
      BY <1>1, <2>2 DEF UsePassword, LoginStates
    <3> QED BY <1>1, <3>1 DEF LoginStates
  <2>3. CASE BackToLogin
    <3> DEFINE s == [state EXCEPT !.update = FALSE, !.password = "none"]
    <3>1. s \in LoginStates /\ Shows(s)
      BY <1>1, <2>3 DEF BackToLogin, LoginStates
    <3> QED BY <1>1, <3>1, ZenonT(40) DEF LoginStates
  <2>4. CASE UseTotpInstead
    <3> DEFINE s == [state EXCEPT !.passkey = FALSE, !.totp = TRUE]
    <3>1. s \in LoginStates /\ Shows(s) /\ state.fallback
      BY <1>1, <2>4 DEF UseTotpInstead, LoginStates
    <3> QED BY <1>1, <3>1 DEF LoginStates
  <2>5. ASSUME NEW password \in {"right", "wrong"}, TypePassword(password)
        PROVE  \E s \in LoginStates :
        /\ Shows(s) /\ s.waits = state.waits /\ s.signedIn = state.signedIn
        /\ s.update => state.update
        /\ s.fallback = state.fallback
        /\ \/ s.passkey = state.passkey /\ s.totp = state.totp
           \/ ~s.passkey /\ s.totp /\ state.fallback
    <3> DEFINE s == [state EXCEPT !.password = password, !.invalid = FALSE,
                           !.passkeyFailed = FALSE]
    <3>1. s \in LoginStates /\ Shows(s)
      BY <1>1, <2>5 DEF TypePassword, LoginStates
    <3>2. /\ s.waits = state.waits /\ s.signedIn = state.signedIn
          /\ s.update = state.update /\ s.fallback = state.fallback
          /\ s.passkey = state.passkey /\ s.totp = state.totp
      BY <1>1 DEF LoginStates
    <3> HIDE DEF s
    <3> QED BY <3>1, <3>2
  <2>6. CASE TypeCode("part")
    <3> DEFINE s == [state EXCEPT !.code = "part", !.invalid = FALSE]
    <3>1. s \in LoginStates /\ Shows(s)
      BY <1>1, <2>6 DEF TypeCode, LoginStates
    <3>2. /\ s.waits = state.waits /\ s.signedIn = state.signedIn
          /\ s.update = state.update /\ s.fallback = state.fallback
          /\ s.passkey = state.passkey /\ s.totp = state.totp
      BY <1>1 DEF LoginStates
    <3> HIDE DEF s
    <3> QED BY <3>1, <3>2
  <2> QED BY <2>1, <2>2, <2>3, <2>4, <2>5, <2>6
<1> QED BY <1>1, <1>2, <1>3, <1>4, <1>5, LoginGoesOn

(* What is sent with a click.                                              *)
LEMMA LoginSends ==
    ASSUME LoginInv,
           \/ SubmitPassword \/ AssertAgain \/ LoginWithPasskey
           \/ \E code \in {"right", "wrong"} : TypeCode(code)
           \/ \E same \in BOOLEAN : SubmitNewPassword(same)
    PROVE  LoginInv'
<1> DEFINE ServerTypes == [account : Accounts, domain : BOOLEAN,
                        providers : 0 .. 2, disabled : BOOLEAN,
                        challenges : SUBSET Nat, codeUsed : BOOLEAN]
<1>1. /\ state \in LoginStates /\ server \in ServerTypes /\ clicks \in Nat
      /\ \A call \in calls : call.what = "login" => call.n \in Nat
      /\ state.waits /\ ~blocked => ~(state.passkey /\ state.totp)
  BY DEF LoginInv, LoginTypes, Patience
<1>2. /\ state.update => server.account.update \/ state.signedIn
      /\ state.passkey \/ state.totp \/ state.fallback => ~server.account.update
      /\ state.totp \/ state.fallback => server.account.totp
  BY DEF LoginInv, Factors
<1>3. Trier
  BY DEF SubmitPassword, AssertAgain, LoginWithPasskey, SubmitNewPassword,
     TypeCode, OnForm
<1>4. /\ state.waits => calls = {} /\ ~state.inPasskey /\ ~state.submitting
      /\ ~blocked /\ blocked' = blocked /\ clicks' \in Nat /\ server' = server
  BY <1>3, NothingUnderWay
<1> DEFINE Fine(s, c) ==
      /\ Shows(s) /\ calls' = calls \cup {c}
      /\ s.waits = state.waits /\ s.signedIn = state.signedIn
      /\ s.update = state.update /\ s.fallback = state.fallback
      /\ s.passkey = state.passkey /\ s.totp = state.totp
      /\ \/ /\ c.what = "login" /\ ~c.credential /\ s.submitting /\ c.n \in Nat
            /\ state.waits => ~s.passkey
            /\ s.totp => c.code # "none"
         \/ c.what \in {"dialogue", "begin"} /\ s.inPasskey
         \/ c.what = "updatepw" /\ s.submitting
<1>5. \E s \in LoginStates : \E c : Fine(s, c)
  <2>1. CASE SubmitPassword
    <3> DEFINE s == [state EXCEPT !.submitting = TRUE]  c == Login(state, FALSE)
    <3>1. s \in LoginStates /\ Shows(s) /\ calls' = calls \cup {c}
      BY <1>1, <2>1 DEF SubmitPassword, Submit, LoginStates
    <3>2. ~state.passkey /\ ~state.totp
      BY <2>1 DEF SubmitPassword, OnForm, FormsShown
    <3>3. c.what = "login" /\ ~c.credential /\ c.n \in Nat
      BY <1>1 DEF Login
    <3> HIDE DEF c
    <3>4. Fine(s, c)
      BY <1>1, <3>1, <3>2, <3>3 DEF LoginStates
    <3> HIDE DEF s, Fine
    <3> QED BY <3>1, <3>4
  <2>2. CASE AssertAgain
    <3> DEFINE s == [state EXCEPT !.inPasskey = TRUE, !.invalid = FALSE]
               c == [what |-> "dialogue", challenge |-> state.challenge]
    <3>1. s \in LoginStates /\ Shows(s) /\ calls' = calls \cup {c}
      BY <1>1, <2>2 DEF AssertAgain, AskPasskey, LoginStates
    <3>3. c.what = "dialogue"
      OBVIOUS
    <3> HIDE DEF c
    <3>4. Fine(s, c)
      BY <1>1, <3>1, <3>3 DEF LoginStates
    <3> HIDE DEF s, Fine
    <3> QED BY <3>1, <3>4
  <2>3. CASE LoginWithPasskey
    <3> DEFINE s == [state EXCEPT !.inPasskey = TRUE, !.invalid = FALSE]
               c == [what |-> "begin"]
    <3>1. s \in LoginStates /\ Shows(s) /\ calls' = calls \cup {c}
      BY <1>1, <2>3 DEF LoginWithPasskey, LoginStates
    <3>3. c.what = "begin"
      OBVIOUS
    <3> HIDE DEF c
    <3>4. Fine(s, c)
      BY <1>1, <3>1, <3>3 DEF LoginStates
    <3> HIDE DEF s, Fine
    <3> QED BY <3>1, <3>4
  <2>4. ASSUME NEW code \in {"right", "wrong"}, TypeCode(code)
        PROVE  \E s \in LoginStates : \E c : Fine(s, c)
    <3> DEFINE t == [state EXCEPT !.code = code, !.invalid = FALSE]
               s == [t EXCEPT !.submitting = TRUE]  c == Login(t, FALSE)
    <3>1. Shows(s) /\ calls' = calls \cup {c} /\ state.totp
      BY <2>4 DEF TypeCode, Submit, OnForm, FormsShown
    <3>2. t \in LoginStates /\ t.code = code
      BY <1>1 DEF LoginStates
    <3>3. c.what = "login" /\ ~c.credential /\ c.n \in Nat /\ c.code # "none"
      BY <1>1, <3>2 DEF Login
    <3> HIDE DEF c
    <3>4. s \in LoginStates
      BY <1>1 DEF LoginStates
    <3>5. Fine(s, c)
      BY <1>1, <1>4, <3>1, <3>3 DEF LoginStates
    <3> HIDE DEF s, Fine
    <3> QED BY <3>4, <3>5
  <2>5. ASSUME NEW same \in BOOLEAN, SubmitNewPassword(same)
        PROVE  \E s \in LoginStates : \E c : Fine(s, c)
    <3> DEFINE s == [state EXCEPT !.submitting = TRUE]
               c == [what |-> "updatepw", password |-> state.password,
                             same |-> same, n |-> clicks]
    <3>1. s \in LoginStates /\ Shows(s) /\ calls' = calls \cup {c}
      BY <1>1, <2>5 DEF SubmitNewPassword, LoginStates
    <3>3. c.what = "updatepw"
      OBVIOUS
    <3> HIDE DEF c
    <3>4. Fine(s, c)
      BY <1>1, <3>1, <3>3 DEF LoginStates
    <3> HIDE DEF s, Fine
    <3> QED BY <3>1, <3>4
  <2> HIDE DEF Fine
  <2> QED BY <2>1, <2>2, <2>3, <2>4, <2>5
<1>6. PICK s \in LoginStates : \E c : Fine(s, c)
  BY <1>5
<1>7. PICK c : Fine(s, c)
  BY <1>6
<1> QED BY <1>1, <1>2, <1>4, <1>7, LoginGoesOn

(* What the server keeps of the login.                                     *)
LoginServers == [account : Accounts, domain : BOOLEAN, providers : 0 .. 2,
                 disabled : BOOLEAN, challenges : SUBSET Nat,
                 codeUsed : BOOLEAN]

(* An answer finds a user who waits with no other call under way.          *)
LEMMA AnswerComes ==
    ASSUME LoginInv, NEW call \in calls
    PROVE  /\ ~blocked /\ state \in LoginStates /\ server \in LoginServers
           /\ clicks \in Nat
           /\ \A c \in calls : c.what = "login" => c.n \in Nat
           /\ state.update => server.account.update \/ state.signedIn
           /\ state.passkey \/ state.totp \/ state.fallback =>
                ~server.account.update
           /\ state.totp \/ state.fallback => server.account.totp
           /\ state.waits =>
                calls = {call} /\ SentWhile(call) /\ ~(state.passkey /\ state.totp)
BY DEF LoginInv, LoginTypes, Factors, Patience, LoginServers

(* What an answer leaves: the page shows s, and of the calls only d is new. *)
LEMMA Answered ==
    ASSUME LoginInv, NEW call \in calls, NEW d,
           blocked' = blocked, clicks' = clicks, NEW s \in LoginStates,
           Shows(s) \/ state' = s, s.waits = state.waits,
           server' \in LoginServers,
           calls' = calls \ {call} \/ calls' = (calls \ {call}) \cup {d},
           s.update => server'.account.update \/ s.signedIn,
           s.passkey \/ s.totp \/ s.fallback => ~server'.account.update,
           s.totp \/ s.fallback => server'.account.totp,
           state.waits /\ ~(state.passkey /\ state.totp) =>
                ~(s.passkey /\ s.totp),
           calls' # calls \ {call} =>
             /\ d.what = "login" => d.n \in Nat
             /\ state.waits =>
                 \/ d.what = "single" /\ s.loading
                 \/ d.what = "login" /\ d.credential /\ s.inPasskey
                 \/ d.what \in {"dialogue", "finish"} /\ s.inPasskey
                 \/ d.what = "settings" /\ (s.submitting \/ s.inPasskey)
    PROVE  LoginInv'
<1>1. /\ ~blocked /\ clicks' \in Nat
      /\ \A c \in calls : c.what = "login" => c.n \in Nat
      /\ state.waits => calls = {call} /\ ~(state.passkey /\ state.totp)
  BY AnswerComes
<1>2. CASE calls' = calls \ {call}
  BY <1>1, <1>2, LoginGoesOn DEF LoginServers
<1>3. CASE calls' # calls \ {call}
  <2>1. calls' = (calls \ {call}) \cup {d} BY <1>3
  <2>2. state.waits => calls' = {d} BY <1>1, <2>1
  <2> QED BY <1>1, <1>3, <2>1, <2>2, LoginGoesOn DEF LoginServers
<1> QED BY <1>2, <1>3

(* The organization was found, or not.                                     *)
LEMMA OrganisationKnown ==
    ASSUME LoginInv, NEW what \in {"org", "single"},
           OrgFound(what) \/ OrgNotFound(what)
    PROVE  LoginInv'
<1> DEFINE c == [what |-> what]
<1>1. c \in calls /\ blocked' = blocked /\ clicks' = clicks /\ server' = server
  BY DEF OrgFound, OrgNotFound, Goes
<1>2. c.what = what OBVIOUS
<1>3. CASE OrgFound(what)
  <2> DEFINE s == ApplyOrg(state)
             left == IF server.providers = 1 /\ ~state.noRedirect
                     THEN "provider" ELSE state.left
  <2>1. Shows(s) /\ calls' = calls \ {c}
    BY <1>3 DEF OrgFound
  <2> HIDE DEF c
  <2>2. state \in LoginStates /\ server \in LoginServers
    BY <1>1, AnswerComes
  <2>3. s = [state EXCEPT !.loading = FALSE, !.providers = server.providers,
                          !.disabled = server.disabled, !.left = left]
    BY <2>2 DEF ApplyOrg, LoginStates
  <2>4. left \in {"no", "provider", "search", "target"}
    BY <2>2 DEF LoginStates
  <2> HIDE DEF s, left
  <2>5. /\ s \in LoginStates
        /\ s.waits = state.waits /\ s.signedIn = state.signedIn
        /\ s.update = state.update /\ s.fallback = state.fallback
        /\ s.passkey = state.passkey /\ s.totp = state.totp
    BY <2>2, <2>3, <2>4, ZenonT(40) DEF LoginStates, LoginServers
  <2> QED BY <1>1, <2>1, <2>5, AnswerComes, Answered
<1>4. CASE OrgNotFound(what) /\ what = "org"
  <2> DEFINE d == [what |-> "single"]
  <2>1. calls' = (calls \ {c}) \cup {d} /\ Shows(state)
    BY <1>4 DEF OrgNotFound
  <2>2. d.what = "single" OBVIOUS
  <2> HIDE DEF c, d
  <2>3. state.waits => state.loading
    BY <1>1, <1>2, <1>4, AnswerComes DEF SentWhile
  <2> QED BY <1>1, <2>1, <2>2, <2>3, AnswerComes, Answered
<1>5. CASE OrgNotFound(what) /\ what # "org"
  <2> DEFINE s == [state EXCEPT !.noDomain = TRUE, !.loading = FALSE]
  <2>1. Shows(s) /\ calls' = calls \ {c}
    BY <1>5 DEF OrgNotFound
  <2> HIDE DEF c
  <2>2. s \in LoginStates
    BY <1>1, AnswerComes DEF LoginStates
  <2>3. /\ s.waits = state.waits /\ s.signedIn = state.signedIn
        /\ s.update = state.update /\ s.fallback = state.fallback
        /\ s.passkey = state.passkey /\ s.totp = state.totp
    BY <1>1, AnswerComes DEF LoginStates
  <2> HIDE DEF s
  <2> QED BY <1>1, <2>1, <2>2, <2>3, AnswerComes, Answered
<1> QED BY <1>3, <1>4, <1>5

(* What the server's verdict says of the account.                          *)
LEMMA VerdictSays ==
    ASSUME NEW call, server \in LoginServers, NEW verdict \in Verdicts(call)
    PROVE  /\ verdict \in {"ok", "update wanted", "code wanted",
                           "passkey wanted", "refused"}
           /\ verdict = "update wanted" => server.account.update
           /\ verdict \in {"code wanted", "passkey wanted"} =>
                ~server.account.update
           /\ verdict = "code wanted" => server.account.totp
           /\ verdict = "passkey wanted" =>
                call.code = "none" \/ ~server.account.totp \/ call.credential
<1>1. \A v : v = TotpVerdict(call) =>
          /\ v \in {"ok", "code wanted", "refused"}
          /\ v = "code wanted" => server.account.totp
  BY DEF TotpVerdict
<1>2. \A v \in PasskeyVerdicts(call) :
          /\ v \in {"ok", "code wanted", "passkey wanted", "refused"}
          /\ v = "code wanted" => server.account.totp
          /\ v = "passkey wanted" =>
                call.code = "none" \/ ~server.account.totp \/ call.credential
  BY <1>1 DEF PasskeyVerdicts
<1>3. CASE verdict = "refused" BY <1>3
<1>4. CASE verdict # "refused" /\ call.password # "right"
  BY <1>4 DEF Verdicts, Judged
<1>5. CASE /\ verdict # "refused" /\ call.password = "right"
           /\ server.account.update
  BY <1>5 DEF Verdicts, Judged
<1>6. CASE /\ verdict # "refused" /\ call.password = "right"
           /\ ~server.account.update
  <2>1. Judged(call) = PasskeyVerdicts(call) BY <1>6 DEF Judged
  <2>2. verdict \in PasskeyVerdicts(call) BY <1>6, <2>1 DEF Verdicts
  <2> QED BY <1>2, <1>6, <2>2
<1> QED BY <1>3, <1>4, <1>5, <1>6

(* A login succeeds: the settings are asked for.                           *)
LEMMA Succeeded ==
    ASSUME LoginInv, NEW call \in calls, Succeeds(state, call),
           call.what \in {"login", "updatepw", "finish"},
           blocked' = blocked, clicks' = clicks, server' \in LoginServers,
           server.account.update \/ ~server'.account.update,
           server'.account.totp = server.account.totp
    PROVE  LoginInv'
<1> DEFINE s == [state EXCEPT !.signedIn = TRUE]  d == [what |-> "settings"]
<1>1. state' = s /\ calls' = (calls \ {call}) \cup {d}
  BY DEF Succeeds
<1>2. s \in LoginStates
  BY AnswerComes DEF LoginStates
<1>3. /\ s.waits = state.waits /\ s.signedIn
      /\ s.update = state.update /\ s.fallback = state.fallback
      /\ s.passkey = state.passkey /\ s.totp = state.totp
      /\ s.submitting = state.submitting /\ s.inPasskey = state.inPasskey
  BY AnswerComes DEF LoginStates
<1>4. d.what = "settings" OBVIOUS
<1> HIDE DEF s, d
<1>5. state.waits => s.submitting \/ s.inPasskey
  BY <1>3, AnswerComes DEF SentWhile
<1>6. s.passkey \/ s.totp \/ s.fallback => ~server'.account.update
  BY <1>3, AnswerComes
<1> QED BY <1>1, <1>2, <1>3, <1>4, <1>5, <1>6, AnswerComes, Answered

(* The answer to a password, with a code or without: the verdict opens the *)
(* form of what is still wanted and closes the others.                     *)
LEMMA PasswordJudged ==
    ASSUME LoginInv, NEW call \in calls, PasswordAnswered(call)
    PROVE  LoginInv'
<1> DEFINE s(v) == [state EXCEPT !.submitting = FALSE, !.invalid = v = "refused"]
           n == call.n + 1
<1>1. /\ call.what = "login" /\ ~call.credential
      /\ blocked' = blocked /\ clicks' = clicks
  BY DEF PasswordAnswered, LoginTakes, Goes
<1>2. PICK v \in Verdicts(call) :
         CASE v = "ok" ->
                /\ Succeeds(state, call)
                /\ server' = [server EXCEPT !.codeUsed = @ \/ call.code = "right"]
           [] v = "update wanted" ->
                /\ Shows([s(v) EXCEPT !.update = TRUE])
                /\ calls' = calls \ {call} /\ UNCHANGED server
           [] v = "code wanted" ->
                /\ Shows([s(v) EXCEPT !.totp = TRUE])
                /\ calls' = calls \ {call} /\ UNCHANGED server
           [] v = "passkey wanted" ->
                /\ AskPasskey([s(v) EXCEPT !.passkey = TRUE, !.challenge = n,
                                    !.fallback = server.account.totp],
                          n, calls \ {call})
                /\ server' = [server EXCEPT !.challenges = @ \cup {n}]
           [] v = "refused" ->
                /\ Shows(s(v))
                /\ calls' = calls \ {call} /\ UNCHANGED server
  BY DEF PasswordAnswered
<1>3. /\ state \in LoginStates /\ server \in LoginServers /\ n \in Nat
      /\ server.account \in Accounts
  BY <1>1, AnswerComes DEF LoginServers
<1>4. /\ state.waits =>
            ~state.passkey /\ (state.totp => call.code # "none")
      /\ state.update => server.account.update \/ state.signedIn
      /\ state.passkey \/ state.totp \/ state.fallback => ~server.account.update
      /\ state.totp \/ state.fallback => server.account.totp
  BY <1>1, AnswerComes DEF SentWhile
<1>5. CASE v = "ok"
  <2>1. /\ Succeeds(state, call)
        /\ server' = [server EXCEPT !.codeUsed = @ \/ call.code = "right"]
    BY <1>2, <1>5
  <2> DEFINE used == server.codeUsed \/ call.code = "right"
  <2>2. used \in BOOLEAN OBVIOUS
  <2>3. server' = [server EXCEPT !.codeUsed = used] BY <2>1
  <2> HIDE DEF used
  <2>4. server' \in LoginServers /\ server'.account = server.account
    BY <1>3, <2>2, <2>3 DEF LoginServers
  <2> QED BY <1>1, <2>1, <2>4, Succeeded
<1> DEFINE wrong == v = "refused"
<1>6. wrong \in BOOLEAN OBVIOUS
<1>7. s(v) = [state EXCEPT !.submitting = FALSE, !.invalid = wrong]
  OBVIOUS
<1> HIDE DEF wrong, s
<1>8. /\ s(v) \in LoginStates
      /\ s(v).waits = state.waits /\ s(v).signedIn = state.signedIn
      /\ s(v).update = state.update /\ s(v).fallback = state.fallback
      /\ s(v).passkey = state.passkey /\ s(v).totp = state.totp
  BY <1>3, <1>6, <1>7, ZenonT(40) DEF LoginStates
<1>9. CASE v = "update wanted"
  <2> DEFINE r == [s(v) EXCEPT !.update = TRUE]
  <2>1. Shows(r) /\ calls' = calls \ {call} /\ server' = server
    BY <1>2, <1>9
  <2>2. /\ r \in LoginStates
        /\ r.waits = state.waits /\ r.signedIn = state.signedIn
        /\ r.update /\ r.fallback = state.fallback
        /\ r.passkey = state.passkey /\ r.totp = state.totp
    BY <1>8 DEF LoginStates
  <2>3. server.account.update
    BY <1>3, <1>9, VerdictSays
  <2> HIDE DEF r
  <2> QED BY <1>1, <1>3, <1>4, <2>1, <2>2, <2>3, Answered
<1>10. CASE v = "code wanted"
  <2> DEFINE r == [s(v) EXCEPT !.totp = TRUE]
  <2>1. Shows(r) /\ calls' = calls \ {call} /\ server' = server
    BY <1>2, <1>10
  <2>2. /\ r \in LoginStates
        /\ r.waits = state.waits /\ r.signedIn = state.signedIn
        /\ r.update = state.update /\ r.fallback = state.fallback
        /\ r.passkey = state.passkey /\ r.totp
    BY <1>8 DEF LoginStates
  <2>3. ~server.account.update /\ server.account.totp
    BY <1>3, <1>10, VerdictSays
  <2> HIDE DEF r
  <2> QED BY <1>1, <1>3, <1>4, <2>1, <2>2, <2>3, Answered
<1>11. CASE v = "passkey wanted"
  <2> DEFINE r == [s(v) EXCEPT !.passkey = TRUE, !.challenge = n,
                               !.fallback = server.account.totp]
             q == [r EXCEPT !.inPasskey = TRUE, !.invalid = FALSE]
             d == [what |-> "dialogue", challenge |-> n]
  <2>1. /\ Shows(q) /\ calls' = (calls \ {call}) \cup {d}
        /\ server' = [server EXCEPT !.challenges = @ \cup {n}]
    BY <1>2, <1>11 DEF AskPasskey
  <2>2. /\ r \in LoginStates
        /\ r.waits = state.waits /\ r.signedIn = state.signedIn
        /\ r.update = state.update /\ r.fallback = server.account.totp
        /\ r.passkey /\ r.totp = state.totp
    BY <1>3, <1>8 DEF LoginStates, Accounts
  <2> HIDE DEF r
  <2>3. /\ q \in LoginStates
        /\ q.waits = state.waits /\ q.signedIn = state.signedIn
        /\ q.update = state.update /\ q.fallback = server.account.totp
        /\ q.passkey /\ q.totp = state.totp /\ q.inPasskey
    BY <2>2 DEF LoginStates
  <2>4. d.what = "dialogue" OBVIOUS
  <2>5. server' \in LoginServers /\ server'.account = server.account
    BY <1>3, <2>1 DEF LoginServers
  <2>6. /\ ~server.account.update
        /\ call.code = "none" \/ ~server.account.totp
    BY <1>1, <1>3, <1>11, VerdictSays
  <2>7. state.waits => ~state.totp
    BY <1>4, <2>6
  <2> HIDE DEF q, d
  <2> QED BY <1>1, <1>3, <1>4, <2>1, <2>3, <2>4, <2>5, <2>6, <2>7, Answered
<1>12. CASE v = "refused"
  <2>1. Shows(s(v)) /\ calls' = calls \ {call} /\ server' = server
    BY <1>2, <1>12
  <2> QED BY <1>1, <1>3, <1>4, <1>8, <2>1, Answered
<1> QED BY <1>3, <1>5, <1>9, <1>10, <1>11, <1>12, VerdictSays

(* An assertion that fails closes the question for the passkey, and opens  *)
(* the one for the code to a user who fell back to it.                     *)
LEMMA AssertionFails ==
    ASSUME LoginInv, NEW call \in calls, AssertionFailed(call),
           blocked' = blocked, clicks' = clicks, server' \in LoginServers,
           server'.account = server.account
    PROVE  LoginInv'
<1> DEFINE totp == state.totp \/ state.fallback
           invalid == ~state.fallback
           s == [state EXCEPT !.inPasskey = FALSE, !.passkey = FALSE,
                              !.totp = totp, !.invalid = invalid]
<1>1. state \in LoginStates
  BY AnswerComes
<1>2. Shows(s) /\ calls' = calls \ {call}
  BY <1>1 DEF AssertionFailed, LoginStates
<1>3. totp \in BOOLEAN /\ invalid \in BOOLEAN
  OBVIOUS
<1>4. totp => state.totp \/ state.fallback
  OBVIOUS
<1> HIDE DEF totp, invalid
<1>5. s \in LoginStates
  BY <1>1, <1>3 DEF LoginStates
<1>6. /\ s.waits = state.waits /\ s.signedIn = state.signedIn
      /\ s.update = state.update /\ s.fallback = state.fallback
      /\ ~s.passkey
  BY <1>1 DEF LoginStates
<1>7. s.totp = totp
  BY <1>1 DEF LoginStates
<1> HIDE DEF s
<1> QED BY <1>1, <1>2, <1>4, <1>5, <1>6, <1>7, AnswerComes, Answered

(* The browser's dialogue ends with an assertion or without.               *)
LEMMA DialogueCloses ==
    ASSUME LoginInv, NEW call \in calls, NEW given \in BOOLEAN,
           DialogueAnswered(call, given)
    PROVE  LoginInv'
<1>1. /\ call.what = "dialogue" /\ blocked' = blocked /\ clicks' = clicks
      /\ server' = server
  BY DEF DialogueAnswered, LoginTakes, Goes
<1>2. CASE given
  <2> DEFINE d == [Login(state, TRUE) EXCEPT !.challenge = call.challenge]
  <2>1. calls' = (calls \ {call}) \cup {d} /\ state' = state
    BY <1>2 DEF DialogueAnswered
  <2>2. d.what = "login" /\ d.credential /\ d.n = clicks
    BY DEF Login
  <2> HIDE DEF d
  <2>3. state.waits => state.inPasskey
    BY <1>1, AnswerComes DEF SentWhile
  <2> QED BY <1>1, <2>1, <2>2, <2>3, AnswerComes, Answered
<1>3. CASE ~given
  BY <1>1, <1>3, AnswerComes, AssertionFails DEF DialogueAnswered
<1> QED BY <1>2, <1>3

(* The answer to an assertion.                                             *)
LEMMA AssertionJudged ==
    ASSUME LoginInv, NEW call \in calls, AssertionAnswered(call)
    PROVE  LoginInv'
<1>1. /\ call.what = "login" /\ blocked' = blocked /\ clicks' = clicks
      /\ server' = [server EXCEPT !.challenges = @ \ {call.challenge}]
      /\ Succeeds(state, call) \/ AssertionFailed(call)
  BY DEF AssertionAnswered, LoginTakes, Goes
<1>2. server' \in LoginServers /\ server'.account = server.account
  BY <1>1, AnswerComes DEF LoginServers
<1> QED BY <1>1, <1>2, Succeeded, AssertionFails

(* The answer to a new password.                                           *)
LEMMA PasswordUpdated ==
    ASSUME LoginInv, NEW call \in calls, UpdateAnswered(call)
    PROVE  LoginInv'
<1>1. call.what = "updatepw" /\ blocked' = blocked /\ clicks' = clicks
  BY DEF UpdateAnswered, LoginTakes, Goes
<1>2. state \in LoginStates /\ server \in LoginServers
  BY AnswerComes
<1>3. CASE /\ server.account.update
           /\ Succeeds(state, call)
           /\ server' = [server EXCEPT !.account.update = FALSE]
  <2> DEFINE a == [server.account EXCEPT !.update = FALSE]
  <2>1. Succeeds(state, call) /\ server' = [server EXCEPT !.account = a]
    BY <1>2, <1>3 DEF LoginServers
  <2>2. a \in Accounts /\ ~a.update /\ a.totp = server.account.totp
    BY <1>2 DEF LoginServers, Accounts
  <2> HIDE DEF a
  <2>3. server' \in LoginServers /\ server'.account = a
    BY <1>2, <2>1, <2>2 DEF LoginServers
  <2> QED BY <1>1, <2>1, <2>2, <2>3, Succeeded
<1>4. CASE /\ Shows([state EXCEPT !.invalid = TRUE, !.submitting = FALSE])
           /\ calls' = calls \ {call} /\ UNCHANGED server
  <2> DEFINE s == [state EXCEPT !.invalid = TRUE, !.submitting = FALSE]
  <2>1. Shows(s) /\ calls' = calls \ {call} /\ server' = server
    BY <1>4
  <2>2. /\ s \in LoginStates
        /\ s.waits = state.waits /\ s.signedIn = state.signedIn
        /\ s.update = state.update /\ s.fallback = state.fallback
        /\ s.passkey = state.passkey /\ s.totp = state.totp
    BY <1>2 DEF LoginStates
  <2> HIDE DEF s
  <2> QED BY <1>1, <2>1, <2>2, AnswerComes, Answered
<1> QED BY <1>3, <1>4 DEF UpdateAnswered

(* The login with a passkey alone, and the settings after a login.         *)
LEMMA PasskeyGoesOn ==
    ASSUME LoginInv, NEW call \in calls,
           PasskeyBegun(call) \/ PasskeyFinished(call)
                              \/ LoginSettingsLoaded(call)
    PROVE  LoginInv'
<1>1. blocked' = blocked /\ clicks' = clicks /\ server' = server
  BY DEF PasskeyBegun, PasskeyFinished, LoginSettingsLoaded, LoginTakes, Goes
<1>2. state \in LoginStates
  BY AnswerComes
<1>3. CASE PasskeyFinished(call)
  BY <1>1, <1>3, AnswerComes, Succeeded DEF PasskeyFinished, LoginTakes
<1>4. CASE LoginSettingsLoaded(call)
  <2> DEFINE s == [state EXCEPT !.settings = TRUE, !.inPasskey = FALSE]
  <2>1. Shows(s) /\ calls' = calls \ {call}
    BY <1>4 DEF LoginSettingsLoaded
  <2>2. /\ s \in LoginStates
        /\ s.waits = state.waits /\ s.signedIn = state.signedIn
        /\ s.update = state.update /\ s.fallback = state.fallback
        /\ s.passkey = state.passkey /\ s.totp = state.totp
    BY <1>2 DEF LoginStates
  <2> HIDE DEF s
  <2> QED BY <1>1, <2>1, <2>2, AnswerComes, Answered
<1>5. CASE PasskeyBegun(call) /\ calls' = (calls \ {call}) \cup {[what |-> "finish"]}
                              /\ state' = state
  <2> DEFINE d == [what |-> "finish"]
  <2>1. calls' = (calls \ {call}) \cup {d} /\ state' = state
    BY <1>5
  <2>2. d.what = "finish" OBVIOUS
  <2> HIDE DEF d
  <2>3. state.waits => state.inPasskey
    BY <1>5, AnswerComes DEF PasskeyBegun, LoginTakes, SentWhile
  <2> QED BY <1>1, <2>1, <2>2, <2>3, AnswerComes, Answered
<1>6. ASSUME NEW cancelled \in BOOLEAN, calls' = calls \ {call},
             Shows([state EXCEPT !.inPasskey = FALSE,
                                 !.passkeyFailed = ~cancelled])
      PROVE  LoginInv'
  <2> DEFINE failed == ~cancelled
             s == [state EXCEPT !.inPasskey = FALSE, !.passkeyFailed = failed]
  <2>1. Shows(s) BY <1>6
  <2>2. failed \in BOOLEAN OBVIOUS
  <2> HIDE DEF failed
  <2>3. /\ s \in LoginStates
        /\ s.waits = state.waits /\ s.signedIn = state.signedIn
        /\ s.update = state.update /\ s.fallback = state.fallback
        /\ s.passkey = state.passkey /\ s.totp = state.totp
    BY <1>2, <2>2, ZenonT(40) DEF LoginStates
  <2> HIDE DEF s
  <2> QED BY <1>1, <1>6, <2>1, <2>3, AnswerComes, Answered
<1> QED BY <1>3, <1>4, <1>5, <1>6 DEF PasskeyBegun

(* Every step of the login page keeps the invariant.                       *)
LEMMA LoginSteps == LoginInv /\ [LoginNext]_webVars => LoginInv'
<1> SUFFICES ASSUME LoginInv, [LoginNext]_webVars PROVE LoginInv'
  OBVIOUS
<1>1. CASE UNCHANGED webVars
  BY <1>1 DEF webVars, LoginInv, LoginTypes, Factors, Patience, SentWhile
<1>2. CASE LoginCallFails
  <2>1. blocked' /\ calls' = {} /\ UNCHANGED <<state, clicks, server>>
    BY <1>2 DEF LoginCallFails, Blocks
  <2> QED BY <2>1 DEF LoginInv, LoginTypes, Factors, Patience
<1>3. CASE LoginAnswer
  BY <1>3, OrganisationKnown, PasswordJudged, AssertionJudged, DialogueCloses,
     PasswordUpdated, PasskeyGoesOn DEF LoginAnswer
<1>4. ASSUME NEW code \in {"part", "right", "wrong"}, TypeCode(code)
      PROVE  LoginInv'
  BY <1>4, LoginClicks, LoginSends
<1>5. CASE \/ UseProvider \/ UsePassword \/ BackToLogin \/ UseTotpInstead
           \/ \E password \in {"right", "wrong"} : TypePassword(password)
  BY <1>5, LoginClicks
<1>6. CASE \/ SubmitPassword \/ AssertAgain \/ LoginWithPasskey
           \/ \E same \in BOOLEAN : SubmitNewPassword(same)
  BY <1>6, LoginSends
<1> QED BY <1>1, <1>2, <1>3, <1>4, <1>5, <1>6 DEF LoginNext

(* Whatever accounts, second factors and clicks there are, the login page  *)
(* shows a user who waits for its answers exactly one form                 *)
(* (LoginPage!OneForm).                                                    *)
THEOREM OneFormForThePatient == ClientSpec => []OneForm
<1> DEFINE Inv == page = "login" => LoginInv
<1>1. ClientInit => Inv
  BY OnePage, LoginBegins
<1>2. Inv /\ [ClientNext]_webVars => Inv'
  <2> SUFFICES ASSUME Inv, [ClientNext]_webVars, page' = "login"
               PROVE  LoginInv'
    OBVIOUS
  <2>1. page = "login" /\ [LoginNext]_webVars
    BY OnePage
  <2> QED BY <2>1, LoginSteps
<1>3. Inv => OneForm
  BY LoginIsEnough DEF OneForm
<1> HIDE DEF Inv
<1> QED BY <1>1, <1>2, <1>3, PTL DEF ClientSpec

------------------------------------------------------------------------------
(* The preferences.                                                        *)

(* The types of the preferences: the calendar accounts, 0 for none, the    *)
(* calendars of an account, and what the server and the page hold.         *)
PrefAccounts == CalAccounts \cup {0}
PrefCalendars == [of : PrefAccounts, nr : Int]
PrefDays == [start : Int, end : Int]

PrefServers ==
    [day : PrefDays, rest : Int, colours : Int, password : BOOLEAN,
     account : PrefAccounts, calendar : PrefCalendars]

PrefStates ==
    [day : PrefDays, rest : Int, colours : Int, tick : BOOLEAN,
     account : PrefAccounts, calendar : PrefCalendars, listed : PrefAccounts,
     listLoaded : BOOLEAN, tab : Tabs, submitting : BOOLEAN,
     hint : {"none", "caldav", "saved"},
     modal : {"none", "bookings", "colours", "password"}, loading : BOOLEAN,
     waits : BOOLEAN]

(* The four items of a calendar are stored one after the other: stored     *)
(* counts those that arrived of account and calendar.                      *)
CalDavCalls ==
    [what : {"caldav"}, account : PrefAccounts, calendar : PrefCalendars,
     forget : BOOLEAN, stored : 0 .. 2]

PrefCalls(cs) ==
    \A c \in cs :
       /\ c.what = "bookings" => c.day \in PrefDays /\ c.rest \in Int
       /\ c.what = "colours" => c.colours \in Int
       /\ c.what = "list" => c.account \in PrefAccounts
       /\ c.what = "caldav" => c \in CalDavCalls

(* What the call under way has to do with the page and the server.         *)
Sent(c, s, v) ==
    /\ c.what = "load" => s.loading
    /\ c.what # "load" => s.submitting /\ ~s.loading
    /\ c.what = "bookings" => c.day = s.day /\ c.rest = s.rest
    /\ c.what = "colours" => c.colours = s.colours
    /\ c.what = "list" => c.account = s.account
    /\ c.what = "caldav" =>
          /\ c.calendar.of = c.account
          /\ c.stored = 1 => v.account = c.account
          /\ c.stored = 2 => v.account = c.account /\ v.calendar = c.calendar

(* For a user who waits: one call at a time; what is stored belongs        *)
(* together but between the two items of a calendar; what is listed        *)
(* belongs to the account on display.                                      *)
Kempt(s, v, cs) ==
    /\ \A c, d \in cs : c = d
    /\ \A c \in cs : Sent(c, s, v)
    /\ (\A c \in cs : c.what = "caldav" => c.stored # 1) =>
          v.calendar.of = v.account
    /\ s.loading => ~s.listLoaded
    /\ s.listLoaded =>
          /\ s.listed = s.account
          /\ s.calendar # NoCalendar => s.calendar.of = s.account
    /\ s.modal # "none" => cs = {}
    /\ s.modal = "bookings" => v.day = s.day /\ v.rest = s.rest
    /\ s.modal = "colours" => v.colours = s.colours

(* The inductive invariant of the preferences.                             *)
PrefInv ==
    /\ state \in PrefStates /\ server \in PrefServers /\ PrefCalls(calls)
    /\ state.waits /\ ~blocked => Kempt(state, server, calls)

(* No calendar is one of no account.                                       *)
LEMMA NoCalendarIs == NoCalendar \in PrefCalendars /\ NoCalendar.of = 0
BY DEF NoCalendar, Calendar, PrefCalendars, PrefAccounts

(* A calendar of an account is that account's.                             *)
LEMMA CalendarIs ==
    ASSUME NEW a \in PrefAccounts, NEW n \in Int
    PROVE  Calendar(a, n) \in PrefCalendars /\ Calendar(a, n).of = a
BY DEF Calendar, PrefCalendars

(* The page opens with what is stored.                                     *)
LEMMA PrefBegins == PrefInit => PrefInv
<1> SUFFICES ASSUME PrefInit PROVE PrefInv OBVIOUS
<1>1. PICK day \in Workdays, tab \in Tabs, waits \in BOOLEAN,
          calendar \in {NoCalendar} \cup {Calendar(a, 1) : a \in CalAccounts} :
          /\ server = [day |-> day, rest |-> 0, colours |-> 0, password |-> FALSE,
                       account |-> calendar.of, calendar |-> calendar]
          /\ state = [day |-> day, rest |-> 0, colours |-> 0,
                      tick |-> FALSE, account |-> 0, calendar |-> NoCalendar,
                      listed |-> 0, listLoaded |-> FALSE,
                      tab |-> tab, submitting |-> FALSE, hint |-> "none",
                      modal |-> "none", loading |-> TRUE, waits |-> waits]
  BY DEF PrefInit
<1>2. calls = {[what |-> "load"]}
  BY DEF PrefInit
<1>3. calendar \in PrefCalendars
  BY NoCalendarIs, CalendarIs DEF PrefAccounts
<1>4. day \in PrefDays
  BY DEF Workdays, PrefDays
<1>5. server \in PrefServers
  BY <1>1, <1>3, <1>4 DEF PrefServers, PrefCalendars
<1>6. state \in PrefStates
  BY <1>1, <1>4, NoCalendarIs DEF PrefStates, PrefAccounts
<1>7. PrefCalls(calls)
  BY <1>2 DEF PrefCalls
<1>8. Kempt(state, server, calls)
  BY <1>1, <1>2 DEF Kempt, Sent
<1> QED BY <1>5, <1>6, <1>7, <1>8 DEF PrefInv

(* Where a step leads, written as values.                                  *)
LEMMA PrefBecomes ==
    ASSUME PrefInv, NEW s \in PrefStates, NEW v \in PrefServers, NEW cs,
           state' = s, server' = v, calls' = cs, blocked' = blocked,
           s.waits = state.waits, PrefCalls(cs),
           state.waits /\ ~blocked => Kempt(s, v, cs)
    PROVE  PrefInv'
BY DEF PrefInv

(* A user who waits clicks when nothing is under way.                      *)
LEMMA AtRest ==
    ASSUME PrefInv, NEW tab, Changer(tab)
    PROVE  /\ blocked' = blocked /\ server' = server /\ ~blocked
           /\ ~state.loading /\ state.modal = "none"
           /\ state \in PrefStates /\ server \in PrefServers /\ PrefCalls(calls)
           /\ state.waits => calls = {} /\ Kempt(state, server, calls)
BY DEF PrefInv, Kempt, Sent, Changer, Click

(* An edit: what it may change of the calendars that are listed.           *)
LEMMA Edited ==
    ASSUME PrefInv, NEW tab, NEW s \in PrefStates, PrefEdit(tab, s),
           s.waits = state.waits, s.submitting = state.submitting,
           s.loading = state.loading, s.modal = state.modal,
           s.listLoaded =>
              /\ state.listLoaded
              /\ s.listed = state.listed /\ s.account = state.account
              /\ s.calendar = state.calendar \/ s.calendar.of = state.listed
    PROVE  PrefInv'
<1>1. Changer(tab) /\ state' = s /\ calls' = calls
  BY DEF PrefEdit
<1>2. state.waits => Kempt(s, server, calls)
  BY <1>1, AtRest DEF Kempt
<1> QED BY <1>1, <1>2, AtRest, PrefBecomes

(* The edits of the forms.                                                 *)
LEMMA PrefEdits ==
    ASSUME PrefInv,
           \/ \E tab \in Tabs : SelectTab(tab)
           \/ \E t \in 0 .. LastSlot : PickWorkdayStart(t) \/ PickWorkdayEnd(t)
           \/ EditBookingForm \/ EditColours \/ TickPassword
           \/ \E account \in CalAccounts \cup {0} : EditAccount(account)
           \/ /\ state.listed # 0
              /\ \E nr \in 1 .. CalendarsOf[state.listed] : ChooseCalendar(nr)
    PROVE  PrefInv'
<1>0. state \in PrefStates /\ state.day \in PrefDays
  BY DEF PrefInv, PrefStates
<1>1. ASSUME NEW tab \in Tabs, SelectTab(tab) PROVE PrefInv'
  <2> DEFINE hint == IF state.hint = "caldav" THEN state.hint ELSE "none"
             s == [state EXCEPT !.tab = tab, !.hint = hint]
  <2>1. PrefEdit("any", s) BY <1>0, <1>1 DEF SelectTab, PrefStates
  <2>2. hint \in {"none", "caldav", "saved"} OBVIOUS
  <2> HIDE DEF hint
  <2>3. /\ s \in PrefStates /\ s.waits = state.waits
        /\ s.submitting = state.submitting /\ s.loading = state.loading
        /\ s.modal = state.modal /\ s.listLoaded = state.listLoaded
        /\ s.listed = state.listed /\ s.account = state.account
        /\ s.calendar = state.calendar
    BY <1>0, <2>2 DEF PrefStates
  <2> HIDE DEF s
  <2> QED BY <2>1, <2>3, Edited
<1>2. ASSUME NEW t \in 0 .. LastSlot, PickWorkdayStart(t) PROVE PrefInv'
  <2> DEFINE e == IF state.day.end >= t + SlotHour THEN state.day.end
                  ELSE t + SlotHour
             day == [state.day EXCEPT !.start = t, !.end = e]
             s == [state EXCEPT !.day = day]
  <2>1. PrefEdit("booking", s)
    BY <1>0, <1>2 DEF PickWorkdayStart, PrefStates, PrefDays
  <2>2. e \in Int /\ t \in Int BY <1>0, SlotAssumption DEF PrefDays
  <2> HIDE DEF e
  <2>3. day \in PrefDays BY <1>0, <2>2 DEF PrefDays
  <2> HIDE DEF day
  <2>4. /\ s \in PrefStates /\ s.waits = state.waits
        /\ s.submitting = state.submitting /\ s.loading = state.loading
        /\ s.modal = state.modal /\ s.listLoaded = state.listLoaded
        /\ s.listed = state.listed /\ s.account = state.account
        /\ s.calendar = state.calendar
    BY <1>0, <2>3 DEF PrefStates
  <2> HIDE DEF s
  <2> QED BY <2>1, <2>4, Edited
<1>3. ASSUME NEW t \in 0 .. LastSlot, PickWorkdayEnd(t) PROVE PrefInv'
  <2> DEFINE day == [state.day EXCEPT !.end = t]
             s == [state EXCEPT !.day = day]
  <2>1. PrefEdit("booking", s)
    BY <1>0, <1>3 DEF PickWorkdayEnd, PrefStates, PrefDays
  <2>2. day \in PrefDays
    <3>1. t \in Int BY SlotAssumption
    <3> QED BY <1>0, <3>1 DEF PrefDays
  <2> HIDE DEF day
  <2>3. /\ s \in PrefStates /\ s.waits = state.waits
        /\ s.submitting = state.submitting /\ s.loading = state.loading
        /\ s.modal = state.modal /\ s.listLoaded = state.listLoaded
        /\ s.listed = state.listed /\ s.account = state.account
        /\ s.calendar = state.calendar
    BY <1>0, <2>2 DEF PrefStates
  <2> HIDE DEF s
  <2> QED BY <2>1, <2>3, Edited
<1>4. CASE EditBookingForm
  <2> DEFINE s == [state EXCEPT !.rest = 1 - @]
  <2>1. PrefEdit("booking", s) BY <1>4 DEF EditBookingForm
  <2>2. /\ s \in PrefStates /\ s.waits = state.waits
        /\ s.submitting = state.submitting /\ s.loading = state.loading
        /\ s.modal = state.modal /\ s.listLoaded = state.listLoaded
        /\ s.listed = state.listed /\ s.account = state.account
        /\ s.calendar = state.calendar
    BY <1>0 DEF PrefStates
  <2> HIDE DEF s
  <2> QED BY <2>1, <2>2, Edited
<1>5. CASE EditColours
  <2> DEFINE s == [state EXCEPT !.colours = 1 - @]
  <2>1. PrefEdit("style", s) BY <1>5 DEF EditColours
  <2>2. /\ s \in PrefStates /\ s.waits = state.waits
        /\ s.submitting = state.submitting /\ s.loading = state.loading
        /\ s.modal = state.modal /\ s.listLoaded = state.listLoaded
        /\ s.listed = state.listed /\ s.account = state.account
        /\ s.calendar = state.calendar
    BY <1>0 DEF PrefStates
  <2> HIDE DEF s
  <2> QED BY <2>1, <2>2, Edited
<1>6. CASE TickPassword
  <2> DEFINE tick == ~state.tick  s == [state EXCEPT !.tick = tick]
  <2>1. PrefEdit("security", s) BY <1>0, <1>6 DEF TickPassword
  <2>2. tick \in BOOLEAN OBVIOUS
  <2> HIDE DEF tick
  <2>3. /\ s \in PrefStates /\ s.waits = state.waits
        /\ s.submitting = state.submitting /\ s.loading = state.loading
        /\ s.modal = state.modal /\ s.listLoaded = state.listLoaded
        /\ s.listed = state.listed /\ s.account = state.account
        /\ s.calendar = state.calendar
    BY <1>0, <2>2 DEF PrefStates
  <2> HIDE DEF s
  <2> QED BY <2>1, <2>3, Edited
<1>7. ASSUME NEW account \in CalAccounts \cup {0}, EditAccount(account)
      PROVE  PrefInv'
  <2> DEFINE s == [state EXCEPT !.account = account, !.listLoaded = FALSE]
  <2>1. PrefEdit("integration", s) BY <1>7 DEF EditAccount
  <2>2. /\ s \in PrefStates /\ s.waits = state.waits
        /\ s.submitting = state.submitting /\ s.loading = state.loading
        /\ s.modal = state.modal /\ ~s.listLoaded
    BY <1>0 DEF PrefStates, PrefAccounts
  <2> HIDE DEF s
  <2> QED BY <2>1, <2>2, Edited
<1>8. ASSUME NEW nr \in 1 .. CalendarsOf[state.listed], ChooseCalendar(nr)
      PROVE  PrefInv'
  <2> DEFINE k == Calendar(state.listed, nr)
             s == [state EXCEPT !.calendar = k]
  <2>1. PrefEdit("integration", s) BY <1>8 DEF ChooseCalendar
  <2>2. k \in PrefCalendars /\ k.of = state.listed
    BY <1>0, CalendarIs DEF PrefStates
  <2> HIDE DEF k
  <2>3. /\ s \in PrefStates /\ s.waits = state.waits
        /\ s.submitting = state.submitting /\ s.loading = state.loading
        /\ s.modal = state.modal /\ s.listLoaded = state.listLoaded
        /\ s.listed = state.listed /\ s.account = state.account
        /\ s.calendar = k
    BY <1>0, <2>2 DEF PrefStates
  <2> HIDE DEF s
  <2> QED BY <2>1, <2>2, <2>3, Edited
<1> QED BY <1>1, <1>2, <1>3, <1>4, <1>5, <1>6, <1>7, <1>8

(* The button of a form: what is sent is what the form shows.              *)
LEMMA FormSent ==
    ASSUME PrefInv, NEW tab, NEW c, NEW next \in PrefStates,
           Submits(tab, c, next), PrefCalls({c}), c.what # "load",
           \A f \in {"waits", "loading", "modal", "day", "rest", "colours",
                     "account", "listed", "calendar"} : next[f] = state[f],
           next.listLoaded => state.listLoaded,
           c.what = "bookings" => c.day = state.day /\ c.rest = state.rest,
           c.what = "colours" => c.colours = state.colours,
           c.what = "list" => c.account = state.account,
           c.what = "caldav" => c.calendar.of = c.account /\ c.stored = 0
    PROVE  PrefInv'
<1> DEFINE s == [next EXCEPT !.submitting = TRUE, !.hint = "none"]
<1>1. Changer(tab) /\ state' = s /\ calls' = calls \cup {c}
  BY DEF Submits
<1>2. /\ next.waits = state.waits /\ next.loading = state.loading
      /\ next.modal = state.modal /\ next.day = state.day
      /\ next.rest = state.rest /\ next.colours = state.colours
      /\ next.account = state.account /\ next.listed = state.listed
      /\ next.calendar = state.calendar
  BY DEF PrefStates
<1>3. /\ s \in PrefStates /\ s.submitting /\ s.waits = state.waits
      /\ s.loading = state.loading /\ s.modal = state.modal
      /\ s.day = state.day /\ s.rest = state.rest
      /\ s.colours = state.colours /\ s.account = state.account
      /\ s.listed = state.listed /\ s.calendar = state.calendar
      /\ s.listLoaded = next.listLoaded
  BY <1>2 DEF PrefStates
<1> HIDE DEF s
<1>4. PrefCalls(calls')
  BY <1>1, AtRest DEF PrefCalls
<1>5. ASSUME state.waits PROVE Kempt(s, server, calls')
  <2>1. calls' = {c} /\ Kempt(state, server, calls) /\ ~state.loading
        /\ calls = {} /\ state.modal = "none"
    BY <1>1, <1>5, AtRest
  <2>2. Sent(c, s, server)
    BY <1>3, <2>1 DEF Sent
  <2>3. server.calendar.of = server.account
    BY <2>1 DEF Kempt
  <2> QED BY <1>3, <2>1, <2>2, <2>3 DEF Kempt
<1> QED BY <1>1, <1>3, <1>4, <1>5, AtRest, PrefBecomes

(* The buttons of the forms.                                               *)
LEMMA PrefSubmits ==
    ASSUME PrefInv,
           \/ SubmitBookings \/ SubmitColours \/ SubmitSecurity
           \/ ConnectCalDav \/ DisconnectCalDav \/ SaveCalDav
    PROVE  PrefInv'
<1>0. state \in PrefStates
  BY DEF PrefInv
<1>1. CASE SubmitBookings
  <2> DEFINE c == [what |-> "bookings", day |-> state.day, rest |-> state.rest]
  <2>1. Submits("booking", c, state) BY <1>1 DEF SubmitBookings
  <2>2. c.what = "bookings" /\ c.day = state.day /\ c.rest = state.rest
    OBVIOUS
  <2> HIDE DEF c
  <2>3. PrefCalls({c}) BY <1>0, <2>2 DEF PrefCalls, PrefStates
  <2> QED BY <1>0, <2>1, <2>2, <2>3, FormSent
<1>2. CASE SubmitColours
  <2> DEFINE c == [what |-> "colours", colours |-> state.colours]
  <2>1. Submits("style", c, state) BY <1>2 DEF SubmitColours
  <2>2. c.what = "colours" /\ c.colours = state.colours OBVIOUS
  <2> HIDE DEF c
  <2>3. PrefCalls({c}) BY <1>0, <2>2 DEF PrefCalls, PrefStates
  <2> QED BY <1>0, <2>1, <2>2, <2>3, FormSent
<1>3. CASE SubmitSecurity
  <2> DEFINE c == [what |-> "password"]
  <2>1. Submits("security", c, state) BY <1>3 DEF SubmitSecurity
  <2>2. c.what = "password" OBVIOUS
  <2> HIDE DEF c
  <2>3. PrefCalls({c}) BY <2>2 DEF PrefCalls
  <2> QED BY <1>0, <2>1, <2>2, <2>3, FormSent
<1> DEFINE next == [state EXCEPT !.listLoaded = FALSE]
<1>4. /\ next \in PrefStates /\ ~next.listLoaded
      /\ \A f \in {"waits", "loading", "modal", "day", "rest", "colours",
                   "account", "listed", "calendar"} : next[f] = state[f]
  BY <1>0 DEF PrefStates
<1>5. CASE ConnectCalDav
  <2> DEFINE c == [what |-> "list", account |-> state.account]
  <2>1. Submits("integration", c, next) BY <1>5 DEF ConnectCalDav
  <2> HIDE DEF next
  <2>2. c.what = "list" /\ c.account = state.account OBVIOUS
  <2> HIDE DEF c
  <2>3. PrefCalls({c}) BY <1>0, <2>2 DEF PrefCalls, PrefStates
  <2> QED BY <1>4, <2>1, <2>2, <2>3, FormSent
<1>6. CASE DisconnectCalDav
  <2> DEFINE c == StoreCalDav(0, NoCalendar, TRUE)
  <2>1. Submits("integration", c, next) BY <1>6 DEF DisconnectCalDav
  <2> HIDE DEF next
  <2>2. c.what = "caldav" /\ c.calendar.of = c.account /\ c.stored = 0
    BY NoCalendarIs DEF StoreCalDav
  <2>3. c \in CalDavCalls
    BY NoCalendarIs DEF StoreCalDav, CalDavCalls, PrefAccounts
  <2> HIDE DEF c
  <2>4. PrefCalls({c}) BY <2>2, <2>3 DEF PrefCalls
  <2> QED BY <1>4, <2>1, <2>2, <2>4, FormSent
<1>7. CASE SaveCalDav
  <2> DEFINE c == StoreCalDav(state.account, state.calendar, FALSE)
  <2>1. /\ Submits("integration", c, state)
        /\ state.listLoaded /\ state.calendar # NoCalendar
    BY <1>7 DEF SaveCalDav
  <2>2. /\ c.what = "caldav" /\ c.stored = 0 /\ c.account = state.account
        /\ c.calendar = state.calendar
    BY DEF StoreCalDav
  <2>3. c \in CalDavCalls
    BY <1>0 DEF StoreCalDav, CalDavCalls, PrefStates
  <2> HIDE DEF c
  <2>4. PrefCalls({c}) BY <2>2, <2>3 DEF PrefCalls
  <2>5. CASE state.waits
    <3>1. state.calendar.of = state.account
      BY <2>1, <2>5, AtRest DEF Submits, Kempt
    <3> QED BY <1>0, <2>1, <2>2, <2>4, <3>1, FormSent
  <2>6. CASE ~state.waits
    <3> DEFINE s == [state EXCEPT !.submitting = TRUE, !.hint = "none"]
    <3>1. Changer("integration") /\ state' = s /\ calls' = calls \cup {c}
      BY <2>1 DEF Submits
    <3>2. s \in PrefStates /\ s.waits = state.waits
      BY <1>0 DEF PrefStates
    <3> HIDE DEF s
    <3>3. PrefCalls(calls')
      BY <2>4, <3>1, AtRest DEF PrefCalls
    <3> QED BY <2>6, <3>1, <3>2, <3>3, AtRest, PrefBecomes
  <2> QED BY <2>5, <2>6
<1> QED BY <1>1, <1>2, <1>3, <1>5, <1>6, <1>7

-----------------------------------------------------------------------------
(* What an answer finds, for a user who waits: nothing else under way.     *)
LEMMA PrefAnswered ==
    ASSUME PrefInv, NEW c \in calls
    PROVE  /\ state \in PrefStates /\ server \in PrefServers
           /\ PrefCalls(calls) /\ PrefCalls(calls \ {c}) /\ PrefCalls({c})
           /\ state.waits /\ ~blocked =>
                calls = {c} /\ Sent(c, state, server) /\ Kempt(state, server, calls)
BY DEF PrefInv, PrefCalls, Kempt

(* The preferences arrive.                                                 *)
LEMMA LoadedIsKept == ASSUME PrefInv, PrefLoaded PROVE PrefInv'
<1> DEFINE c == [what |-> "load"]
           s == [state EXCEPT !.day = server.day, !.rest = server.rest,
                              !.colours = server.colours,
                              !.account = server.account,
                              !.calendar = server.calendar,
                              !.loading = FALSE]
<1>1. c \in calls /\ state' = s /\ calls' = {} /\ server' = server
      /\ blocked' = blocked
  BY DEF PrefLoaded, Goes
<1>2. c.what = "load" OBVIOUS
<1> HIDE DEF c
<1>3. /\ s \in PrefStates /\ s.waits = state.waits
      /\ s.listLoaded = state.listLoaded /\ s.modal = state.modal
      /\ ~s.loading
  BY <1>1, PrefAnswered DEF PrefStates, PrefServers
<1> HIDE DEF s
<1>4. PrefCalls({}) BY DEF PrefCalls
<1>5. ASSUME state.waits, ~blocked PROVE Kempt(s, server, {})
  <2>1. Kempt(state, server, calls) /\ calls = {c} /\ state.loading
    BY <1>1, <1>2, <1>5, PrefAnswered DEF Sent
  <2>2. ~state.listLoaded /\ state.modal = "none"
        /\ server.calendar.of = server.account
    BY <1>2, <2>1, PrefAnswered DEF Kempt, PrefStates
  <2> QED BY <1>3, <2>2 DEF Kempt
<1> QED BY <1>1, <1>3, <1>4, <1>5, PrefAnswered, PrefBecomes

(* A form is stored, and the page asks to be loaded again.                 *)
LEMMA StoredIsKept ==
    ASSUME PrefInv, NEW c \in calls, NEW v \in PrefServers,
           NEW m \in {"bookings", "colours", "password"},
           c.what = m, blocked' = blocked, server' = v, calls' = calls \ {c},
           state' = [state EXCEPT !.submitting = FALSE, !.modal = m],
           v.account = server.account /\ v.calendar = server.calendar,
           m = "bookings" => v.day = c.day /\ v.rest = c.rest,
           m = "colours" => v.colours = c.colours
    PROVE  PrefInv'
<1> DEFINE s == [state EXCEPT !.submitting = FALSE, !.modal = m]
<1>1. /\ s \in PrefStates /\ s.waits = state.waits
      /\ s.listLoaded = state.listLoaded /\ s.modal = m
      /\ s.loading = state.loading /\ s.day = state.day
      /\ s.rest = state.rest /\ s.colours = state.colours
      /\ s.listed = state.listed /\ s.account = state.account
      /\ s.calendar = state.calendar
  BY PrefAnswered DEF PrefStates
<1>2. state' = s OBVIOUS
<1> HIDE DEF s
<1>3. ASSUME state.waits, ~blocked PROVE Kempt(s, v, calls \ {c})
  <2>1. Kempt(state, server, calls) /\ calls = {c} /\ Sent(c, state, server)
    BY <1>3, PrefAnswered
  <2>2. server.calendar.of = server.account
    BY <2>1 DEF Kempt
  <2>3. calls \ {c} = {} BY <2>1
  <2>4. /\ m = "bookings" => v.day = s.day /\ v.rest = s.rest
        /\ m = "colours" => v.colours = s.colours
    BY <1>1, <2>1 DEF Sent
  <2> QED BY <1>1, <2>1, <2>2, <2>3, <2>4 DEF Kempt
<1> QED BY <1>1, <1>2, <1>3, PrefAnswered, PrefBecomes

(* The answers to the three forms.                                         *)
LEMMA FormsStored ==
    ASSUME PrefInv, NEW c \in calls,
           BookingsStored(c) \/ ColoursStored(c) \/ PasswordStored(c)
    PROVE  PrefInv'
<1>1. /\ server \in PrefServers /\ PrefCalls({c})
      /\ blocked' = blocked /\ calls' = calls \ {c}
  BY PrefAnswered DEF BookingsStored, ColoursStored, PasswordStored, PrefTakes,
     Goes
<1>2. CASE BookingsStored(c)
  <2> DEFINE v == [server EXCEPT !.day = c.day, !.rest = c.rest]
  <2>1. c.what = "bookings" /\ server' = v
        /\ state' = [state EXCEPT !.submitting = FALSE, !.modal = "bookings"]
    BY <1>2 DEF BookingsStored, PrefTakes
  <2>2. c.day \in PrefDays /\ c.rest \in Int
    BY <1>1, <2>1 DEF PrefCalls
  <2>3. /\ v \in PrefServers /\ v.account = server.account
        /\ v.calendar = server.calendar /\ v.day = c.day /\ v.rest = c.rest
    BY <1>1, <2>2 DEF PrefServers
  <2> HIDE DEF v
  <2> QED BY <1>1, <2>1, <2>3, StoredIsKept
<1>3. CASE ColoursStored(c)
  <2> DEFINE v == [server EXCEPT !.colours = c.colours]
  <2>1. c.what = "colours" /\ server' = v
        /\ state' = [state EXCEPT !.submitting = FALSE, !.modal = "colours"]
    BY <1>3 DEF ColoursStored, PrefTakes
  <2>2. c.colours \in Int
    BY <1>1, <2>1 DEF PrefCalls
  <2>3. /\ v \in PrefServers /\ v.account = server.account
        /\ v.calendar = server.calendar /\ v.colours = c.colours
    BY <1>1, <2>2 DEF PrefServers
  <2> HIDE DEF v
  <2> QED BY <1>1, <2>1, <2>3, StoredIsKept
<1>4. CASE PasswordStored(c)
  <2> DEFINE v == [server EXCEPT !.password = TRUE]
  <2>1. c.what = "password" /\ server' = v
        /\ state' = [state EXCEPT !.submitting = FALSE, !.modal = "password"]
    BY <1>4 DEF PasswordStored, PrefTakes
  <2>3. /\ v \in PrefServers /\ v.account = server.account
        /\ v.calendar = server.calendar
    BY <1>1 DEF PrefServers
  <2> HIDE DEF v
  <2> QED BY <1>1, <2>1, <2>3, StoredIsKept
<1> QED BY <1>2, <1>3, <1>4

(* The calendars of an account arrive: the list is shown for the account   *)
(* they were asked for.                                                    *)
LEMMA ListIsKept ==
    ASSUME PrefInv, NEW c \in calls, CalendarsListed(c)
    PROVE  PrefInv'
<1> DEFINE k == IF CalendarsOf[c.account] = 0 THEN NoCalendar
                ELSE Calendar(c.account, 1)
           s == [state EXCEPT !.submitting = FALSE, !.listLoaded = TRUE,
                              !.listed = c.account, !.calendar = k]
<1>1. /\ c.what = "list" /\ state' = s /\ server' = server
      /\ blocked' = blocked /\ calls' = calls \ {c}
  BY DEF CalendarsListed, PrefTakes, Goes
<1>2. c.account \in PrefAccounts
  BY <1>1, PrefAnswered DEF PrefCalls
<1>3. k \in PrefCalendars /\ (k # NoCalendar => k.of = c.account)
  BY <1>2, NoCalendarIs, CalendarIs
<1> HIDE DEF k
<1>4. /\ s \in PrefStates /\ s.waits = state.waits
      /\ s.listLoaded /\ s.modal = state.modal
      /\ s.loading = state.loading /\ s.day = state.day
      /\ s.rest = state.rest /\ s.colours = state.colours
      /\ s.listed = c.account /\ s.account = state.account
      /\ s.calendar = k
  BY <1>2, <1>3, PrefAnswered DEF PrefStates
<1> HIDE DEF s
<1>5. ASSUME state.waits, ~blocked PROVE Kempt(s, server, calls \ {c})
  <2>1. Kempt(state, server, calls) /\ calls = {c} /\ Sent(c, state, server)
    BY <1>5, PrefAnswered
  <2>2. server.calendar.of = server.account /\ state.modal = "none"
    BY <1>1, <2>1 DEF Kempt
  <2>3. calls \ {c} = {} BY <2>1
  <2>4. ~state.loading /\ c.account = state.account
    BY <1>1, <2>1 DEF Sent
  <2> QED BY <1>3, <1>4, <2>1, <2>2, <2>3, <2>4 DEF Kempt
<1> QED BY <1>1, <1>4, <1>5, PrefAnswered, PrefBecomes

(* One item of a calendar is stored. Between the account and its calendar, *)
(* they do not belong together: only here.                                 *)
LEMMA ItemIsKept ==
    ASSUME PrefInv, NEW c \in calls, CalDavItemStored(c)
    PROVE  PrefInv'
<1> DEFINE d == [c EXCEPT !.stored = @ + 1]
<1>1. /\ c.what = "caldav" /\ c.stored < 2
      /\ server' = IF c.stored = 0
                   THEN [server EXCEPT !.account = c.account]
                   ELSE [server EXCEPT !.calendar = c.calendar]
      /\ calls' = (calls \ {c}) \cup {d} /\ state' = state /\ blocked' = blocked
  BY DEF CalDavItemStored, Goes
<1>2. c \in CalDavCalls /\ server \in PrefServers
  BY <1>1, PrefAnswered DEF PrefCalls
<1>3. /\ d \in CalDavCalls /\ d.account = c.account
      /\ d.calendar = c.calendar /\ d.stored = c.stored + 1
      /\ d.what = "caldav"
  BY <1>1, <1>2 DEF CalDavCalls
<1>4. c.stored \in {0, 1}
  BY <1>1, <1>2 DEF CalDavCalls
<1> HIDE DEF d
<1>5. /\ server' \in PrefServers
      /\ c.stored = 0 => server'.account = c.account
      /\ c.stored = 1 => /\ server'.account = server.account
                         /\ server'.calendar = c.calendar
  <2>1. CASE c.stored = 0
    BY <1>1, <1>2, <2>1 DEF PrefServers, CalDavCalls
  <2>2. CASE c.stored = 1
    <3>1. server' = [server EXCEPT !.calendar = c.calendar]
      BY <1>1, <2>2
    <3> QED BY <1>2, <2>2, <3>1 DEF PrefServers, CalDavCalls
  <2> QED BY <1>4, <2>1, <2>2
<1>6. PrefCalls(calls')
  BY <1>1, <1>3, PrefAnswered DEF PrefCalls
<1>7. ASSUME state.waits, ~blocked PROVE Kempt(state, server', calls')
  <2>1. Kempt(state, server, calls) /\ calls = {c} /\ Sent(c, state, server)
    BY <1>7, PrefAnswered
  <2>2. calls' = {d} BY <1>1, <2>1
  <2>3. state.modal = "none" /\ state.submitting /\ ~state.loading
        /\ c.calendar.of = c.account
    BY <1>1, <2>1, PrefAnswered DEF Kempt, Sent
  <2>4. Sent(d, state, server')
    BY <1>1, <1>3, <1>4, <1>5, <2>1, <2>3 DEF Sent
  <2>5. d.stored # 1 => server'.calendar.of = server'.account
    BY <1>1, <1>3, <1>4, <1>5, <2>1, <2>3 DEF Sent
  <2> QED BY <1>3, <2>1, <2>2, <2>3, <2>4, <2>5 DEF Kempt
<1> QED BY <1>1, <1>5, <1>6, <1>7, PrefAnswered, PrefBecomes

(* A calendar is stored, or forgotten.                                     *)
LEMMA CalendarIsKept ==
    ASSUME PrefInv, NEW c \in calls, CalDavStored(c)
    PROVE  PrefInv'
<1> DEFINE r == [state EXCEPT !.submitting = FALSE, !.hint = "saved"]
           q == [r EXCEPT !.account = 0, !.calendar = NoCalendar, !.listed = 0]
<1>1. /\ c.what = "caldav" /\ c.stored = 2
      /\ state' = IF ~c.forget THEN r ELSE q
      /\ server' = server /\ calls' = calls \ {c} /\ blocked' = blocked
  BY DEF CalDavStored, PrefTakes, Goes
<1>2. /\ r \in PrefStates /\ r.waits = state.waits
      /\ r.listLoaded = state.listLoaded /\ r.modal = state.modal
      /\ r.loading = state.loading
      /\ r.listed = state.listed /\ r.account = state.account
      /\ r.calendar = state.calendar
  BY PrefAnswered DEF PrefStates
<1> HIDE DEF r
<1>3. /\ q \in PrefStates /\ q.waits = state.waits
      /\ q.modal = state.modal /\ q.loading = state.loading
      /\ q.listLoaded = state.listLoaded
      /\ q.listed = 0 /\ q.account = 0 /\ q.calendar = NoCalendar
  BY <1>2, NoCalendarIs DEF PrefStates, PrefAccounts
<1> HIDE DEF q
<1> DEFINE s == IF ~c.forget THEN r ELSE q
<1>4. s \in {r, q} /\ state' = s BY <1>1
<1> HIDE DEF s
<1>5. ASSUME state.waits, ~blocked PROVE Kempt(s, server, calls \ {c})
  <2>1. Kempt(state, server, calls) /\ calls = {c} /\ Sent(c, state, server)
    BY <1>5, PrefAnswered
  <2>2. server.calendar.of = server.account /\ state.modal = "none"
    BY <1>1, <2>1 DEF Kempt
  <2>3. calls \ {c} = {} BY <2>1
  <2>4. ~state.loading
    BY <1>1, <2>1 DEF Sent
  <2> QED BY <1>2, <1>3, <1>4, <2>1, <2>2, <2>3, <2>4 DEF Kempt
<1> QED BY <1>1, <1>2, <1>3, <1>4, <1>5, PrefAnswered, PrefBecomes

(* Every step of the preferences keeps the invariant.                      *)
LEMMA PrefSteps == PrefInv /\ [PrefNext]_webVars => PrefInv'
<1> SUFFICES ASSUME PrefInv, [PrefNext]_webVars PROVE PrefInv'
  OBVIOUS
<1>1. CASE UNCHANGED webVars
  BY <1>1 DEF webVars, PrefInv
<1>2. CASE PrefCallFails
  <2>1. blocked' /\ calls' = {} /\ UNCHANGED <<state, server>>
    BY <1>2 DEF PrefCallFails, Blocks
  <2> QED BY <2>1 DEF PrefInv, PrefCalls
<1> QED BY <1>1, <1>2, PrefEdits, PrefSubmits, LoadedIsKept, FormsStored,
           ListIsKept, ItemIsKept, CalendarIsKept DEF PrefNext

(* It implies what is asked of the preferences.                            *)
LEMMA PrefIsEnough == PrefInv /\ page = "preferences" => PreferencesKept
<1> SUFFICES ASSUME PrefInv, state.waits, ~blocked
             PROVE  /\ ~state.submitting => server.calendar.of = server.account
                    /\ state.modal = "bookings" =>
                          server.day = state.day /\ server.rest = state.rest
                    /\ state.modal = "colours" => server.colours = state.colours
  BY DEF PreferencesKept
<1>1. Kempt(state, server, calls)
  BY DEF PrefInv
<1>2. ~state.submitting => \A c \in calls : c.what # "caldav"
  BY <1>1 DEF Kempt, Sent
<1> QED BY <1>1, <1>2 DEF Kempt

(* For a user who waits, the calendar stored belongs to the account        *)
(* stored, and when the page asks to be loaded again what it shows is what *)
(* has been stored (Preferences!PreferencesKept), for any accounts and     *)
(* calendars.                                                              *)
THEOREM PreferencesStayKept == ClientSpec => []PreferencesKept
<1> DEFINE Inv == page = "preferences" => PrefInv
<1>1. ClientInit => Inv
  BY OnePage, PrefBegins
<1>2. Inv /\ [ClientNext]_webVars => Inv'
  <2> SUFFICES ASSUME Inv, [ClientNext]_webVars, page' = "preferences"
               PROVE  PrefInv'
    OBVIOUS
  <2>1. page = "preferences" /\ [PrefNext]_webVars
    BY OnePage
  <2> QED BY <2>1, PrefSteps
<1>3. Inv => PreferencesKept
  BY PrefIsEnough DEF PreferencesKept
<1> HIDE DEF Inv
<1> QED BY <1>1, <1>2, <1>3, PTL DEF ClientSpec

------------------------------------------------------------------------------
(* The users of an admin.                                                  *)

(* The types of the user editor: a row of the users, the emails of the     *)
(* others, what the form holds.                                            *)
Rows ==
    [exists : BOOLEAN, email : Int, role : UserRoles, auth : Methods,
     password : Int, totp : BOOLEAN, passkeys : BOOLEAN, token : BOOLEAN]

UserServers == [user : Rows, others : SUBSET Int]

UserStates ==
    [id : BOOLEAN, email : Int, original : Int, role : UserRoles,
     method : Methods, password : Int, change : BOOLEAN, resend : BOOLEAN,
     totp : BOOLEAN, passkeys : BOOLEAN, token : BOOLEAN, tokenShown : BOOLEAN,
     pending : {"none"} \cup Resets, saved : BOOLEAN, error : BOOLEAN,
     gone : BOOLEAN, loading : BOOLEAN, super : BOOLEAN, careful : BOOLEAN,
     edited : BOOLEAN]

(* A save carries what the form would change.                              *)
UserCalls(cs) ==
    \A c \in cs : c.what = "save" =>
       /\ c.email \in Int /\ c.role \in UserRoles /\ c.password \in Int
       /\ c.invite \in BOOLEAN /\ c.provider \in BOOLEAN /\ c.new \in BOOLEAN

(* What a save sends will make of the account what the form shows.         *)
WillFit(c, s, user) ==
    /\ c.email = s.email /\ c.role = s.role /\ c.new = ~s.id
    /\ c.invite => s.method = "invitation"
    /\ c.password # 0 => s.method = "password" /\ c.password = s.password
    /\ c.provider => s.method = "provider"
    /\ s.method = "password" /\ s.change => c.password # 0
    /\ IF c.new
       THEN /\ s.method = "invitation" => c.invite
            /\ s.method = "password" => c.password # 0
       ELSE s.method # user.auth => c.invite \/ c.provider \/ c.password # 0

(* What a call under way has to do with the form.                          *)
UserSent(c, s, user) ==
    /\ c.what = "load" => s.loading
    /\ c.what # "load" => ~s.loading
    /\ c.what = "save" => WillFit(c, s, user)
    /\ c.what \in Resets \cup {"generateApiToken"} => s.id

(* A service account whose password is to change has a generated one.      *)
Generated(s) ==
    /\ s.loading => ~s.change /\ s.role # "service"
    /\ ~s.loading /\ s.role = "service" /\ (s.change \/ ~s.id)
       => s.password # 0

(* For a careful admin: one call at a time, and the form knows of the      *)
(* account what it has not changed itself.                                 *)
InForm(s, v, cs) ==
    /\ \A c, d \in cs : c = d
    /\ \A c \in cs : UserSent(c, s, v.user)
    /\ Generated(s)
    /\ s.pending # "none" => s.id
    /\ s.loading \/ ~s.id => ~s.saved /\ ~s.totp /\ ~s.passkeys /\ ~s.token
    /\ s.loading => (v.user.token => v.user.role = "service")
    /\ ~s.loading /\ s.id =>
          /\ v.user.totp = s.totp /\ v.user.passkeys = s.passkeys
          /\ v.user.token = s.token
          /\ s.saved /\ ~s.edited =>
                /\ v.user.email = s.email /\ v.user.role = s.role
                /\ v.user.auth = s.method
                /\ s.method = "password" /\ s.change
                   => v.user.password = s.password

(* The inductive invariant of the user editor. Its part about a careful    *)
(* admin ends when the page is left.                                       *)
UserInv ==
    /\ state \in UserStates /\ server \in UserServers /\ UserCalls(calls)
    /\ clicks \in Nat
    /\ state.careful /\ ~blocked /\ ~state.gone => InForm(state, server, calls)

(* The account of a form, with no second factor and no token.              *)
LEMMA AccountIs ==
    ASSUME NEW e \in Int, NEW r \in UserRoles, NEW m \in Methods, NEW p \in Int
    PROVE  LET a == Account(e, r, m, p) IN
           /\ a \in Rows /\ a.email = e /\ a.role = r /\ a.auth = m
           /\ a.password = p /\ ~a.totp /\ ~a.passkeys /\ ~a.token
BY DEF Account, Rows

(* The accounts there may be: only a service account has a token.          *)
LEMMA KnownIs ==
    ASSUME NEW u \in Known \cup {NoAccount}
    PROVE  u \in Rows /\ (u.token => u.role = "service")
<1>1. "user" \in UserRoles /\ "service" \in UserRoles
      /\ "password" \in Methods
  BY DEF UserRoles, Methods
<1>2. ASSUME NEW m \in Methods, NEW f \in BOOLEAN
      PROVE  Person(m, f) \in Rows /\ ~Person(m, f).token
  <2> DEFINE a == Account(0, "user", m, 0)
  <2>1. a \in Rows /\ ~a.token BY <1>1, AccountIs
  <2>2. Person(m, f) = [a EXCEPT !.totp = f, !.passkeys = f] BY DEF Person
  <2> HIDE DEF a
  <2>3. Person(m, f) \in Rows BY <2>1, <2>2 DEF Rows
  <2>4. Person(m, f).token = a.token BY <2>1, <2>2 DEF Rows
  <2> QED BY <2>1, <2>3, <2>4
<1>3. ASSUME NEW t \in BOOLEAN
      PROVE  ServiceAccount(t) \in Rows /\ ServiceAccount(t).role = "service"
  <2> DEFINE a == Account(0, "service", "password", 0)
  <2>1. a \in Rows /\ a.role = "service" BY <1>1, AccountIs
  <2>2. ServiceAccount(t) = [a EXCEPT !.token = t] BY DEF ServiceAccount
  <2> HIDE DEF a
  <2> QED BY <2>1, <2>2 DEF Rows
<1>4. NoAccount \in Rows /\ ~NoAccount.token
  <2> DEFINE a == Account(0, "user", "password", 0)
  <2>1. a \in Rows /\ ~a.token BY <1>1, AccountIs
  <2>2. NoAccount = [a EXCEPT !.exists = FALSE] BY DEF NoAccount
  <2> HIDE DEF a
  <2> QED BY <2>1, <2>2 DEF Rows
<1> QED BY <1>2, <1>3, <1>4 DEF Known

(* The page opens for a new user, or before it has loaded one.             *)
LEMMA UserBegins == UserInit => UserInv
<1> SUFFICES ASSUME UserInit PROVE UserInv OBVIOUS
<1>1. PICK user \in Known \cup {NoAccount}, others \in {{}, {1}},
          super, careful \in BOOLEAN :
          /\ server = [user |-> user, others |-> others]
          /\ state = [id |-> user.exists, email |-> 0, original |-> 0,
                      role |-> "user", method |-> "password", password |-> 0,
                      change |-> FALSE, resend |-> FALSE, totp |-> FALSE,
                      passkeys |-> FALSE, token |-> FALSE, tokenShown |-> FALSE,
                      pending |-> "none", saved |-> FALSE, error |-> FALSE,
                      gone |-> FALSE, loading |-> TRUE, super |-> super,
                      careful |-> careful, edited |-> FALSE]
  BY DEF UserInit
<1>2. calls = {[what |-> "load"]} /\ clicks = 0
  BY DEF UserInit
<1>3. user \in Rows /\ (user.token => user.role = "service")
  BY KnownIs
<1>4. server \in UserServers /\ server.user = user
  BY <1>1, <1>3 DEF UserServers
<1>5. user.exists \in BOOLEAN BY <1>3 DEF Rows
<1>6. state \in UserStates
  BY <1>1, <1>5 DEF UserStates, UserRoles, Methods
<1>7. UserCalls(calls)
  BY <1>2 DEF UserCalls
<1>8. \A c, d \in calls : c = d /\ c.what = "load"
  BY <1>2
<1>9. InForm(state, server, calls)
  BY <1>1, <1>3, <1>4, <1>8 DEF InForm, Generated, UserSent, Resets
<1> QED BY <1>2, <1>4, <1>6, <1>7, <1>9 DEF UserInv

(* Where a step leads, written as values.                                  *)
LEMMA UserBecomes ==
    ASSUME UserInv, NEW s \in UserStates, NEW v \in UserServers, NEW cs,
           state' = s, server' = v, calls' = cs, blocked' = blocked,
           clicks' \in Nat, s.careful = state.careful, UserCalls(cs),
           state.careful /\ ~blocked /\ ~s.gone => InForm(s, v, cs)
    PROVE  UserInv'
BY DEF UserInv

(* A careful admin clicks when nothing is under way.                       *)
LEMMA AdminAtRest ==
    ASSUME UserInv, UserAdmin
    PROVE  /\ blocked' = blocked /\ server' = server /\ ~blocked
           /\ ~state.loading /\ ~state.gone /\ clicks' \in Nat /\ clicks \in Nat
           /\ state \in UserStates /\ server \in UserServers /\ UserCalls(calls)
           /\ state.careful => calls = {} /\ InForm(state, server, calls)
BY DEF UserInv, UserAdmin, Click

(* An edit takes back what was saved.                                      *)
LEMMA UserEdited ==
    ASSUME UserInv, NEW s \in UserStates, UserEdit(s),
           \A f \in {"careful", "id", "loading", "gone", "totp", "passkeys",
                     "token", "saved", "pending"} : s[f] = state[f],
           Generated(state) /\ ~state.loading => Generated(s)
    PROVE  UserInv'
<1> DEFINE t == [s EXCEPT !.edited = TRUE]
<1>1. UserAdmin /\ state' = t /\ calls' = calls
  BY DEF UserEdit
<1>2. /\ t \in UserStates /\ t.edited
      /\ t.careful = state.careful /\ t.id = state.id
      /\ t.loading = state.loading /\ t.gone = state.gone
      /\ t.totp = state.totp /\ t.passkeys = state.passkeys
      /\ t.token = state.token /\ t.saved = state.saved
      /\ t.pending = state.pending
      /\ t.role = s.role /\ t.change = s.change /\ t.password = s.password
      /\ s.loading = state.loading /\ s.id = state.id
  BY DEF UserStates
<1> HIDE DEF t
<1>3. state.careful => InForm(t, server, calls)
  BY <1>1, <1>2, AdminAtRest DEF InForm, Generated
<1> QED BY <1>1, <1>2, <1>3, AdminAtRest, UserBecomes

(* The edits of the form.                                                  *)
LEMMA UserEdits ==
    ASSUME UserInv,
           \/ EditEmail \/ GeneratePassword \/ TickChange \/ TypeNewPassword
           \/ \E role \in UserRoles : ChangeRole(role)
           \/ \E method \in Methods : ChooseMethod(method)
    PROVE  UserInv'
<1> DEFINE Same(s) ==
           \A f \in {"careful", "id", "loading", "gone", "totp", "passkeys",
                     "token", "saved", "pending"} : s[f] = state[f]
           StaysSet(s) == Generated(state) /\ ~state.loading => Generated(s)
<1>0. state \in UserStates /\ clicks \in Nat
  BY DEF UserInv
<1>1. CASE EditEmail
  <2> DEFINE s == [state EXCEPT !.email = 1 - @]
  <2>1. UserEdit(s) BY <1>1 DEF EditEmail
  <2>2. s \in UserStates /\ Same(s) BY <1>0 DEF UserStates
  <2>3. StaysSet(s) BY <1>0 DEF UserStates, Generated
  <2> HIDE DEF s
  <2> QED BY <2>1, <2>2, <2>3, UserEdited
<1>2. CASE GeneratePassword
  <2> DEFINE s == [state EXCEPT !.password = clicks + 1, !.change = TRUE]
  <2>1. UserEdit(s) BY <1>2 DEF GeneratePassword
  <2>2. /\ s \in UserStates
        /\ Same(s)
    <3>1. s \in UserStates
      <4> DEFINE p == clicks + 1
      <4>1. p \in Int BY <1>0
      <4> HIDE DEF p
      <4> DEFINE r == [state EXCEPT !.password = p]
      <4>2. r \in UserStates BY <1>0, <4>1 DEF UserStates
      <4>3. s = [r EXCEPT !.change = TRUE] BY DEF p
      <4> HIDE DEF r, s
      <4> QED BY <4>2, <4>3 DEF UserStates
    <3>2. Same(s) BY <1>0 DEF UserStates
    <3> QED BY <3>1, <3>2
  <2>3. StaysSet(s)
    <3>1. s.password = clicks + 1 /\ s.loading = state.loading
      BY <1>0 DEF UserStates
    <3>2. s.password # 0 BY <1>0, <3>1
    <3> HIDE DEF s
    <3> QED BY <3>1, <3>2 DEF Generated
  <2> HIDE DEF s
  <2> QED BY <2>1, <2>2, <2>3, UserEdited
<1>3. CASE TickChange
  <2> DEFINE change == ~state.change
             resend == ~state.resend
             s == [state EXCEPT !.change = change]
             t == [state EXCEPT !.resend = resend]
  <2>1. UserEdit(s) \/ UserEdit(t)
    BY <1>0, <1>3 DEF TickChange, UserStates
  <2>2. change \in BOOLEAN /\ resend \in BOOLEAN OBVIOUS
  <2> HIDE DEF change, resend
  <2>3. s \in UserStates /\ Same(s) BY <1>0, <2>2 DEF UserStates
  <2>4. t \in UserStates /\ Same(t) BY <1>0, <2>2 DEF UserStates
  <2>5. StaysSet(s) /\ StaysSet(t)
    <3>1. state.role # "service" BY <1>3 DEF TickChange, Service
    <3> QED BY <1>0, <3>1 DEF UserStates, Generated
  <2> HIDE DEF s, t
  <2> QED BY <2>1, <2>3, <2>4, <2>5, UserEdited
<1>4. CASE TypeNewPassword
  <2> DEFINE s == [state EXCEPT !.password = clicks + 1]
  <2>1. UserEdit(s) BY <1>4 DEF TypeNewPassword
  <2>2. s \in UserStates /\ Same(s) BY <1>0 DEF UserStates
  <2>3. StaysSet(s)
    <3>1. state.role # "service" BY <1>4 DEF TypeNewPassword, Service
    <3> QED BY <1>0, <3>1 DEF UserStates, Generated
  <2> HIDE DEF s
  <2> QED BY <2>1, <2>2, <2>3, UserEdited
<1>5. ASSUME NEW role \in UserRoles, ChangeRole(role) PROVE UserInv'
  <2> DEFINE change == state.change \/ role = "service"
             p == IF change THEN clicks + 1 ELSE state.password
             s == [state EXCEPT !.role = role, !.change = change, !.password = p]
  <2>1. UserEdit(s) BY <1>0, <1>5 DEF ChangeRole, UserStates
  <2>2. change \in BOOLEAN /\ p \in Int BY <1>0 DEF UserStates
  <2>5. role = "service" => p # 0 BY <1>0
  <2> HIDE DEF change, p
  <2>3. s \in UserStates BY <1>0, <2>2 DEF UserStates
  <2>4. Same(s) BY <1>0 DEF UserStates
  <2>6. s.role = role /\ s.password = p /\ s.loading = state.loading
    BY <1>0 DEF UserStates
  <2> HIDE DEF s
  <2>7. StaysSet(s) BY <2>5, <2>6 DEF Generated
  <2> QED BY <2>1, <2>3, <2>4, <2>7, UserEdited
<1>6. ASSUME NEW method \in Methods, ChooseMethod(method) PROVE UserInv'
  <2> DEFINE s == [state EXCEPT !.method = method]
  <2>1. UserEdit(s) BY <1>6 DEF ChooseMethod
  <2>2. s \in UserStates /\ Same(s) BY <1>0 DEF UserStates
  <2>3. StaysSet(s) BY <1>0 DEF UserStates, Generated
  <2> HIDE DEF s
  <2> QED BY <2>1, <2>2, <2>3, UserEdited
<1> QED BY <1>1, <1>2, <1>3, <1>4, <1>5, <1>6

(* The form is sent: what is sent fits what is on display.                 *)
LEMMA UserSubmitted == ASSUME UserInv, SubmitUser PROVE UserInv'
<1> DEFINE invite == /\ state.method = "invitation"
                     /\ ~state.id \/ state.email # state.original \/ state.resend
           provider == state.method = "provider"
           password == IF state.method = "password" /\ (state.change \/ ~state.id)
                       THEN state.password ELSE 0
           new == ~state.id
           c == [what |-> "save", n |-> clicks, new |-> new,
                 email |-> state.email, role |-> state.role,
                 invite |-> invite, provider |-> provider,
                 password |-> password]
           s == [state EXCEPT !.saved = FALSE, !.error = FALSE, !.edited = FALSE]
<1>0. state \in UserStates
  BY DEF UserInv
<1>1. /\ UserAdmin /\ state.pending = "none"
      /\ PasswordRequired(state) => state.password # 0
      /\ state' = s
  BY DEF SubmitUser
<1>2. calls' = calls \cup {c}
  BY DEF SubmitUser, Payload
<1>3. invite \in BOOLEAN /\ provider \in BOOLEAN /\ password \in Int
      /\ new \in BOOLEAN
  BY <1>0 DEF UserStates
<1>4. /\ c.what = "save" /\ c.new = new /\ c.email = state.email
      /\ c.role = state.role /\ c.invite = invite /\ c.provider = provider
      /\ c.password = password
  BY <1>3
<1>5. state.careful /\ state.method # server.user.auth
         => invite \/ provider \/ password # 0
  <2>1. state.careful => (state.method # server.user.auth =>
            Payload(state).invite \/ Payload(state).provider
               \/ Payload(state).password # 0)
    BY DEF SubmitUser
  <2>2. Payload(state) = c BY DEF Payload
  <2> HIDE DEF c, invite, provider, password
  <2> QED BY <1>4, <2>1, <2>2
<1> HIDE DEF c
<1>6. /\ s \in UserStates /\ ~s.saved
      /\ \A f \in {"careful", "id", "loading", "gone", "totp", "passkeys",
                   "token", "pending", "email", "role", "method", "password",
                   "change"} : s[f] = state[f]
  BY <1>0 DEF UserStates
<1> HIDE DEF s
<1>7. UserCalls(calls \cup {c})
  BY <1>0, <1>1, <1>3, <1>4, AdminAtRest DEF UserCalls, UserStates
<1>8. ASSUME state.careful PROVE WillFit(c, state, server.user)
  <2>1. invite => state.method = "invitation" OBVIOUS
  <2>2. password # 0 => state.method = "password" /\ password = state.password
    OBVIOUS
  <2>3. /\ state.method = "password" /\ state.change => password # 0
        /\ ~state.id /\ state.method = "password" => password # 0
        /\ ~state.id /\ state.method = "invitation" => invite
    <3>1. Generated(state) /\ ~state.loading
      BY <1>1, <1>8, AdminAtRest DEF InForm
    <3>2. (state.change \/ ~state.id) /\ state.method = "password"
          => state.password # 0
      BY <1>1, <3>1 DEF PasswordRequired, Service, Generated
    <3> QED BY <1>0, <3>2 DEF UserStates
  <2>4. provider => state.method = "provider" OBVIOUS
  <2>5. new = ~state.id OBVIOUS
  <2> HIDE DEF invite, password, provider, new
  <2> QED BY <1>4, <1>5, <1>8, <2>1, <2>2, <2>3, <2>4, <2>5 DEF WillFit
<1>9. state.careful => WillFit(c, s, server.user)
  BY <1>6, <1>8 DEF WillFit
<1>10. state.careful => InForm(s, server, calls \cup {c})
  <2> SUFFICES ASSUME state.careful PROVE InForm(s, server, {c})
    BY <1>1, AdminAtRest
  <2>1. UserSent(c, s, server.user)
    BY <1>1, <1>4, <1>6, <1>9, AdminAtRest DEF UserSent, Resets
  <2> QED BY <1>1, <1>6, <2>1, AdminAtRest DEF InForm, Generated
<1> QED BY <1>1, <1>2, <1>6, <1>7, <1>10, AdminAtRest, UserBecomes

(* The page asks, or shows something, without an edit: the form stays.     *)
LEMMA FormStays ==
    ASSUME UserInv, UserAdmin, NEW s \in UserStates, state' = s, NEW cs,
           calls' = cs,
           \A f \in {"careful", "id", "loading", "gone", "totp", "passkeys",
                     "token", "saved", "email", "role", "method", "change",
                     "password", "edited"} : s[f] = state[f],
           s.pending # "none" => s.id,
           \/ cs = calls
           \/ \E c : /\ cs = calls \cup {c} /\ s.id
                     /\ c.what \in Resets \cup {"generateApiToken"}
    PROVE  UserInv'
<1>1. /\ s.careful = state.careful /\ s.id = state.id
      /\ s.loading = state.loading /\ s.gone = state.gone
      /\ s.totp = state.totp /\ s.passkeys = state.passkeys
      /\ s.token = state.token /\ s.saved = state.saved
      /\ s.email = state.email /\ s.role = state.role
      /\ s.method = state.method /\ s.change = state.change
      /\ s.password = state.password /\ s.edited = state.edited
  OBVIOUS
<1>2. UserCalls(cs)
  BY AdminAtRest DEF UserCalls, Resets
<1>3. ASSUME state.careful PROVE InForm(s, server, cs)
  <2>1. calls = {} /\ InForm(state, server, calls) /\ ~state.loading
    BY <1>3, AdminAtRest
  <2>2. \A c, d \in cs : c = d BY <2>1
  <2>3. \A c \in cs : UserSent(c, s, server.user)
    BY <1>1, <2>1 DEF UserSent, Resets
  <2> QED BY <1>1, <2>1, <2>2, <2>3 DEF InForm, Generated
<1> QED BY <1>1, <1>2, <1>3, AdminAtRest, UserBecomes

(* What the page asks about passkeys, codes and tokens.                    *)
LEMMA UserAsks ==
    ASSUME UserInv,
           \/ GenerateApiToken \/ HideToken
           \/ \E what \in Resets : AskReset(what)
           \/ \E yes \in BOOLEAN : AnswerReset(yes)
    PROVE  UserInv'
<1>0. state \in UserStates
  BY DEF UserInv
<1> DEFINE Same(s) ==
       \A f \in {"careful", "id", "loading", "gone", "totp", "passkeys",
                 "token", "saved", "email", "role", "method", "change",
                 "password", "edited"} : s[f] = state[f]
<1>p. UserAdmin => (state.careful => (state.pending # "none" => state.id))
  BY AdminAtRest DEF InForm, Generated
<1>1. CASE ~state.careful
  <2> DEFINE Bare(s, cs) ==
        /\ state' = s /\ calls' = cs /\ s.careful = state.careful
        /\ UserCalls(cs)
  <2>0. UserCalls(calls) BY DEF UserInv
  <2>1. CASE GenerateApiToken
    <3> DEFINE c == [what |-> "generateApiToken", n |-> clicks]
    <3>1. UserAdmin /\ state' = state /\ calls' = calls \cup {c}
      BY <2>1 DEF GenerateApiToken
    <3>2. c.what # "save" OBVIOUS
    <3> HIDE DEF c
    <3>3. UserCalls(calls \cup {c}) BY <2>0, <3>2 DEF UserCalls
    <3> QED BY <1>0, <1>1, <3>1, <3>3, AdminAtRest, UserBecomes
  <2>2. CASE HideToken
    <3> DEFINE s == [state EXCEPT !.tokenShown = FALSE]
    <3>1. UserAdmin /\ state' = s /\ calls' = calls
      BY <2>2 DEF HideToken
    <3>2. s \in UserStates /\ s.careful = state.careful
      BY <1>0 DEF UserStates
    <3> HIDE DEF s
    <3> QED BY <1>1, <2>0, <3>1, <3>2, AdminAtRest, UserBecomes
  <2>3. ASSUME NEW what \in Resets, AskReset(what) PROVE UserInv'
    <3> DEFINE s == [state EXCEPT !.pending = what]
    <3>1. UserAdmin /\ state' = s /\ calls' = calls
      BY <2>3 DEF AskReset
    <3>2. s \in UserStates /\ s.careful = state.careful
      BY <1>0 DEF UserStates
    <3> HIDE DEF s
    <3> QED BY <1>1, <2>0, <3>1, <3>2, AdminAtRest, UserBecomes
  <2>4. ASSUME NEW yes \in BOOLEAN, AnswerReset(yes) PROVE UserInv'
    <3> DEFINE s == [state EXCEPT !.pending = "none"]
               c == [what |-> state.pending, n |-> clicks]
    <3>1. /\ UserAdmin /\ state' = s /\ state.pending # "none"
          /\ calls' = calls \cup {c} \/ calls' = calls
      BY <2>4 DEF AnswerReset
    <3>2. s \in UserStates /\ s.careful = state.careful
      BY <1>0 DEF UserStates
    <3>3. c.what = state.pending OBVIOUS
    <3>4. c.what # "save" BY <1>0, <3>1, <3>3 DEF UserStates, Resets
    <3> HIDE DEF s, c
    <3>5. UserCalls(calls \cup {c}) BY <2>0, <3>4 DEF UserCalls
    <3> QED BY <1>1, <2>0, <3>1, <3>2, <3>5, AdminAtRest, UserBecomes
  <2> QED BY <2>1, <2>2, <2>3, <2>4
<1>2. CASE state.careful
  <2>1. CASE GenerateApiToken
    <3> DEFINE c == [what |-> "generateApiToken", n |-> clicks]
    <3>1. /\ UserAdmin /\ state' = state /\ calls' = calls \cup {c} /\ state.id
          /\ state.pending = "none"
      BY <2>1 DEF GenerateApiToken
    <3>2. c.what = "generateApiToken" OBVIOUS
    <3> HIDE DEF c
    <3>3. \E d : /\ calls \cup {c} = calls \cup {d} /\ state.id
                 /\ d.what \in Resets \cup {"generateApiToken"}
      BY <3>1, <3>2
    <3> QED BY <1>0, <3>1, <3>3, FormStays
  <2>2. CASE HideToken
    <3> DEFINE s == [state EXCEPT !.tokenShown = FALSE]
    <3>1. UserAdmin /\ state' = s /\ calls' = calls
      BY <2>2 DEF HideToken
    <3>2. s \in UserStates /\ Same(s) /\ s.pending = state.pending
      BY <1>0 DEF UserStates
    <3>3. s.id = state.id BY <3>2
    <3> HIDE DEF s
    <3> QED BY <1>2, <1>p, <3>1, <3>2, <3>3, FormStays
  <2>3. ASSUME NEW what \in Resets, AskReset(what) PROVE UserInv'
    <3> DEFINE s == [state EXCEPT !.pending = what]
    <3>1. UserAdmin /\ state' = s /\ calls' = calls /\ state.id
      BY <2>3 DEF AskReset
    <3>2. s \in UserStates /\ Same(s)
      BY <1>0 DEF UserStates
    <3>3. s.id = state.id BY <3>2
    <3> HIDE DEF s
    <3> QED BY <3>1, <3>2, <3>3, FormStays
  <2>4. ASSUME NEW yes \in BOOLEAN, AnswerReset(yes) PROVE UserInv'
    <3> DEFINE s == [state EXCEPT !.pending = "none"]
               c == [what |-> state.pending, n |-> clicks]
    <3>1. /\ UserAdmin /\ state' = s /\ state.pending # "none"
          /\ calls' = calls \cup {c} \/ calls' = calls
      BY <2>4 DEF AnswerReset
    <3>2. s \in UserStates /\ Same(s) /\ s.pending = "none"
      BY <1>0 DEF UserStates
    <3>3. s.id = state.id BY <3>2
    <3>4. c.what = state.pending OBVIOUS
    <3>5. c.what \in Resets BY <1>0, <3>1, <3>4 DEF UserStates
    <3>6. state.id BY <1>2, <1>p, <3>1
    <3> HIDE DEF s, c, Same
    <3>7. \E d : /\ calls \cup {c} = calls \cup {d} /\ s.id
                 /\ d.what \in Resets \cup {"generateApiToken"}
      BY <3>3, <3>5, <3>6
    <3> USE DEF Same
    <3> QED BY <3>1, <3>2, <3>7, FormStays
  <2> QED BY <2>1, <2>2, <2>3, <2>4
<1> QED BY <1>1, <1>2

-----------------------------------------------------------------------------

(* What an answer finds: of a careful admin, the only call.                *)
LEMMA UserAnswered ==
    ASSUME UserInv, NEW c \in calls
    PROVE  /\ state \in UserStates /\ server \in UserServers
           /\ UserCalls(calls) /\ UserCalls(calls \ {c}) /\ UserCalls({c})
           /\ clicks \in Nat
           /\ state.careful /\ ~blocked /\ ~state.gone =>
                /\ calls = {c} /\ UserSent(c, state, server.user)
                /\ InForm(state, server, calls)
BY DEF UserInv, UserCalls, InForm

(* The account arrives, or the page of a new one.                          *)
LEMMA AccountLoaded == ASSUME UserInv, UserLoaded PROVE UserInv'
<1> DEFINE c == [what |-> "load"]
           u == server.user
           t == u.role = "service" /\ u.token
           r == [state EXCEPT !.loading = FALSE]
           q == [state EXCEPT !.email = u.email, !.original = u.email,
                    !.role = u.role, !.method = u.auth, !.totp = u.totp,
                    !.passkeys = u.passkeys, !.token = t, !.loading = FALSE]
           s == IF ~state.id THEN r ELSE q
<1>1. c \in calls /\ calls' = {} /\ server' = server
      /\ blocked' = blocked /\ clicks' = clicks /\ state' = s
  BY DEF UserLoaded, Goes
<1>2. c.what = "load" OBVIOUS
<1> HIDE DEF c
<1>3. state \in UserStates /\ u \in Rows /\ t \in BOOLEAN
  BY <1>1, UserAnswered DEF UserServers
<1>4. /\ r \in UserStates /\ r.careful = state.careful /\ r.gone = state.gone
      /\ r.pending = state.pending /\ r.saved = state.saved
      /\ r.totp = state.totp /\ r.passkeys = state.passkeys
      /\ r.token = state.token /\ r.id = state.id
      /\ r.role = state.role /\ r.password = state.password
      /\ r.change = state.change /\ ~r.loading
  BY <1>3 DEF UserStates
<1> DEFINE q1 == [state EXCEPT !.email = u.email, !.original = u.email,
                    !.role = u.role, !.method = u.auth]
<1>5. /\ q1 \in UserStates /\ q1.careful = state.careful
      /\ q1.gone = state.gone
      /\ q1.pending = state.pending /\ q1.saved = state.saved
      /\ q1.id = state.id /\ q1.change = state.change
  <2> HIDE DEF u, t
  <2> QED BY <1>3 DEF UserStates, Rows
<1>6. q = [q1 EXCEPT !.totp = u.totp, !.passkeys = u.passkeys, !.token = t,
                     !.loading = FALSE]
  OBVIOUS
<1>7. s \in {r, q} /\ (s = r => ~state.id \/ r = q) /\ (~state.id => s = r)
      /\ (state.id => s = q)
  OBVIOUS
<1> HIDE DEF q, q1, t, u, r, s
<1>8. q \in UserStates
  <2> DEFINE q2 == [q1 EXCEPT !.totp = u.totp, !.passkeys = u.passkeys]
  <2>1. q2 \in UserStates BY <1>3, <1>5 DEF UserStates, Rows
  <2>2. q = [q2 EXCEPT !.token = t, !.loading = FALSE] BY <1>6
  <2> HIDE DEF q2
  <2> QED BY <1>3, <2>1, <2>2, ZenonT(40) DEF UserStates
<1>9. /\ q.careful = state.careful /\ q.gone = state.gone
      /\ q.pending = state.pending /\ q.saved = state.saved
      /\ q.totp = u.totp /\ q.passkeys = u.passkeys /\ q.token = t
      /\ ~q.loading /\ q.id = state.id /\ q.change = state.change
  BY <1>3, <1>5, <1>6 DEF UserStates
<1>10. UserCalls({}) BY DEF UserCalls
<1>11. ASSUME state.careful, ~blocked, ~state.gone
       PROVE  InForm(s, server, {})
  <2>1. InForm(state, server, calls) /\ state.loading
    BY <1>1, <1>2, <1>11, UserAnswered DEF UserSent
  <2>2. CASE ~state.id
    BY <1>4, <1>7, <2>1, <2>2 DEF InForm, Generated
  <2>3. CASE state.id
    <3>1. t = u.token
      BY <1>3, <2>1 DEF InForm, Generated, t, u, Rows
    <3> QED BY <1>7, <1>9, <2>1, <2>3, <3>1 DEF InForm, Generated, u
  <2> QED BY <2>2, <2>3
<1>12. s \in UserStates /\ s.careful = state.careful /\ s.gone = state.gone
  BY <1>4, <1>7, <1>8, <1>9
<1> QED BY <1>1, <1>10, <1>11, <1>12, UserAnswered, UserBecomes

(* A save that is refused changes nothing.                                 *)
LEMMA SaveRefusedStays ==
    ASSUME UserInv, NEW c \in calls, UserRefused(c) PROVE UserInv'
<1> DEFINE s == [state EXCEPT !.error = TRUE]
<1>1. /\ state' = s /\ calls' = calls \ {c} /\ server' = server
      /\ blocked' = blocked /\ clicks' = clicks
  BY DEF UserRefused, UserTakes, Goes
<1>2. /\ s \in UserStates /\ s.careful = state.careful /\ s.id = state.id
      /\ s.loading = state.loading /\ s.gone = state.gone
      /\ s.totp = state.totp /\ s.passkeys = state.passkeys
      /\ s.token = state.token /\ s.saved = state.saved
      /\ s.email = state.email /\ s.role = state.role
      /\ s.method = state.method /\ s.change = state.change
      /\ s.password = state.password /\ s.edited = state.edited
      /\ s.pending = state.pending
  BY UserAnswered DEF UserStates
<1> HIDE DEF s
<1>3. ASSUME state.careful, ~blocked, ~state.gone
      PROVE  InForm(s, server, calls \ {c})
  <2>1. calls \ {c} = {} /\ InForm(state, server, calls)
    BY <1>3, UserAnswered
  <2> QED BY <1>2, <2>1 DEF InForm, Generated
<1> QED BY <1>1, <1>2, <1>3, UserAnswered, UserBecomes

(* A token is generated, and the page knows there is one.                  *)
LEMMA TokenIsKnown ==
    ASSUME UserInv, NEW c \in calls, TokenGenerated(c) PROVE UserInv'
<1> DEFINE s == [state EXCEPT !.token = TRUE, !.tokenShown = TRUE]
           u == [server.user EXCEPT !.token = TRUE]
           v == [server EXCEPT !.user = u]
<1>1. /\ state' = s /\ calls' = calls \ {c} /\ c.what = "generateApiToken"
      /\ blocked' = blocked /\ clicks' = clicks
  BY DEF TokenGenerated, UserTakes, Goes
<1>2. server' = v
  BY UserAnswered DEF TokenGenerated, UserServers
<1>3. u \in Rows /\ u.token /\ u.totp = server.user.totp
      /\ u.passkeys = server.user.passkeys /\ u.email = server.user.email
      /\ u.role = server.user.role /\ u.auth = server.user.auth
      /\ u.password = server.user.password
  BY UserAnswered DEF UserServers, Rows
<1> HIDE DEF u
<1>4. v \in UserServers /\ v.user = u
  BY <1>3, UserAnswered DEF UserServers
<1> HIDE DEF v
<1>5. /\ s \in UserStates /\ s.careful = state.careful /\ s.id = state.id
      /\ s.loading = state.loading /\ s.gone = state.gone
      /\ s.totp = state.totp /\ s.passkeys = state.passkeys
      /\ s.token /\ s.saved = state.saved
      /\ s.email = state.email /\ s.role = state.role
      /\ s.method = state.method /\ s.change = state.change
      /\ s.password = state.password /\ s.edited = state.edited
      /\ s.pending = state.pending
  BY UserAnswered DEF UserStates
<1> HIDE DEF s
<1>6. ASSUME state.careful, ~blocked, ~state.gone
      PROVE  InForm(s, v, calls \ {c})
  <2>1. /\ calls \ {c} = {} /\ InForm(state, server, calls)
        /\ state.id /\ ~state.loading
    BY <1>1, <1>6, UserAnswered DEF UserSent
  <2> QED BY <1>3, <1>4, <1>5, <2>1 DEF InForm, Generated
<1> QED BY <1>1, <1>2, <1>4, <1>5, <1>6, UserAnswered, UserBecomes

(* What the server makes of a save that fits the form.                     *)
LEMMA UpdatedIs ==
    ASSUME NEW u \in Rows, NEW c, c.email \in Int, c.role \in UserRoles,
           c.password \in Int, c.invite \in BOOLEAN, c.provider \in BOOLEAN
    PROVE  LET w == Updated(u, c) IN
           /\ w \in Rows /\ w.email = c.email /\ w.role = c.role
           /\ w.totp = u.totp /\ w.passkeys = u.passkeys /\ w.token = u.token
           /\ c.invite => w.auth = "invitation"
           /\ ~c.invite /\ c.password # 0 =>
                 w.auth = "password" /\ w.password = c.password
           /\ ~c.invite /\ c.password = 0 =>
                 w.auth = IF c.provider THEN "provider" ELSE u.auth
<1> DEFINE r == [u EXCEPT !.email = c.email, !.role = c.role]
           w == Updated(u, c)
<1>1. /\ r \in Rows /\ r.email = c.email /\ r.role = c.role
      /\ r.totp = u.totp /\ r.passkeys = u.passkeys /\ r.token = u.token
      /\ r.auth = u.auth
  BY DEF Rows
<1>2. "invitation" \in Methods /\ "password" \in Methods
      /\ "provider" \in Methods
  BY DEF Methods
<1>3. /\ c.invite => w = [r EXCEPT !.auth = "invitation", !.password = 0]
      /\ ~c.invite /\ c.password # 0
           => w = [r EXCEPT !.auth = "password", !.password = c.password]
      /\ ~c.invite /\ c.password = 0 /\ c.provider
           => w = [r EXCEPT !.auth = "provider", !.password = 0]
      /\ ~c.invite /\ c.password = 0 /\ ~c.provider => w = r
  <2>1. w = CASE c.invite -> [r EXCEPT !.auth = "invitation", !.password = 0]
              [] ~c.invite /\ c.password # 0 ->
                    [r EXCEPT !.auth = "password", !.password = c.password]
              [] ~c.invite /\ c.password = 0 /\ c.provider ->
                    [r EXCEPT !.auth = "provider", !.password = 0]
              [] OTHER -> r
    BY DEF Updated
  <2> HIDE DEF w, r
  <2> QED BY <2>1
<1> HIDE DEF w, r
<1>4. CASE c.invite
  <2>1. w = [r EXCEPT !.auth = "invitation", !.password = 0]
    BY <1>3, <1>4
  <2>2. w \in Rows
    <3> DEFINE x == [r EXCEPT !.auth = "invitation"]
    <3>1. x \in Rows BY <1>1, <1>2 DEF Rows
    <3>2. w = [x EXCEPT !.password = 0] BY <2>1
    <3> HIDE DEF x
    <3> QED BY <3>1, <3>2 DEF Rows
  <2>3. /\ w.email = c.email /\ w.role = c.role
        /\ w.totp = u.totp /\ w.passkeys = u.passkeys /\ w.token = u.token
        /\ w.auth = "invitation"
    BY <1>1, <2>1 DEF Rows
  <2> QED BY <1>4, <2>2, <2>3 DEF w
<1>5. CASE ~c.invite /\ c.password # 0
  BY <1>1, <1>2, <1>3, <1>5 DEF Rows, w
<1>6. CASE ~c.invite /\ c.password = 0 /\ c.provider
  BY <1>1, <1>2, <1>3, <1>6 DEF Rows, w
<1>7. CASE ~c.invite /\ c.password = 0 /\ ~c.provider
  BY <1>1, <1>3, <1>7 DEF w
<1> QED BY <1>4, <1>5, <1>6, <1>7

(* What the server makes of a new account.                                 *)
LEMMA CreatedIs ==
    ASSUME NEW c, c.email \in Int, c.role \in UserRoles,
           c.password \in Int, c.invite \in BOOLEAN
    PROVE  LET w == Created(c) IN
           /\ w \in Rows /\ w.email = c.email /\ w.role = c.role
           /\ w.password = c.password
           /\ ~w.totp /\ ~w.passkeys /\ ~w.token
           /\ w.auth = IF c.invite THEN "invitation"
                       ELSE IF c.password # 0 THEN "password" ELSE "provider"
<1> DEFINE m == CASE c.invite -> "invitation"
                  [] ~c.invite /\ c.password # 0 -> "password"
                  [] OTHER -> "provider"
<1>1. m = IF c.invite THEN "invitation"
          ELSE IF c.password # 0 THEN "password" ELSE "provider"
  OBVIOUS
<1>2. m \in Methods BY <1>1 DEF Methods
<1>3. Created(c) = Account(c.email, c.role, m, c.password)
  BY DEF Created
<1> HIDE DEF m
<1> QED BY <1>1, <1>2, <1>3, AccountIs

(* Saving makes the account what the form shows.                           *)
LEMMA SavedFits ==
    ASSUME NEW s \in UserStates, NEW u \in Rows, NEW c, WillFit(c, s, u),
           c.email \in Int, c.role \in UserRoles, c.password \in Int,
           c.invite \in BOOLEAN, c.provider \in BOOLEAN, c.new \in BOOLEAN,
           s.id => /\ u.totp = s.totp /\ u.passkeys = s.passkeys
                   /\ u.token = s.token,
           ~s.id => ~s.totp /\ ~s.passkeys /\ ~s.token
    PROVE  LET w == IF c.new THEN Created(c) ELSE Updated(u, c) IN
           /\ w.totp = s.totp /\ w.passkeys = s.passkeys /\ w.token = s.token
           /\ w.email = s.email /\ w.role = s.role /\ w.auth = s.method
           /\ s.method = "password" /\ s.change => w.password = s.password
<1>1. s.method \in {"password", "provider", "invitation"}
  BY DEF UserStates, Methods
<1>2. CASE c.new
  <2> DEFINE w == Created(c)
  <2>1. /\ w \in Rows /\ w.email = c.email /\ w.role = c.role
        /\ w.password = c.password /\ ~w.totp /\ ~w.passkeys /\ ~w.token
        /\ w.auth = IF c.invite THEN "invitation"
                    ELSE IF c.password # 0 THEN "password" ELSE "provider"
    BY CreatedIs
  <2> HIDE DEF w
  <2>2. ~s.id BY <1>2 DEF WillFit
  <2>3. w.auth = s.method
    BY <1>1, <1>2, <2>1 DEF WillFit
  <2>4. s.method = "password" /\ s.change => w.password = s.password
    BY <2>1 DEF WillFit
  <2>5. w.totp = s.totp /\ w.passkeys = s.passkeys /\ w.token = s.token
    BY <2>1, <2>2 DEF Rows, UserStates
  <2>6. w.email = s.email /\ w.role = s.role
    BY <2>1 DEF WillFit
  <2> QED BY <1>2, <2>3, <2>4, <2>5, <2>6 DEF w
<1>3. CASE ~c.new
  <2> DEFINE w == Updated(u, c)
  <2>1. /\ w.email = c.email /\ w.role = c.role
        /\ w.totp = u.totp /\ w.passkeys = u.passkeys /\ w.token = u.token
        /\ c.invite => w.auth = "invitation"
        /\ ~c.invite /\ c.password # 0 =>
              w.auth = "password" /\ w.password = c.password
        /\ ~c.invite /\ c.password = 0 =>
              w.auth = IF c.provider THEN "provider" ELSE u.auth
    BY UpdatedIs
  <2> HIDE DEF w
  <2>2. s.id BY <1>3 DEF WillFit, UserStates
  <2>3. w.auth = s.method
    BY <1>1, <1>3, <2>1 DEF WillFit
  <2>4. s.method = "password" /\ s.change => w.password = s.password
    BY <1>3, <2>1 DEF WillFit
  <2>5. w.totp = s.totp /\ w.passkeys = s.passkeys /\ w.token = s.token
    BY <2>1, <2>2
  <2>6. w.email = s.email /\ w.role = s.role
    BY <2>1 DEF WillFit
  <2> QED BY <1>3, <2>3, <2>4, <2>5, <2>6 DEF w
<1> QED BY <1>2, <1>3

(* A save is answered: the form shows the account as it is now.            *)
LEMMA SaveIsShown == ASSUME UserInv, NEW c \in calls, UserSaved(c) PROVE UserInv'
<1> DEFINE s == [state EXCEPT !.id = TRUE, !.saved = TRUE, !.resend = FALSE,
                              !.original = c.email]
           u == IF c.new THEN Created(c) ELSE Updated(server.user, c)
           o == IF c.new /\ server.user.exists
                THEN server.others \cup {server.user.email} ELSE server.others
           v == [user |-> u, others |-> o]
<1>1. /\ state' = s /\ calls' = calls \ {c} /\ c.what = "save" /\ server' = v
      /\ blocked' = blocked /\ clicks' = clicks
  BY DEF UserSaved, UserTakes, Goes
<1>2. /\ c.email \in Int /\ c.role \in UserRoles /\ c.password \in Int
      /\ c.invite \in BOOLEAN /\ c.provider \in BOOLEAN /\ c.new \in BOOLEAN
      /\ state \in UserStates /\ server.user \in Rows
      /\ server.others \in SUBSET Int
  BY <1>1, UserAnswered DEF UserCalls, UserServers
<1>3. u \in Rows
  BY <1>2, CreatedIs, UpdatedIs
<1>4. o \in SUBSET Int BY <1>2 DEF Rows
<1>5. state.careful /\ ~blocked /\ ~state.gone =>
        /\ u.totp = state.totp /\ u.passkeys = state.passkeys
        /\ u.token = state.token /\ u.email = state.email
        /\ u.role = state.role /\ u.auth = state.method
        /\ state.method = "password" /\ state.change
           => u.password = state.password
  <2> SUFFICES ASSUME state.careful, ~blocked, ~state.gone
      PROVE /\ u.totp = state.totp /\ u.passkeys = state.passkeys
            /\ u.token = state.token /\ u.email = state.email
            /\ u.role = state.role /\ u.auth = state.method
            /\ state.method = "password" /\ state.change
               => u.password = state.password
    OBVIOUS
  <2>1. /\ WillFit(c, state, server.user) /\ ~state.loading
        /\ InForm(state, server, calls)
    BY <1>1, UserAnswered DEF UserSent
  <2>2. /\ state.id => /\ server.user.totp = state.totp
                       /\ server.user.passkeys = state.passkeys
                       /\ server.user.token = state.token
        /\ ~state.id => ~state.totp /\ ~state.passkeys /\ ~state.token
    BY <2>1 DEF InForm, Generated
  <2> QED BY <1>2, <2>1, <2>2, SavedFits
<1> HIDE DEF u, o
<1>6. v \in UserServers /\ v.user = u
  BY <1>3, <1>4 DEF UserServers
<1> HIDE DEF v
<1>7. s \in UserStates
  BY <1>2 DEF UserStates
<1>8. /\ s.careful = state.careful /\ s.id /\ s.saved
      /\ s.loading = state.loading /\ s.gone = state.gone
      /\ s.totp = state.totp /\ s.passkeys = state.passkeys
      /\ s.token = state.token
      /\ s.email = state.email /\ s.role = state.role
      /\ s.method = state.method /\ s.change = state.change
      /\ s.password = state.password
  BY <1>2 DEF UserStates
<1> HIDE DEF s
<1>9. ASSUME state.careful, ~blocked, ~state.gone
      PROVE  InForm(s, v, calls \ {c})
  <2>1. calls \ {c} = {} /\ ~state.loading
    BY <1>1, <1>9, UserAnswered DEF UserSent
  <2>2. Generated(state) BY <1>9, UserAnswered DEF InForm
  <2>3. Generated(s) BY <1>8, <2>1, <2>2 DEF Generated
  <2> QED BY <1>5, <1>6, <1>8, <1>9, <2>1, <2>3 DEF InForm
<1> QED BY <1>1, <1>6, <1>7, <1>8, <1>9, UserAnswered, UserBecomes

(* A second factor or a token is removed, and from the page too.           *)
LEMMA ResetIsShown == ASSUME UserInv, NEW c \in calls, ResetDone(c) PROVE UserInv'
<1>1. /\ calls' = calls \ {c} /\ c.what \in Resets
      /\ blocked' = blocked /\ clicks' = clicks
  BY DEF ResetDone, UserTakes, Goes
<1>2. state \in UserStates /\ server \in UserServers /\ server.user \in Rows
  BY UserAnswered DEF UserServers
<1>3. CASE c.what = "delete"
  <2> DEFINE s == [state EXCEPT !.gone = TRUE]
             v == [server EXCEPT !.user = NoAccount]
  <2>1. state' = s /\ server' = v
    BY <1>3 DEF ResetDone
  <2>2. v \in UserServers
    BY <1>2, KnownIs DEF UserServers
  <2>3. s \in UserStates /\ s.careful = state.careful /\ s.gone
    BY <1>2 DEF UserStates
  <2> HIDE DEF s, v
  <2> QED BY <1>1, <2>1, <2>2, <2>3, UserAnswered, UserBecomes
<1>4. CASE c.what \in {"resetPasskeys", "resetTotp", "revokeApiToken"}
  <2>1. PICK s \in UserStates, u \in Rows :
          /\ state' = s /\ server' = [server EXCEPT !.user = u]
          /\ s.careful = state.careful /\ s.id = state.id
          /\ s.loading = state.loading /\ s.gone = state.gone
          /\ s.saved = state.saved
          /\ s.email = state.email /\ s.role = state.role
          /\ s.method = state.method /\ s.change = state.change
          /\ s.password = state.password /\ s.edited = state.edited
          /\ s.pending = state.pending
          /\ u.email = server.user.email /\ u.role = server.user.role
          /\ u.auth = server.user.auth /\ u.password = server.user.password
          /\ \/ /\ ~u.totp /\ ~s.totp /\ u.passkeys = server.user.passkeys
                /\ u.token = server.user.token /\ s.token = state.token
                /\ s.passkeys = state.passkeys
             \/ /\ ~u.passkeys /\ ~s.passkeys /\ u.totp = server.user.totp
                /\ u.token = server.user.token /\ s.token = state.token
                /\ s.totp = state.totp
             \/ /\ ~u.token /\ ~s.token /\ u.passkeys = server.user.passkeys
                /\ u.totp = server.user.totp /\ s.totp = state.totp
                /\ s.passkeys = state.passkeys
    <3>1. CASE c.what = "resetPasskeys"
      <4> DEFINE s == [state EXCEPT !.passkeys = FALSE]
                 u == [server.user EXCEPT !.passkeys = FALSE]
      <4>1. state' = s /\ server' = [server EXCEPT !.user = u]
        BY <1>2, <3>1 DEF ResetDone, UserServers
      <4>2. s \in UserStates /\ u \in Rows
        BY <1>2 DEF UserStates, Rows
      <4>3. /\ s.careful = state.careful /\ s.id = state.id
            /\ s.loading = state.loading /\ s.gone = state.gone
            /\ s.saved = state.saved
            /\ s.email = state.email /\ s.role = state.role
            /\ s.method = state.method /\ s.change = state.change
            /\ s.password = state.password /\ s.edited = state.edited
            /\ s.pending = state.pending
            /\ s.totp = state.totp /\ s.token = state.token
            /\ ~s.passkeys
        BY <1>2 DEF UserStates
      <4>4. /\ u.email = server.user.email /\ u.role = server.user.role
            /\ u.auth = server.user.auth
            /\ u.password = server.user.password /\ ~u.passkeys
            /\ u.totp = server.user.totp
            /\ u.token = server.user.token
        BY <1>2 DEF Rows
      <4> HIDE DEF s, u
      <4> QED BY <4>1, <4>2, <4>3, <4>4
    <3>2. CASE c.what = "resetTotp"
      <4> DEFINE s == [state EXCEPT !.totp = FALSE]
                 u == [server.user EXCEPT !.totp = FALSE]
      <4>1. state' = s /\ server' = [server EXCEPT !.user = u]
        BY <1>2, <3>2 DEF ResetDone, UserServers
      <4>2. s \in UserStates /\ u \in Rows
        BY <1>2 DEF UserStates, Rows
      <4>3. /\ s.careful = state.careful /\ s.id = state.id
            /\ s.loading = state.loading /\ s.gone = state.gone
            /\ s.saved = state.saved
            /\ s.email = state.email /\ s.role = state.role
            /\ s.method = state.method /\ s.change = state.change
            /\ s.password = state.password /\ s.edited = state.edited
            /\ s.pending = state.pending
            /\ s.passkeys = state.passkeys /\ s.token = state.token
            /\ ~s.totp
        BY <1>2 DEF UserStates
      <4>4. /\ u.email = server.user.email /\ u.role = server.user.role
            /\ u.auth = server.user.auth
            /\ u.password = server.user.password /\ ~u.totp
            /\ u.passkeys = server.user.passkeys
            /\ u.token = server.user.token
        BY <1>2 DEF Rows
      <4> HIDE DEF s, u
      <4> QED BY <4>1, <4>2, <4>3, <4>4
    <3>3. CASE c.what = "revokeApiToken"
      <4> DEFINE s == [state EXCEPT !.token = FALSE]
                 u == [server.user EXCEPT !.token = FALSE]
      <4>1. state' = s /\ server' = [server EXCEPT !.user = u]
        BY <1>2, <3>3 DEF ResetDone, UserServers
      <4>2. s \in UserStates /\ u \in Rows
        BY <1>2 DEF UserStates, Rows
      <4>3. /\ s.careful = state.careful /\ s.id = state.id
            /\ s.loading = state.loading /\ s.gone = state.gone
            /\ s.saved = state.saved
            /\ s.email = state.email /\ s.role = state.role
            /\ s.method = state.method /\ s.change = state.change
            /\ s.password = state.password /\ s.edited = state.edited
            /\ s.pending = state.pending
            /\ s.passkeys = state.passkeys /\ s.totp = state.totp
            /\ ~s.token
        BY <1>2 DEF UserStates
      <4>4. /\ u.email = server.user.email /\ u.role = server.user.role
            /\ u.auth = server.user.auth
            /\ u.password = server.user.password /\ ~u.token
            /\ u.passkeys = server.user.passkeys
            /\ u.totp = server.user.totp
        BY <1>2 DEF Rows
      <4> HIDE DEF s, u
      <4> QED BY <4>1, <4>2, <4>3, <4>4
    <3> QED BY <1>4, <3>1, <3>2, <3>3
  <2> DEFINE v == [server EXCEPT !.user = u]
  <2>2. v \in UserServers /\ v.user = u
    BY <1>2 DEF UserServers
  <2>3. server' = v BY <2>1
  <2> HIDE DEF v
  <2>4. ASSUME state.careful, ~blocked, ~state.gone
        PROVE  InForm(s, v, calls \ {c})
    <3>1. /\ calls \ {c} = {} /\ ~state.loading /\ state.id
          /\ InForm(state, server, calls)
      BY <1>1, <2>4, UserAnswered DEF UserSent, Resets
    <3>2. v.user.totp = s.totp /\ v.user.passkeys = s.passkeys
          /\ v.user.token = s.token
      BY <1>2, <2>1, <2>2, <3>1 DEF InForm, Generated, UserStates, Rows
    <3> QED BY <2>1, <2>2, <3>1, <3>2 DEF InForm, Generated
  <2> QED BY <1>1, <2>1, <2>2, <2>3, <2>4, UserAnswered, UserBecomes
<1> QED BY <1>1, <1>3, <1>4 DEF Resets

(* Every step of the user editor keeps the invariant.                      *)
LEMMA UserSteps == UserInv /\ [UserNext]_webVars => UserInv'
<1> SUFFICES ASSUME UserInv, [UserNext]_webVars PROVE UserInv'
  OBVIOUS
<1>1. CASE UNCHANGED webVars
  BY <1>1 DEF webVars, UserInv
<1>2. CASE UserCallFails
  <2>1. blocked' /\ calls' = {} /\ UNCHANGED <<state, server, clicks>>
    BY <1>2 DEF UserCallFails, Blocks
  <2> QED BY <2>1 DEF UserInv, UserCalls
<1> QED BY <1>1, <1>2, UserEdits, UserSubmitted, UserAsks, AccountLoaded,
           SaveRefusedStays, TokenIsKnown, SaveIsShown, ResetIsShown
        DEF UserNext

(* For an admin who waits for each answer, the form that was saved and not *)
(* edited since shows the account as the server has it, and what the page  *)
(* says of its second factors, and of the token of a service account, is   *)
(* so at any time (UserEditor!UserAsShown).                                *)
THEOREM AccountShownAsItIs == ClientSpec => []UserAsShown
<1> DEFINE Inv == page = "user" => UserInv
<1>1. ClientInit => Inv
  BY OnePage, UserBegins
<1>2. Inv /\ [ClientNext]_webVars => Inv'
  <2> SUFFICES ASSUME Inv, [ClientNext]_webVars, page' = "user"
               PROVE  UserInv'
    OBVIOUS
  <2>1. page = "user" /\ [UserNext]_webVars
    BY OnePage
  <2> QED BY <2>1, UserSteps
<1>3. Inv => UserAsShown
  BY DEF UserAsShown, UserInv, InForm
<1> HIDE DEF Inv
<1> QED BY <1>1, <1>2, <1>3, PTL DEF ClientSpec

------------------------------------------------------------------------------
(* The bookings of an admin.                                               *)

(* The remainder is the only one.                                          *)
LEMMA RemainderIs ==
    ASSUME NEW c \in Nat \ {0}, NEW q \in Int, NEW r \in 0 .. c - 1
    PROVE  (c * q + r) % c = r
<1> DEFINE x == c * q + r
           p == x \div c
           m == x % c
<1>1. x = c * p + m /\ p \in Int /\ m \in Int /\ 0 <= m /\ m < c
  OBVIOUS
<1> HIDE DEF p, m
<1>2. c * (q - p) = m - r
  BY <1>1
<1>3. m - r < c /\ m - r > 0 - c
  BY <1>1
<1>4. CASE q - p >= 1
  <2>1. c * (q - p) >= c BY <1>1, <1>4
  <2> QED BY <1>1, <1>2, <1>3, <2>1
<1>5. CASE q - p <= -1
  <2>1. c * (p - q) >= c BY <1>1, <1>5
  <2>2. c * (q - p) = 0 - c * (p - q) BY <1>1
  <2> QED BY <1>1, <1>2, <1>3, <2>1, <2>2
<1>6. CASE q - p = 0
  <2>1. m = r BY <1>1, <1>2, <1>6
  <2> QED BY <2>1 DEF m
<1> QED BY <1>1, <1>4, <1>5, <1>6

(* The bounds of a day are moments, and their own bounds.                  *)
LEMMA DayBounds ==
    ASSUME NEW t \in Int
    PROVE  /\ DayStart(t) \in Int /\ DayEnd(t) \in Int
           /\ DayStart(DayStart(t)) = DayStart(t)
           /\ DayEnd(DayEnd(t)) = DayEnd(t)
<1> DEFINE c == DaySlots
           q == t \div c
           m == t % c
<1>0. c \in Nat \ {0} BY TimesAssumption
<1>1. t = c * q + m /\ q \in Int /\ m \in Int /\ 0 <= m /\ m < c
  BY <1>0
<1>2. DayStart(t) = t - m /\ DayEnd(t) = t - m + c - 1
  BY DEF DayStart, DayEnd
<1> HIDE DEF q, m
<1> DEFINE a == t - m
<1>3. a = c * q + 0 /\ a + c - 1 = c * q + (c - 1)
  BY <1>0, <1>1
<1>4. a % c = 0 /\ (a + c - 1) % c = c - 1
  <2>1. 0 \in 0 .. c - 1 /\ c - 1 \in 0 .. c - 1 BY <1>0
  <2>2. (c * q + 0) % c = 0 BY <1>0, <1>1, <2>1, RemainderIs
  <2>3. (c * q + (c - 1)) % c = c - 1 BY <1>0, <1>1, <2>1, RemainderIs
  <2> QED BY <1>3, <2>2, <2>3
<1>5. a \in Int BY <1>0, <1>1
<1>6. DayStart(a) = a
  BY <1>0, <1>4, <1>5 DEF DayStart
<1>7. DayEnd(a + c - 1) = a + c - 1
  BY <1>0, <1>4, <1>5 DEF DayEnd, DayStart
<1> QED BY <1>0, <1>2, <1>5, <1>6, <1>7

(* The first day begins with the first slot and ends with its last.        *)
LEMMA FirstDayBounds == DayStart(0) = 0 /\ DayEnd(DaySlots - 1) = DaySlots - 1
<1> DEFINE c == DaySlots
<1>0. c \in Nat \ {0} BY TimesAssumption
<1>1. (c * 0 + 0) % c = 0 /\ (c * 0 + (c - 1)) % c = c - 1
  <2>1. 0 \in 0 .. c - 1 /\ c - 1 \in 0 .. c - 1 BY <1>0
  <2> QED BY <1>0, <2>1, RemainderIs
<1>2. c * 0 + 0 = 0 /\ c * 0 + (c - 1) = c - 1 BY <1>0
<1>3. 0 % c = 0 /\ (c - 1) % c = c - 1 BY <1>1, <1>2
<1> QED BY <1>0, <1>3 DEF DayStart, DayEnd

(* The types of the booking editor: spaces of areas, lists of an area and  *)
(* times, the booking on the server and in the form.                       *)
Sites == Locations \cup {NoLocation}
Choices == Sites \X Int
Listings == [location : Sites, enter : Int, leave : Int]
Bookers == {"self", "other", Nobody}

EditorServers ==
    [space : Choices, enter : Int, leave : Int, user : Bookers,
     subject : Int, others : Int]

EditorStates ==
    [new : BOOLEAN, daily : BOOLEAN, past : BOOLEAN, unrestricted : BOOLEAN,
     enter : Int, leave : Int, location : Sites, space : Choices,
     user : Bookers, subject : Int, listed : Listings, fresh : BOOLEAN,
     spaceLocked : BOOLEAN, timer : {<<>>} \cup ({"enter", "leave"} \X Int),
     hint : BOOLEAN, saved : BOOLEAN, error : BOOLEAN, asking : BOOLEAN,
     gone : BOOLEAN, loading : BOOLEAN, edited : BOOLEAN, waits : BOOLEAN]

(* What calls carry.                                                       *)
EditorCalls(cs) ==
    \A c \in cs :
       /\ c.what = "save" =>
            /\ c.space \in Choices /\ c.enter \in Int /\ c.leave \in Int
            /\ c.user \in Bookers /\ c.subject \in Int /\ c.new \in BOOLEAN
       /\ c.what = "list" => c.of \in Listings /\ c.n \in Int

(* In an organization of whole days, the times are whole days.             *)
Aligned(s, t) == s.daily => DayStart(t.enter) = t.enter /\ DayEnd(t.leave) = t.leave

(* What a call under way has to do with what is on display.                *)
EditorSent(c, s, v, cs) ==
    /\ c.what \in {"data", "save", "delete"} => cs = {c}
    /\ c.what = "data" =>
          /\ s.loading /\ s.location = NoLocation /\ s.space = NoChoice
          /\ s.listed.location = NoLocation /\ s.fresh /\ Aligned(s, v)
    /\ c.what = "settings" => s.loading /\ (~s.new => Aligned(s, s))
    /\ c.what \in {"save", "delete"} => ~s.loading
    /\ c.what = "list" =>
          /\ s.loading => ~s.new
          /\ c.of.location = s.location
          /\ \/ c.of = Listing(s.location, s.enter, s.leave)
             \/ c.n = 0 /\ s.fresh
    /\ c.what = "save" =>
          /\ c.space = s.space /\ c.enter = s.enter /\ c.leave = s.leave
          /\ c.subject = s.subject /\ c.new = s.new
          /\ s.user # Nobody => c.user = s.user
          /\ s.user = Nobody => s.new

(* No list of spaces is under way.                                         *)
NoList(cs) == \A c \in cs : c.what # "list"

(* For an admin who waits: each thing is asked for once, the list shown is *)
(* that of the area, and of the times unless they are about to change.     *)
Displayed(s, v, cs) ==
    /\ \A c \in cs : EditorSent(c, s, v, cs)
    /\ \A c, d \in cs : c.what = d.what => c = d
    /\ s.asking \/ s.timer # <<>> => cs = {} /\ ~s.loading
    /\ ~(s.asking /\ s.timer # <<>>)
    /\ s.timer # <<>> => s.edited
    /\ s.loading => ~s.saved /\ (s.new => s.location = NoLocation)
    /\ ~s.loading => Aligned(s, s)
    /\ NoList(cs) => s.listed.location = s.location
    /\ NoList(cs) /\ s.timer = <<>> /\ ~s.fresh /\ s.location # NoLocation
          => s.listed = Listing(s.location, s.enter, s.leave)
    /\ s.space # NoChoice => s.space[1] = s.location
    /\ s.saved /\ ~s.edited =>
          /\ v.space = s.space /\ v.user = s.user
          /\ v.enter = s.enter /\ v.leave = s.leave /\ v.subject = s.subject

(* The inductive invariant of the booking editor. Its part about an admin  *)
(* who waits ends when the page is left.                                   *)
EditorInv ==
    /\ state \in EditorStates /\ server \in EditorServers
    /\ EditorCalls(calls) /\ clicks \in Int
    /\ state.waits /\ ~blocked /\ ~state.gone => Displayed(state, server, calls)

(* No space is a choice, of no area.                                       *)
LEMMA NoChoiceIs == NoChoice \in Choices /\ NoChoice[1] = NoLocation
BY DEF NoChoice, Choices, Sites

(* A list asked for is of its area.                                        *)
LEMMA ListingIs ==
    ASSUME NEW l \in Sites, NEW e \in Int, NEW f \in Int
    PROVE  /\ Listing(l, e, f) \in Listings
           /\ Listing(l, e, f).location = l
BY DEF Listing, Listings

(* The page opens empty, and loads.                                        *)
LEMMA EditorBegins == EditorInit => EditorInv
<1> SUFFICES ASSUME EditorInit PROVE EditorInv OBVIOUS
<1>1. PICK new, daily, past, unrestricted, waits \in BOOLEAN, l \in Locations :
          /\ new => ~past
          /\ server = [space |-> IF new THEN NoChoice ELSE <<l, 1>>,
                       enter |-> IF daily THEN 0 ELSE Now,
                       leave |-> IF daily THEN DaySlots - 1 ELSE Now + Hour,
                       user |-> "other", subject |-> 0, others |-> 0]
          /\ state = [new |-> new, daily |-> daily, past |-> past,
                      unrestricted |-> unrestricted,
                      enter |-> 0, leave |-> 0, location |-> NoLocation,
                      space |-> NoChoice, user |-> Nobody, subject |-> 0,
                      listed |-> Listing(NoLocation, 0, 0), fresh |-> TRUE,
                      spaceLocked |-> TRUE, timer |-> <<>>, hint |-> FALSE,
                      saved |-> FALSE, error |-> FALSE, asking |-> FALSE,
                      gone |-> FALSE, loading |-> TRUE, edited |-> FALSE,
                      waits |-> waits]
  BY DEF EditorInit
<1>2. calls = {[what |-> "data"]} /\ clicks = 0
  BY DEF EditorInit
<1> DEFINE space == IF new THEN NoChoice ELSE <<l, 1>>
           enter == IF daily THEN 0 ELSE Now
           leave == IF daily THEN DaySlots - 1 ELSE Now + Hour
<1>3. /\ space \in Choices /\ enter \in Int /\ leave \in Int
      /\ daily => enter = 0 /\ leave = DaySlots - 1
  BY NoChoiceIs, TimesAssumption DEF Choices, Sites, Hour
<1>4. server = [space |-> space, enter |-> enter, leave |-> leave,
                user |-> "other", subject |-> 0, others |-> 0]
  BY <1>1
<1> HIDE DEF space, enter, leave
<1>5. server \in EditorServers /\ server.enter = enter /\ server.leave = leave
  BY <1>3, <1>4 DEF EditorServers, Bookers
<1>6. NoLocation \in Sites BY DEF Sites
<1>7. Listing(NoLocation, 0, 0) \in Listings
      /\ Listing(NoLocation, 0, 0).location = NoLocation
  BY <1>6, ListingIs
<1>8. state \in EditorStates
  BY <1>1, <1>6, <1>7, NoChoiceIs DEF EditorStates, Bookers
<1>9. EditorCalls(calls)
  BY <1>2 DEF EditorCalls
<1>10. /\ state.loading /\ state.location = NoLocation
       /\ state.space = NoChoice /\ state.fresh /\ state.daily = daily
       /\ state.listed.location = NoLocation /\ ~state.saved /\ ~state.asking
       /\ state.timer = <<>>
  BY <1>1, <1>7
<1>11. Aligned(state, server)
  BY <1>3, <1>5, <1>10, FirstDayBounds DEF Aligned
<1>12. \A c \in calls : calls = {c} /\ c.what = "data"
  BY <1>2
<1>13. \A c \in calls : EditorSent(c, state, server, calls)
  BY <1>10, <1>11, <1>12 DEF EditorSent
<1>14. Displayed(state, server, calls)
  BY <1>10, <1>12, <1>13 DEF Displayed
<1> QED BY <1>2, <1>5, <1>8, <1>9, <1>14 DEF EditorInv

(* Where a step leads, written as values.                                  *)
LEMMA EditorBecomes ==
    ASSUME EditorInv, NEW s \in EditorStates, NEW v \in EditorServers, NEW cs,
           state' = s, server' = v, calls' = cs, blocked' = blocked,
           clicks' \in Int, s.waits = state.waits, EditorCalls(cs),
           state.waits /\ ~blocked /\ ~s.gone => Displayed(s, v, cs)
    PROVE  EditorInv'
BY DEF EditorInv

(* An admin who waits clicks when nothing is under way, no timer runs and  *)
(* nothing is asked.                                                       *)
LEMMA EditorAtRest ==
    ASSUME EditorInv, BookingAdmin
    PROVE  /\ blocked' = blocked /\ server' = server /\ ~blocked
           /\ ~state.loading /\ ~state.gone /\ ~state.asking
           /\ clicks' \in Int /\ clicks \in Int
           /\ state \in EditorStates /\ server \in EditorServers
           /\ EditorCalls(calls)
           /\ state.waits =>
                /\ calls = {} /\ state.timer = <<>>
                /\ Displayed(state, server, calls)
BY DEF EditorInv, BookingAdmin, Click

(* An edit, of what no list depends on.                                    *)
LEMMA BookingEdited ==
    ASSUME EditorInv, NEW s \in EditorStates, BookingEdit(s), calls' = calls,
           \A f \in {"waits", "new", "daily", "enter", "leave", "location",
                     "listed", "fresh", "saved", "asking", "gone", "loading"} :
              s[f] = state[f],
           s.space = state.space \/ s.space[1] = state.listed.location
    PROVE  EditorInv'
<1> DEFINE t == [s EXCEPT !.edited = TRUE]
<1>1. BookingAdmin /\ state' = t
  BY DEF BookingEdit
<1>2. /\ t \in EditorStates /\ t.edited /\ t.waits = state.waits
      /\ t.new = state.new /\ t.daily = state.daily /\ t.enter = state.enter
      /\ t.leave = state.leave /\ t.location = state.location
      /\ t.listed = state.listed /\ t.fresh = state.fresh
      /\ t.saved = state.saved /\ t.asking = state.asking
      /\ t.gone = state.gone /\ t.loading = state.loading
      /\ t.space = s.space
  BY DEF EditorStates
<1> HIDE DEF t
<1>3. ASSUME state.waits PROVE Displayed(t, server, calls)
  <2>1. calls = {} /\ state.timer = <<>> /\ ~state.loading /\ ~state.asking
        /\ Displayed(state, server, calls)
    BY <1>1, <1>3, EditorAtRest
  <2>2. NoList({}) BY DEF NoList
  <2>3. state.listed.location = state.location
    BY <2>1, <2>2 DEF Displayed
  <2>4. Aligned(t, t)
    BY <1>2, <2>1 DEF Displayed, Aligned
  <2>5. t.space # NoChoice => t.space[1] = t.location
    BY <1>2, <2>1, <2>3 DEF Displayed
  <2> QED BY <1>2, <2>1, <2>2, <2>3, <2>4, <2>5 DEF Displayed
<1> QED BY <1>1, <1>2, <1>3, EditorAtRest, EditorBecomes

(* The edits of the form; one of the times starts the timer.               *)
LEMMA EditorEdits ==
    ASSUME EditorInv,
           \/ \E t \in Times : PickEnter(t) \/ PickLeave(t)
           \/ \E user \in {"self", "other", Nobody} : ChooseUser(user)
           \/ \E nr \in 1 .. SpacesEach : ChooseSpace(nr)
           \/ EditSubject
    PROVE  EditorInv'
<1> DEFINE Same(s) ==
           \A f \in {"waits", "new", "daily", "enter", "leave", "location",
                     "listed", "fresh", "saved", "asking", "gone", "loading"} :
              s[f] = state[f]
<1>0. state \in EditorStates
  BY DEF EditorInv
<1>1. ASSUME NEW t \in Times, PickEnter(t) \/ PickLeave(t) PROVE EditorInv'
  <2> DEFINE S(k) == [state EXCEPT !.timer = k]
  <2>1. PICK which \in {"enter", "leave"} :
           BookingEdit(S(<<which, t>>)) /\ calls' = calls
    BY <1>1 DEF PickEnter, PickLeave
  <2> DEFINE k == <<which, t>>  s == S(k)
  <2>2. k \in {"enter", "leave"} \X Int
    BY TimesAssumption
  <2>3. BookingEdit(s) /\ calls' = calls BY <2>1
  <2> HIDE DEF k
  <2>4. s \in EditorStates BY <1>0, <2>2 DEF EditorStates
  <2>5. Same(s) /\ s.space = state.space BY <1>0 DEF EditorStates
  <2> HIDE DEF s
  <2> QED BY <2>3, <2>4, <2>5, BookingEdited
<1>2. ASSUME NEW user \in {"self", "other", Nobody}, ChooseUser(user)
      PROVE  EditorInv'
  <2> DEFINE s == [state EXCEPT !.user = user]
  <2>3. BookingEdit(s) /\ calls' = calls BY <1>2 DEF ChooseUser
  <2>4. s \in EditorStates BY <1>0 DEF EditorStates, Bookers
  <2>5. Same(s) /\ s.space = state.space BY <1>0 DEF EditorStates
  <2> HIDE DEF s
  <2> QED BY <2>3, <2>4, <2>5, BookingEdited
<1>3. ASSUME NEW nr \in 1 .. SpacesEach, ChooseSpace(nr) PROVE EditorInv'
  <2> DEFINE k == <<state.listed.location, nr>>
             s == [state EXCEPT !.space = k]
  <2>1. nr \in Int BY LocationsAssumption
  <2>2. k \in Choices /\ k[1] = state.listed.location
    BY <1>0, <2>1 DEF EditorStates, Listings, Choices
  <2>3. BookingEdit(s) /\ calls' = calls BY <1>3 DEF ChooseSpace
  <2> HIDE DEF k
  <2>4. s \in EditorStates BY <1>0, <2>2 DEF EditorStates
  <2>5. Same(s) /\ s.space = k BY <1>0 DEF EditorStates
  <2> HIDE DEF s
  <2> QED BY <2>2, <2>3, <2>4, <2>5, BookingEdited
<1>4. CASE EditSubject
  <2> DEFINE s == [state EXCEPT !.subject = 1 - @]
  <2>3. BookingEdit(s) /\ calls' = calls BY <1>4 DEF EditSubject
  <2>4. s \in EditorStates BY <1>0 DEF EditorStates
  <2>5. Same(s) /\ s.space = state.space BY <1>0 DEF EditorStates
  <2> HIDE DEF s
  <2> QED BY <2>3, <2>4, <2>5, BookingEdited
<1> QED BY <1>1, <1>2, <1>3, <1>4

(* Another area: no space is chosen, and its list is asked for.            *)
LEMMA LocationChosen ==
    ASSUME EditorInv, NEW l \in Locations, ChooseLocation(l) PROVE EditorInv'
<1> DEFINE s == [state EXCEPT !.location = l, !.space = NoChoice,
                              !.spaceLocked = FALSE]
           t == [s EXCEPT !.edited = TRUE]
           g == Listing(l, state.enter, state.leave)
           c == ListCall(clicks + 1, g)
<1>1. BookingAdmin /\ state' = t /\ calls' = calls \cup {c}
  BY DEF ChooseLocation, BookingEdit
<1>2. state \in EditorStates /\ clicks \in Int /\ l \in Sites
  BY DEF EditorInv, Sites
<1>3. /\ s \in EditorStates /\ s.waits = state.waits
      /\ s.daily = state.daily /\ s.enter = state.enter
      /\ s.leave = state.leave /\ s.location = l /\ s.asking = state.asking
      /\ s.gone = state.gone /\ s.loading = state.loading
      /\ s.space = NoChoice /\ s.timer = state.timer /\ s.new = state.new
  BY <1>2, NoChoiceIs DEF EditorStates
<1> HIDE DEF s
<1>4. /\ t \in EditorStates /\ t.waits = state.waits
      /\ t.daily = state.daily /\ t.enter = state.enter
      /\ t.leave = state.leave /\ t.location = l /\ t.asking = state.asking
      /\ t.gone = state.gone /\ t.loading = state.loading
      /\ t.space = NoChoice /\ t.timer = state.timer /\ t.edited
  BY <1>3 DEF EditorStates
<1>5. g \in Listings /\ g.location = l
  BY <1>2, ListingIs DEF EditorStates
<1>6. c.what = "list" /\ c.of = g /\ c.n = clicks + 1
  BY DEF ListCall
<1> HIDE DEF t, c
<1>7. EditorCalls(calls \cup {c})
  BY <1>1, <1>2, <1>5, <1>6, EditorAtRest DEF EditorCalls
<1>8. ASSUME state.waits PROVE Displayed(t, server, calls \cup {c})
  <2>1. calls \cup {c} = {c} /\ state.timer = <<>> /\ ~state.loading
        /\ ~state.asking /\ Displayed(state, server, calls)
    BY <1>1, <1>8, EditorAtRest
  <2>2. EditorSent(c, t, server, {c})
    BY <1>4, <1>5, <1>6, <2>1 DEF EditorSent
  <2>3. Aligned(t, t)
    BY <1>4, <2>1 DEF Displayed, Aligned
  <2>4. ~NoList({c}) BY <1>6 DEF NoList
  <2> QED BY <1>4, <2>1, <2>2, <2>3, <2>4 DEF Displayed
<1> QED BY <1>1, <1>4, <1>7, <1>8, EditorAtRest, EditorBecomes

(* The form is sent with what is on display.                               *)
LEMMA BookingSubmitted == ASSUME EditorInv, SubmitBooking PROVE EditorInv'
<1> DEFINE enter == IF state.daily THEN DayStart(state.enter) ELSE state.enter
           leave == IF state.daily THEN DayEnd(state.leave) ELSE state.leave
           user == IF state.user = Nobody THEN "self" ELSE state.user
           s == [state EXCEPT !.saved = FALSE, !.error = FALSE, !.hint = FALSE,
                              !.enter = enter, !.leave = leave]
           h == [s EXCEPT !.hint = TRUE]
           t == [s EXCEPT !.edited = FALSE]
           c == [what |-> "save", n |-> clicks, new |-> state.new,
                 space |-> state.space, enter |-> enter, leave |-> leave,
                 user |-> user, subject |-> state.subject]
<1>1. /\ BookingAdmin
      /\ IF ~state.new /\ state.user = Nobody
         THEN state' = h /\ calls' = calls
         ELSE state' = t /\ calls' = calls \cup {c}
  BY DEF SubmitBooking
<1>2. state \in EditorStates /\ enter \in Int /\ leave \in Int /\ user \in Bookers
  BY DayBounds DEF EditorInv, EditorStates, Bookers
<1>3. ASSUME state.waits PROVE enter = state.enter /\ leave = state.leave
  <2>1. Displayed(state, server, calls) /\ ~state.loading
    BY <1>1, <1>3, EditorAtRest
  <2> QED BY <2>1 DEF Displayed, Aligned
<1>4. /\ c.what = "save" /\ c.new = state.new /\ c.space = state.space
      /\ c.enter = enter /\ c.leave = leave /\ c.user = user
      /\ c.subject = state.subject
  OBVIOUS
<1>5. user = IF state.user = Nobody THEN "self" ELSE state.user
  OBVIOUS
<1> HIDE DEF enter, leave, user, c
<1> DEFINE s1 == [state EXCEPT !.saved = FALSE, !.error = FALSE, !.hint = FALSE]
<1>6. s1 \in EditorStates BY <1>2, ZenonT(40) DEF EditorStates
<1>7. s = [s1 EXCEPT !.enter = enter, !.leave = leave] OBVIOUS
<1>8. s \in EditorStates
  <2> HIDE DEF s, s1
  <2> QED BY <1>2, <1>6, <1>7 DEF EditorStates
<1> DEFINE Like(r) ==
      /\ ~r.saved /\ r.enter = enter /\ r.leave = leave
      /\ r.waits = state.waits /\ r.new = state.new /\ r.daily = state.daily
      /\ r.location = state.location /\ r.space = state.space
      /\ r.user = state.user /\ r.subject = state.subject
      /\ r.listed = state.listed /\ r.fresh = state.fresh
      /\ r.timer = state.timer /\ r.asking = state.asking
      /\ r.gone = state.gone /\ r.loading = state.loading
<1>9. Like(s) BY <1>2 DEF EditorStates
<1> HIDE DEF s
<1>10. h \in EditorStates /\ Like(h) BY <1>8, <1>9 DEF EditorStates
<1>11. t \in EditorStates /\ Like(t) BY <1>8, <1>9 DEF EditorStates
<1> HIDE DEF h, t
<1>12. PICK r \in EditorStates :
          /\ Like(r) /\ state' = r
          /\ \/ calls' = calls
             \/ calls' = calls \cup {c} /\ (state.user # Nobody \/ state.new)
  BY <1>1, <1>10, <1>11
<1>13. EditorCalls(calls')
  BY <1>1, <1>2, <1>4, <1>12, EditorAtRest DEF EditorCalls, EditorStates
<1>14. ASSUME state.waits PROVE Displayed(r, server, calls')
  <2>1. calls = {} /\ state.timer = <<>> /\ ~state.loading
        /\ ~state.asking /\ Displayed(state, server, calls)
    BY <1>1, <1>14, EditorAtRest
  <2>2. r.enter = state.enter /\ r.leave = state.leave
    BY <1>3, <1>12, <1>14
  <2>3. Aligned(r, r)
    BY <1>12, <2>1, <2>2 DEF Displayed, Aligned
  <2>4. \/ calls' = {}
        \/ calls' = {c} /\ (state.user # Nobody \/ state.new)
    BY <1>12, <2>1
  <2>5. calls' = {c} => EditorSent(c, r, server, calls')
    BY <1>4, <1>5, <1>12, <2>1, <2>4 DEF EditorSent
  <2>6. NoList({}) BY DEF NoList
  <2> QED BY <1>12, <2>1, <2>2, <2>3, <2>4, <2>5, <2>6 DEF Displayed
<1> QED BY <1>1, <1>12, <1>13, <1>14, EditorAtRest, EditorBecomes

(* The admin is asked before the booking is deleted.                       *)
LEMMA DeletionAsked == ASSUME EditorInv, AskDeleteBooking PROVE EditorInv'
<1> DEFINE s == [state EXCEPT !.asking = TRUE]
<1>1. BookingAdmin /\ state' = s /\ calls' = calls
  BY DEF AskDeleteBooking
<1>2. state \in EditorStates
  BY DEF EditorInv
<1>3. /\ s \in EditorStates /\ s.asking
      /\ s.waits = state.waits /\ s.new = state.new /\ s.daily = state.daily
      /\ s.enter = state.enter /\ s.leave = state.leave
      /\ s.location = state.location /\ s.space = state.space
      /\ s.user = state.user /\ s.subject = state.subject
      /\ s.listed = state.listed /\ s.fresh = state.fresh
      /\ s.timer = state.timer /\ s.gone = state.gone
      /\ s.loading = state.loading /\ s.saved = state.saved
      /\ s.edited = state.edited
  BY <1>2 DEF EditorStates
<1> HIDE DEF s
<1>4. ASSUME state.waits PROVE Displayed(s, server, calls)
  <2>1. calls = {} /\ state.timer = <<>> /\ ~state.loading
        /\ Displayed(state, server, calls)
    BY <1>1, <1>4, EditorAtRest
  <2>2. Aligned(s, s)
    BY <1>3, <2>1 DEF Displayed, Aligned
  <2> QED BY <1>3, <2>1, <2>2 DEF Displayed
<1> QED BY <1>1, <1>3, <1>4, EditorAtRest, EditorBecomes

(* And answers.                                                            *)
LEMMA DeletionAnswered ==
    ASSUME EditorInv, NEW yes \in BOOLEAN, ConfirmDeleteBooking(yes)
    PROVE  EditorInv'
<1> DEFINE s == [state EXCEPT !.asking = FALSE]
           c == [what |-> "delete"]
<1>1. /\ ~blocked /\ blocked' = blocked /\ clicks' \in Int /\ state.asking
      /\ state' = s /\ calls' = IF yes THEN calls \cup {c} ELSE calls
      /\ server' = server
  BY DEF ConfirmDeleteBooking, Click, EditorInv
<1>2. c.what = "delete" OBVIOUS
<1>3. /\ state \in EditorStates /\ server \in EditorServers
      /\ EditorCalls(calls)
  BY DEF EditorInv
<1>4. /\ s \in EditorStates /\ ~s.asking
      /\ s.waits = state.waits /\ s.new = state.new /\ s.daily = state.daily
      /\ s.enter = state.enter /\ s.leave = state.leave
      /\ s.location = state.location /\ s.space = state.space
      /\ s.user = state.user /\ s.subject = state.subject
      /\ s.listed = state.listed /\ s.fresh = state.fresh
      /\ s.timer = state.timer /\ s.gone = state.gone
      /\ s.loading = state.loading /\ s.saved = state.saved
      /\ s.edited = state.edited
  BY <1>3 DEF EditorStates
<1> HIDE DEF s, c
<1>5. EditorCalls(calls')
  BY <1>1, <1>2, <1>3 DEF EditorCalls
<1>6. ASSUME state.waits, ~state.gone PROVE Displayed(s, server, calls')
  <2>1. calls = {} /\ state.timer = <<>> /\ ~state.loading
        /\ Displayed(state, server, calls)
    BY <1>1, <1>6 DEF EditorInv, Displayed
  <2>2. Aligned(s, s)
    BY <1>4, <2>1 DEF Displayed, Aligned
  <2>3. calls' = {} \/ calls' = {c}
    BY <1>1, <2>1
  <2>4. NoList(calls') /\ NoList(calls)
    BY <1>2, <2>1, <2>3 DEF NoList
  <2>5. \A d \in calls' : EditorSent(d, s, server, calls')
    BY <1>2, <1>4, <2>1, <2>3 DEF EditorSent
  <2> QED BY <1>4, <2>1, <2>2, <2>3, <2>4, <2>5 DEF Displayed
<1> QED BY <1>1, <1>3, <1>4, <1>5, <1>6, EditorBecomes

(* What a time that is applied changes: the times.                         *)
LEMMA AppliedIs ==
    ASSUME NEW s \in EditorStates, NEW which, NEW t \in Int
    PROVE  LET a == Applied(s, which, t) IN
           /\ a \in EditorStates
           /\ Aligned(s, s) => Aligned(a, a)
           /\ a.waits = s.waits /\ a.new = s.new
           /\ a.location = s.location /\ a.space = s.space
           /\ a.user = s.user /\ a.subject = s.subject
           /\ a.listed = s.listed /\ a.fresh = s.fresh
           /\ a.gone = s.gone /\ a.asking = s.asking
           /\ a.loading = s.loading /\ a.saved = s.saved
           /\ a.edited = s.edited /\ a.daily = s.daily
<1> DEFINE a == Applied(s, which, t)
           e == IF s.daily THEN DayStart(t) ELSE t
           f == IF s.daily THEN DayEnd(t + Hour) ELSE t + Hour
           g == IF s.daily THEN DayEnd(t) ELSE t
<1>1. /\ e \in Int /\ f \in Int /\ g \in Int
      /\ s.daily => DayStart(e) = e /\ DayEnd(f) = f /\ DayEnd(g) = g
  BY DayBounds DEF Hour
<1>2. a = IF which = "enter" THEN [s EXCEPT !.enter = e, !.leave = f]
          ELSE [s EXCEPT !.leave = g]
  BY DEF Applied
<1> HIDE DEF a, e, f, g
<1>3. CASE which = "enter"
  <2>1. a = [s EXCEPT !.enter = e, !.leave = f] BY <1>2, <1>3
  <2>2. a \in EditorStates BY <1>1, <2>1 DEF EditorStates
  <2>3. /\ a.enter = e /\ a.leave = f
        /\ a.waits = s.waits /\ a.new = s.new
        /\ a.location = s.location /\ a.space = s.space
        /\ a.user = s.user /\ a.subject = s.subject
        /\ a.listed = s.listed /\ a.fresh = s.fresh
        /\ a.gone = s.gone /\ a.asking = s.asking
        /\ a.loading = s.loading /\ a.saved = s.saved
        /\ a.edited = s.edited /\ a.daily = s.daily
    BY <2>1 DEF EditorStates
  <2> QED BY <1>1, <2>2, <2>3 DEF Aligned, a
<1>4. CASE which # "enter"
  <2>1. a = [s EXCEPT !.leave = g] BY <1>2, <1>4
  <2>2. a \in EditorStates BY <1>1, <2>1 DEF EditorStates
  <2>3. /\ a.enter = s.enter /\ a.leave = g
        /\ a.waits = s.waits /\ a.new = s.new
        /\ a.location = s.location /\ a.space = s.space
        /\ a.user = s.user /\ a.subject = s.subject
        /\ a.listed = s.listed /\ a.fresh = s.fresh
        /\ a.gone = s.gone /\ a.asking = s.asking
        /\ a.loading = s.loading /\ a.saved = s.saved
        /\ a.edited = s.edited /\ a.daily = s.daily
    BY <2>1 DEF EditorStates
  <2> QED BY <1>1, <2>2, <2>3 DEF Aligned, a
<1> QED BY <1>3, <1>4

(* The timer ends: the time is applied, the spaces are listed anew.        *)
LEMMA TimesApplied == ASSUME EditorInv, TimerEnds PROVE EditorInv'
<1> DEFINE a == Applied(state, state.timer[1], state.timer[2])
           hint == ~CanSearch(a)
           s == [a EXCEPT !.timer = <<>>, !.spaceLocked = TRUE, !.hint = hint]
           g == Listing(a.location, a.enter, a.leave)
           c == ListCall(clicks, g)
<1>1. /\ blocked' = blocked /\ clicks' = clicks /\ state.timer # <<>>
      /\ state' = s /\ server' = server
      /\ calls' = IF a.location = NoLocation THEN calls ELSE calls \cup {c}
  BY DEF TimerEnds, Goes
<1>2. /\ state \in EditorStates /\ server \in EditorServers
      /\ EditorCalls(calls) /\ clicks \in Int
  BY DEF EditorInv
<1>3. state.timer[2] \in Int
  BY <1>1, <1>2 DEF EditorStates
<1>4. /\ a \in EditorStates
      /\ Aligned(state, state) => Aligned(a, a)
      /\ a.waits = state.waits /\ a.new = state.new
      /\ a.location = state.location /\ a.space = state.space
      /\ a.user = state.user /\ a.subject = state.subject
      /\ a.listed = state.listed /\ a.fresh = state.fresh
      /\ a.gone = state.gone /\ a.asking = state.asking
      /\ a.loading = state.loading /\ a.saved = state.saved
      /\ a.edited = state.edited
  BY <1>2, <1>3, AppliedIs
<1>5. hint \in BOOLEAN OBVIOUS
<1> HIDE DEF a, hint
<1>6. s \in EditorStates
  <2> DEFINE b == [a EXCEPT !.timer = <<>>, !.spaceLocked = TRUE]
  <2>1. b \in EditorStates BY <1>4 DEF EditorStates
  <2>2. s = [b EXCEPT !.hint = hint] OBVIOUS
  <2> HIDE DEF b, s
  <2> QED BY <1>5, <2>1, <2>2 DEF EditorStates
<1>7. /\ s.waits = state.waits /\ s.new = state.new
      /\ s.location = a.location /\ s.enter = a.enter /\ s.leave = a.leave
      /\ s.space = state.space
      /\ s.user = state.user /\ s.subject = state.subject
      /\ s.listed = state.listed /\ s.fresh = state.fresh
      /\ s.gone = state.gone /\ s.asking = state.asking
      /\ s.loading = state.loading /\ s.saved = state.saved
      /\ s.edited = state.edited /\ s.daily = a.daily
      /\ s.timer = <<>>
  BY <1>4 DEF EditorStates
<1>8. g \in Listings /\ g.location = a.location
  BY <1>4, ListingIs DEF EditorStates
<1>9. c.what = "list" /\ c.of = g /\ c.n = clicks
  BY DEF ListCall
<1> HIDE DEF s, c
<1>10. EditorCalls(calls')
  BY <1>1, <1>2, <1>8, <1>9 DEF EditorCalls
<1>11. ASSUME state.waits, ~blocked, ~state.gone
       PROVE  Displayed(s, server, calls')
  <2>1. Displayed(state, server, calls)
    BY <1>11 DEF EditorInv
  <2>2. /\ calls = {} /\ ~state.loading /\ ~state.asking
        /\ Aligned(state, state)
    BY <1>1, <2>1 DEF Displayed
  <2>3. Aligned(s, s)
    BY <1>4, <1>7, <2>2 DEF Aligned
  <2>4. \/ calls' = {} /\ s.location = NoLocation
        \/ calls' = {c}
    BY <1>1, <1>7, <2>2
  <2>5. \A d \in calls' : EditorSent(d, s, server, calls')
    BY <1>4, <1>7, <1>8, <1>9, <2>2, <2>4 DEF EditorSent
  <2>6. NoList({}) /\ ~NoList({c}) BY <1>9 DEF NoList
  <2>7. state.listed.location = state.location
    BY <2>1, <2>2, <2>6 DEF Displayed
  <2>8. s.timer = <<>> /\ ~s.asking /\ ~s.loading /\ state.edited /\ s.edited
    BY <1>1, <1>4, <1>7, <2>1, <2>2 DEF Displayed
  <2>9. NoList(calls') => calls' = {} /\ s.location = NoLocation
    BY <2>4, <2>6
  <2>10. \A b, d \in calls' : b.what = d.what => b = d
    BY <2>4
  <2>11. s.space # NoChoice => s.space[1] = s.location
    BY <1>4, <1>7, <2>1 DEF Displayed
  <2>12. NoList(calls') => s.listed.location = s.location
    BY <1>4, <1>7, <2>7, <2>9
  <2> QED BY <2>3, <2>5, <2>8, <2>9, <2>10, <2>11, <2>12 DEF Displayed
<1> QED BY <1>1, <1>2, <1>6, <1>7, <1>10, <1>11, EditorBecomes

-----------------------------------------------------------------------------

(* The booking arrives.                                                    *)
LEMMA BookingIsLoaded == ASSUME EditorInv, BookingLoaded PROVE EditorInv'
<1> DEFINE o == [what |-> "data"]
           p == [what |-> "settings"]
           r == [state EXCEPT !.spaceLocked = FALSE]
           q == [state EXCEPT !.enter = server.enter, !.leave = server.leave,
                        !.location = server.space[1], !.space = server.space]
           t == [q EXCEPT !.user = server.user, !.subject = server.subject,
                          !.spaceLocked = FALSE]
           g == Listing(server.space[1], server.enter + Offset,
                        server.leave + Offset)
           c == ListCall(0, g)
<1>1. /\ blocked' = blocked /\ clicks' = clicks /\ server' = server
      /\ o \in calls
      /\ IF state.new THEN state' = r /\ calls' = {p}
         ELSE state' = t /\ calls' = {p} \cup {c}
  BY DEF BookingLoaded, Goes
<1>2. /\ state \in EditorStates /\ server \in EditorServers
      /\ EditorCalls(calls) /\ clicks \in Int
      /\ server.space \in Choices /\ server.space[1] \in Sites
  BY DEF EditorInv, EditorServers, Choices
<1>3. o.what = "data" /\ p.what = "settings" OBVIOUS
<1>4. c.what = "list" /\ c.of = g /\ c.n = 0
  BY DEF ListCall
<1>5. g \in Listings /\ g.location = server.space[1]
  BY <1>2, TimesAssumption, ListingIs DEF EditorServers
<1> HIDE DEF o, p, c, g
<1>6. q \in EditorStates
  BY <1>2 DEF EditorStates, EditorServers
<1>7. /\ q.enter = server.enter /\ q.leave = server.leave
      /\ q.location = server.space[1] /\ q.space = server.space
      /\ q.waits = state.waits /\ q.new = state.new /\ q.gone = state.gone
      /\ q.listed = state.listed /\ q.fresh = state.fresh
      /\ q.timer = state.timer /\ q.asking = state.asking
      /\ q.loading = state.loading /\ q.saved = state.saved
      /\ q.daily = state.daily
  BY <1>2 DEF EditorStates
<1> HIDE DEF q
<1>8. t \in EditorStates
  BY <1>2, <1>6, ZenonT(40) DEF EditorStates, EditorServers
<1>9. /\ t.enter = server.enter /\ t.leave = server.leave
      /\ t.location = server.space[1] /\ t.space = server.space
      /\ t.waits = state.waits /\ t.new = state.new /\ t.gone = state.gone
      /\ t.listed = state.listed /\ t.fresh = state.fresh
      /\ t.timer = state.timer /\ t.asking = state.asking
      /\ t.loading = state.loading /\ t.saved = state.saved
      /\ t.daily = state.daily
  BY <1>6, <1>7 DEF EditorStates
<1>10. /\ r \in EditorStates
       /\ r.waits = state.waits /\ r.new = state.new /\ r.gone = state.gone
       /\ r.location = state.location /\ r.space = state.space
       /\ r.listed = state.listed /\ r.fresh = state.fresh
       /\ r.timer = state.timer /\ r.asking = state.asking
       /\ r.loading = state.loading /\ r.saved = state.saved
  BY <1>2 DEF EditorStates
<1> HIDE DEF r, t
<1>11. EditorCalls(calls')
  BY <1>1, <1>3, <1>4, <1>5 DEF EditorCalls
<1>12. ASSUME state.waits, ~blocked, ~state.gone
       PROVE  Displayed(state', server, calls')
  <2>1. /\ Displayed(state, server, calls) /\ calls = {o}
        /\ state.loading /\ state.location = NoLocation
        /\ state.space = NoChoice /\ state.listed.location = NoLocation
        /\ state.fresh /\ Aligned(state, server)
    BY <1>1, <1>3, <1>12 DEF EditorInv, Displayed, EditorSent
  <2>2. state.timer = <<>> /\ ~state.asking /\ ~state.saved
    BY <2>1 DEF Displayed
  <2>3. CASE state.new
    <3>1. state' = r /\ calls' = {p} BY <1>1, <2>3
    <3>2. EditorSent(p, r, server, {p})
      BY <1>3, <1>10, <2>1, <2>3 DEF EditorSent
    <3> QED BY <1>10, <2>1, <2>2, <3>1, <3>2 DEF Displayed
  <2>4. CASE ~state.new
    <3>1. state' = t /\ calls' = {p} \cup {c} BY <1>1, <2>4
    <3>2. Aligned(t, t) BY <1>9, <2>1 DEF Aligned
    <3>3. EditorSent(p, t, server, calls')
      BY <1>3, <1>9, <2>1, <2>4, <3>2 DEF EditorSent
    <3>4. EditorSent(c, t, server, calls')
      BY <1>4, <1>5, <1>9, <2>1, <2>4 DEF EditorSent
    <3>5. \A d, e \in calls' : d.what = e.what => d = e
      BY <1>3, <1>4, <3>1
    <3>6. ~NoList(calls') BY <1>4, <3>1 DEF NoList
    <3> QED BY <1>9, <2>1, <2>2, <2>4, <3>1, <3>3, <3>4, <3>5, <3>6 DEF Displayed
  <2> QED BY <2>3, <2>4
<1>13. state' \in EditorStates /\ state'.waits = state.waits
       /\ state'.gone = state.gone
  BY <1>1, <1>8, <1>9, <1>10
<1> QED BY <1>1, <1>2, <1>11, <1>12, <1>13, EditorBecomes

(* The settings arrive, and the form is ready.                             *)
LEMMA EditorIsReady == ASSUME EditorInv, EditorReady PROVE EditorInv'
<1> DEFINE p == [what |-> "settings"]
           e == IF state.daily THEN DayStart(Now) ELSE Now
           f == IF state.daily THEN DayEnd(Now) ELSE Now + Hour
           r == [state EXCEPT !.enter = e, !.leave = f, !.loading = FALSE]
           t == [state EXCEPT !.loading = FALSE]
<1>1. /\ blocked' = blocked /\ clicks' = clicks /\ server' = server
      /\ p \in calls /\ calls' = calls \ {p}
      /\ state' = IF state.new THEN r ELSE t
  BY DEF EditorReady, Goes
<1>2. /\ state \in EditorStates /\ server \in EditorServers
      /\ EditorCalls(calls) /\ clicks \in Int
  BY DEF EditorInv
<1>3. p.what = "settings" OBVIOUS
<1>4. /\ e \in Int /\ f \in Int
      /\ state.daily => DayStart(e) = e /\ DayEnd(f) = f
  BY TimesAssumption, DayBounds DEF Hour
<1> HIDE DEF p, e, f
<1>5. /\ t \in EditorStates /\ ~t.loading
      /\ t.enter = state.enter /\ t.leave = state.leave
      /\ t.waits = state.waits /\ t.new = state.new /\ t.gone = state.gone
      /\ t.location = state.location /\ t.space = state.space
      /\ t.user = state.user /\ t.subject = state.subject
      /\ t.listed = state.listed /\ t.fresh = state.fresh
      /\ t.timer = state.timer /\ t.asking = state.asking
      /\ t.saved = state.saved /\ t.edited = state.edited
      /\ t.daily = state.daily
  BY <1>2 DEF EditorStates
<1>6. r = [t EXCEPT !.enter = e, !.leave = f] BY <1>2 DEF EditorStates
<1> HIDE DEF t, r
<1>7. /\ r \in EditorStates /\ ~r.loading
      /\ r.enter = e /\ r.leave = f
      /\ r.waits = state.waits /\ r.new = state.new /\ r.gone = state.gone
      /\ r.location = state.location /\ r.space = state.space
      /\ r.user = state.user /\ r.subject = state.subject
      /\ r.listed = state.listed /\ r.fresh = state.fresh
      /\ r.timer = state.timer /\ r.asking = state.asking
      /\ r.saved = state.saved /\ r.edited = state.edited
      /\ r.daily = state.daily
  BY <1>4, <1>5, <1>6 DEF EditorStates
<1>8. EditorCalls(calls') BY <1>1, <1>2 DEF EditorCalls
<1>9. ASSUME state.waits, ~blocked, ~state.gone
      PROVE  Displayed(state', server, calls')
  <2>1. /\ Displayed(state, server, calls) /\ EditorSent(p, state, server, calls)
        /\ state.loading /\ (~state.new => Aligned(state, state))
    BY <1>1, <1>3, <1>9 DEF EditorInv, Displayed, EditorSent
  <2>2. /\ state.timer = <<>> /\ ~state.asking /\ ~state.saved
        /\ state.new => state.location = NoLocation
    BY <2>1 DEF Displayed
  <2>3. \A c \in calls' : /\ c \in calls /\ c.what # "settings"
                          /\ EditorSent(c, state, server, calls)
                          /\ c.what \notin {"data", "save", "delete"}
    BY <1>1, <1>3, <2>1 DEF Displayed, EditorSent
  <2>4. NoList(calls') => NoList(calls)
    BY <1>1, <1>3 DEF NoList
  <2>5. \A c, d \in calls' : c.what = d.what => c = d
    BY <2>1, <2>3 DEF Displayed
  <2>6. CASE state.new
    <3>1. state' = r BY <1>1, <2>6
    <3>2. Aligned(r, r) BY <1>4, <1>7 DEF Aligned
    <3>3. \A c \in calls' : c.what # "list"
      BY <2>1, <2>3, <2>6 DEF EditorSent
    <3>4. \A c \in calls' : EditorSent(c, r, server, calls')
      BY <2>3, <3>3 DEF EditorSent
    <3>5. state.listed.location = state.location /\ r.location = NoLocation
      BY <1>7, <2>1, <2>2, <2>4, <2>6, <3>3 DEF Displayed, NoList
    <3> QED BY <1>7, <2>1, <2>2, <2>5, <3>1, <3>2, <3>4, <3>5 DEF Displayed
  <2>7. CASE ~state.new
    <3>1. state' = t BY <1>1, <2>7
    <3>2. Aligned(t, t) BY <1>5, <2>1, <2>7 DEF Aligned
    <3>3. \A c \in calls' : EditorSent(c, t, server, calls')
      BY <1>5, <2>3 DEF EditorSent
    <3> QED BY <1>5, <2>1, <2>2, <2>4, <2>5, <3>1, <3>2, <3>3 DEF Displayed
  <2> QED BY <2>6, <2>7
<1>10. state' \in EditorStates /\ state'.waits = state.waits
       /\ state'.gone = state.gone
  BY <1>1, <1>5, <1>7
<1> QED BY <1>1, <1>2, <1>8, <1>9, <1>10, EditorBecomes

(* A list arrives: of an admin who waits, the only one, of the area and    *)
(* the times on display.                                                   *)
LEMMA SpacesAreListed ==
    ASSUME EditorInv, NEW call \in calls, SpacesListed(call)
    PROVE  EditorInv'
<1> DEFINE x == state.fresh /\ call.n = 0
           s == [state EXCEPT !.listed = call.of, !.spaceLocked = FALSE,
                              !.fresh = x]
<1>1. /\ blocked' = blocked /\ clicks' = clicks /\ server' = server
      /\ call.what = "list" /\ ~state.gone /\ calls' = calls \ {call}
      /\ state' = [state EXCEPT !.listed = call.of, !.spaceLocked = FALSE,
                                !.fresh = @ /\ call.n = 0]
  BY DEF SpacesListed, Goes
<1>2. /\ state \in EditorStates /\ server \in EditorServers
      /\ EditorCalls(calls) /\ clicks \in Int /\ call.of \in Listings
  BY <1>1 DEF EditorInv, EditorCalls
<1>3. state' = s BY <1>1, <1>2 DEF EditorStates
<1>4. x \in BOOLEAN /\ (x <=> state.fresh /\ call.n = 0)
  BY <1>2 DEF EditorStates
<1> HIDE DEF x
<1>5. s \in EditorStates
  <2> DEFINE b == [state EXCEPT !.listed = call.of, !.spaceLocked = FALSE]
  <2>1. b \in EditorStates BY <1>2 DEF EditorStates
  <2>2. s = [b EXCEPT !.fresh = x] OBVIOUS
  <2> HIDE DEF b, s
  <2> QED BY <1>4, <2>1, <2>2 DEF EditorStates
<1>6. /\ s.listed = call.of /\ s.fresh = x
      /\ s.enter = state.enter /\ s.leave = state.leave
      /\ s.waits = state.waits /\ s.new = state.new /\ s.gone = state.gone
      /\ s.location = state.location /\ s.space = state.space
      /\ s.user = state.user /\ s.subject = state.subject
      /\ s.timer = state.timer /\ s.asking = state.asking
      /\ s.saved = state.saved /\ s.edited = state.edited
      /\ s.daily = state.daily /\ s.loading = state.loading
  BY <1>2 DEF EditorStates
<1> HIDE DEF s
<1>7. EditorCalls(calls') BY <1>1, <1>2 DEF EditorCalls
<1>8. ASSUME state.waits, ~blocked, ~state.gone
      PROVE  Displayed(s, server, calls')
  <2>1. Displayed(state, server, calls) /\ EditorSent(call, state, server, calls)
    BY <1>8 DEF EditorInv, Displayed
  <2>2. /\ call.of.location = state.location
        /\ \/ call.of = Listing(state.location, state.enter, state.leave)
           \/ call.n = 0 /\ state.fresh
    BY <1>1, <2>1 DEF EditorSent
  <2>3. state.timer = <<>> /\ ~state.asking
    BY <2>1 DEF Displayed
  <2>4. \A c \in calls' : /\ c \in calls /\ c.what # "list"
                          /\ EditorSent(c, state, server, calls)
                          /\ c.what \notin {"data", "save", "delete"}
    BY <1>1, <2>1 DEF Displayed, EditorSent
  <2>5. \A c \in calls' : EditorSent(c, s, server, calls')
    BY <1>6, <2>4 DEF EditorSent, Aligned
  <2>6. \A c, d \in calls' : c.what = d.what => c = d
    BY <2>1, <2>4 DEF Displayed
  <2>7. ~s.fresh => s.listed = Listing(s.location, s.enter, s.leave)
    BY <1>1, <1>4, <1>6, <2>1 DEF EditorSent
  <2>8. s.listed.location = s.location BY <1>6, <2>2
  <2>9. ~s.loading => Aligned(s, s)
    BY <1>6, <2>1 DEF Displayed, Aligned
  <2> QED BY <1>6, <2>1, <2>3, <2>5, <2>6, <2>7, <2>8, <2>9 DEF Displayed
<1> QED BY <1>1, <1>2, <1>3, <1>5, <1>6, <1>7, <1>8, EditorBecomes

(* The booking is stored as it was sent.                                   *)
LEMMA BookingIsStored ==
    ASSUME EditorInv, NEW call \in calls, BookingStored(call)
    PROVE  EditorInv'
<1> DEFINE user == IF call.new THEN call.user ELSE state.user
           lock == state.spaceLocked /\ ~call.new
           more == IF call.new /\ ~state.new THEN 1 ELSE 0
           s == [state EXCEPT !.new = FALSE, !.saved = TRUE, !.user = user,
                              !.spaceLocked = lock]
           v == [space |-> call.space, enter |-> call.enter,
                 leave |-> call.leave, user |-> call.user,
                 subject |-> call.subject, others |-> server.others + more]
<1>1. /\ blocked' = blocked /\ clicks' = clicks /\ server' = v
      /\ call.what = "save" /\ calls' = calls \ {call}
      /\ state' = [state EXCEPT !.new = FALSE, !.saved = TRUE,
                              !.user = IF call.new THEN call.user ELSE @,
                              !.spaceLocked = @ /\ ~call.new]
  BY DEF BookingStored, Goes
<1>2. /\ state \in EditorStates /\ server \in EditorServers
      /\ EditorCalls(calls) /\ clicks \in Int
      /\ call.space \in Choices /\ call.enter \in Int /\ call.leave \in Int
      /\ call.user \in Bookers /\ call.subject \in Int /\ call.new \in BOOLEAN
  BY <1>1 DEF EditorInv, EditorCalls
<1>3. state' = s BY <1>1, <1>2 DEF EditorStates
<1>4. /\ user \in Bookers /\ lock \in BOOLEAN /\ more \in Int
      /\ call.new => user = call.user
      /\ ~call.new => user = state.user
  BY <1>2 DEF EditorStates
<1> HIDE DEF user, lock, more
<1>5. s \in EditorStates
  <2> DEFINE b == [state EXCEPT !.new = FALSE, !.saved = TRUE]
             d == [b EXCEPT !.user = user]
  <2>1. b \in EditorStates BY <1>2 DEF EditorStates
  <2> HIDE DEF b
  <2>2. d \in EditorStates BY <1>4, <2>1 DEF EditorStates
  <2>3. s = [d EXCEPT !.spaceLocked = lock] BY DEF b
  <2> HIDE DEF d, s
  <2> QED BY <1>4, <2>2, <2>3 DEF EditorStates
<1>6. /\ ~s.new /\ s.saved /\ s.user = user
      /\ s.listed = state.listed /\ s.fresh = state.fresh
      /\ s.enter = state.enter /\ s.leave = state.leave
      /\ s.waits = state.waits /\ s.gone = state.gone
      /\ s.location = state.location /\ s.space = state.space
      /\ s.subject = state.subject
      /\ s.timer = state.timer /\ s.asking = state.asking
      /\ s.edited = state.edited
      /\ s.daily = state.daily /\ s.loading = state.loading
  BY <1>2 DEF EditorStates
<1>7. /\ v \in EditorServers /\ v.space = call.space /\ v.enter = call.enter
      /\ v.leave = call.leave /\ v.user = call.user
      /\ v.subject = call.subject
  BY <1>2, <1>4 DEF EditorServers
<1> HIDE DEF s, v
<1>8. EditorCalls(calls') BY <1>1, <1>2 DEF EditorCalls
<1>9. ASSUME state.waits, ~blocked, ~state.gone
      PROVE  Displayed(s, v, calls')
  <2>1. /\ Displayed(state, server, calls) /\ EditorSent(call, state, server, calls)
        /\ calls = {call} /\ ~state.loading
    BY <1>1, <1>9 DEF EditorInv, Displayed, EditorSent
  <2>2. state.timer = <<>> /\ ~state.asking /\ calls' = {}
    BY <1>1, <2>1 DEF Displayed
  <2>3. NoList(calls) /\ NoList({})
    BY <1>1, <2>1 DEF NoList
  <2>4. /\ call.space = state.space /\ call.enter = state.enter
        /\ call.leave = state.leave /\ call.subject = state.subject
        /\ call.user = user
    BY <1>1, <1>4, <2>1 DEF EditorSent
  <2>5. Aligned(s, s)
    BY <1>6, <2>1 DEF Displayed, Aligned
  <2>6. /\ s.listed.location = s.location
        /\ s.space # NoChoice => s.space[1] = s.location
        /\ ~s.fresh /\ s.location # NoLocation
           => s.listed = Listing(s.location, s.enter, s.leave)
    BY <1>6, <2>1, <2>2, <2>3 DEF Displayed
  <2> QED BY <1>6, <1>7, <2>1, <2>2, <2>4, <2>5, <2>6 DEF Displayed
<1> QED BY <1>1, <1>2, <1>3, <1>5, <1>6, <1>7, <1>8, <1>9, EditorBecomes

(* A booking that is refused changes nothing on the server.                *)
LEMMA BookingIsRefused ==
    ASSUME EditorInv, NEW call \in calls, BookingRefused(call)
    PROVE  EditorInv'
<1> DEFINE s == [state EXCEPT !.error = TRUE, !.saved = FALSE]
<1>1. /\ blocked' = blocked /\ clicks' = clicks /\ server' = server
      /\ call.what = "save" /\ calls' = calls \ {call} /\ state' = s
  BY DEF BookingRefused, Goes
<1>2. /\ state \in EditorStates /\ server \in EditorServers
      /\ EditorCalls(calls) /\ clicks \in Int
  BY DEF EditorInv
<1>3. s \in EditorStates /\ ~s.saved
  <2> DEFINE b == [state EXCEPT !.error = TRUE]
  <2>1. b \in EditorStates BY <1>2 DEF EditorStates
  <2>2. s = [b EXCEPT !.saved = FALSE] OBVIOUS
  <2> HIDE DEF b, s
  <2> QED BY <2>1, <2>2 DEF EditorStates
<1>4. /\ s.new = state.new /\ s.user = state.user
      /\ s.listed = state.listed /\ s.fresh = state.fresh
      /\ s.enter = state.enter /\ s.leave = state.leave
      /\ s.waits = state.waits /\ s.gone = state.gone
      /\ s.location = state.location /\ s.space = state.space
      /\ s.subject = state.subject
      /\ s.timer = state.timer /\ s.asking = state.asking
      /\ s.edited = state.edited
      /\ s.daily = state.daily /\ s.loading = state.loading
  BY <1>2 DEF EditorStates
<1> HIDE DEF s
<1>5. EditorCalls(calls') BY <1>1, <1>2 DEF EditorCalls
<1>6. ASSUME state.waits, ~blocked, ~state.gone
      PROVE  Displayed(s, server, calls')
  <2>1. /\ Displayed(state, server, calls) /\ EditorSent(call, state, server, calls)
        /\ calls = {call} /\ ~state.loading
    BY <1>1, <1>6 DEF EditorInv, Displayed, EditorSent
  <2>2. state.timer = <<>> /\ ~state.asking /\ calls' = {}
    BY <1>1, <2>1 DEF Displayed
  <2>3. NoList(calls) /\ NoList({})
    BY <1>1, <2>1 DEF NoList
  <2>4. Aligned(s, s)
    BY <1>4, <2>1 DEF Displayed, Aligned
  <2>5. /\ s.listed.location = s.location
        /\ s.space # NoChoice => s.space[1] = s.location
        /\ ~s.fresh /\ s.location # NoLocation
           => s.listed = Listing(s.location, s.enter, s.leave)
    BY <1>4, <2>1, <2>2, <2>3 DEF Displayed
  <2> QED BY <1>3, <1>4, <2>1, <2>2, <2>4, <2>5 DEF Displayed
<1> QED BY <1>1, <1>2, <1>3, <1>4, <1>5, <1>6, EditorBecomes

(* The booking is deleted, and the page left.                              *)
LEMMA BookingIsRemoved == ASSUME EditorInv, BookingRemoved PROVE EditorInv'
<1> DEFINE s == [state EXCEPT !.gone = TRUE]
           v == [server EXCEPT !.space = NoChoice]
<1>1. /\ blocked' = blocked /\ clicks' = clicks /\ server' = v
      /\ calls' = {} /\ state' = s
  BY DEF BookingRemoved, Goes
<1>2. /\ state \in EditorStates /\ server \in EditorServers /\ clicks \in Int
  BY DEF EditorInv
<1>3. s \in EditorStates /\ s.gone /\ s.waits = state.waits
  BY <1>2 DEF EditorStates
<1>4. v \in EditorServers
  BY <1>2, NoChoiceIs DEF EditorServers
<1>5. EditorCalls({}) BY DEF EditorCalls
<1> HIDE DEF s, v
<1> QED BY <1>1, <1>2, <1>3, <1>4, <1>5, EditorBecomes

(* A call fails.                                                           *)
LEMMA EditorBlocked == ASSUME EditorInv, EditorCallFails PROVE EditorInv'
<1>1. /\ blocked' /\ clicks' = clicks /\ server' = server /\ state' = state
      /\ calls' = {}
  BY DEF EditorCallFails, Blocks
<1>2. EditorCalls({}) BY DEF EditorCalls
<1> QED BY <1>1, <1>2 DEF EditorInv

(* Every step of the booking editor keeps the invariant.                   *)
LEMMA EditorKeeps == ASSUME EditorInv, EditorNext PROVE EditorInv'
<1>1. CASE BookingLoaded BY <1>1, BookingIsLoaded
<1>2. CASE EditorReady BY <1>2, EditorIsReady
<1>3. CASE \/ \E t \in Times : PickEnter(t) \/ PickLeave(t)
           \/ \E user \in {"self", "other", Nobody} : ChooseUser(user)
           \/ \E nr \in 1 .. SpacesEach : ChooseSpace(nr)
           \/ EditSubject
  BY <1>3, EditorEdits DEF Bookers
<1>4. CASE \E l \in Locations : ChooseLocation(l)
  BY <1>4, LocationChosen
<1>5. CASE SubmitBooking BY <1>5, BookingSubmitted
<1>6. CASE AskDeleteBooking BY <1>6, DeletionAsked
<1>7. CASE \E yes \in BOOLEAN : ConfirmDeleteBooking(yes)
  BY <1>7, DeletionAnswered
<1>8. CASE TimerEnds BY <1>8, TimesApplied
<1>9. CASE BookingRemoved BY <1>9, BookingIsRemoved
<1>10. CASE EditorCallFails BY <1>10, EditorBlocked
<1>11. CASE \E call \in calls : \/ SpacesListed(call) \/ BookingStored(call)
                                \/ BookingRefused(call)
  BY <1>11, SpacesAreListed, BookingIsStored, BookingIsRefused
<1> QED
  BY <1>1, <1>2, <1>3, <1>4, <1>5, <1>6, <1>7, <1>8, <1>9, <1>10, <1>11
  DEF EditorNext

(* It implies what is asked of the editor.                                 *)
LEMMA EditorIsEnough ==
    ASSUME page = "adminBooking" => EditorInv PROVE BookingAsShown
<1> SUFFICES ASSUME page = "adminBooking", state.waits, calls = {}, ~blocked,
                    state.timer = <<>>, ~state.gone, ~state.loading,
                    EditorInv
             PROVE  /\ state.location # NoLocation /\ ~state.fresh
                       => state.listed = Listing(state.location, state.enter,
                                                 state.leave)
                    /\ state.space # NoChoice => state.space[1] = state.location
                    /\ state.saved /\ ~state.edited
                       => /\ server.space = state.space
                          /\ server.user = state.user
                          /\ server.enter = state.enter
                          /\ server.leave = state.leave
                          /\ server.subject = state.subject
  BY DEF BookingAsShown
<1>1. NoList(calls) BY DEF NoList
<1> QED BY <1>1 DEF EditorInv, Displayed

(* For an admin who waits, the form that was saved and not edited since    *)
(* shows the booking as the server has it, the spaces listed are those of  *)
(* the area and the times on display, and the space chosen is of that area *)
(* (BookingEditor!BookingAsShown).                                         *)
THEOREM BookingIsAsShown == ClientSpec => []BookingAsShown
<1> DEFINE Inv == page = "adminBooking" => EditorInv
<1>1. ClientInit => Inv
  BY OnePage, EditorBegins
<1>2. Inv /\ [ClientNext]_webVars => Inv'
  <2> SUFFICES ASSUME Inv, [ClientNext]_webVars, page' = "adminBooking"
               PROVE  EditorInv'
    OBVIOUS
  <2>1. page = "adminBooking" /\ [EditorNext]_webVars
    BY OnePage
  <2>2. CASE UNCHANGED webVars
    BY <2>1, <2>2 DEF webVars, EditorInv
  <2> QED BY <2>1, <2>2, EditorKeeps
<1>3. Inv => BookingAsShown
  BY EditorIsEnough
<1> HIDE DEF Inv
<1> QED BY <1>1, <1>2, <1>3, PTL DEF ClientSpec

------------------------------------------------------------------------------
(* The settings of the organization.                                       *)

(* The quotient is the only one.                                           *)
LEMMA QuotientIs ==
    ASSUME NEW c \in Nat \ {0}, NEW q \in Int, NEW r \in 0 .. c - 1
    PROVE  (c * q + r) \div c = q
<1> DEFINE x == c * q + r
           p == x \div c
<1>1. x = c * p + (x % c) /\ p \in Int
  OBVIOUS
<1>2. x % c = r BY RemainderIs
<1> HIDE DEF p
<1>3. c * (q - p) = 0 BY <1>1, <1>2
<1>4. CASE q - p >= 1
  <2>1. c * (q - p) >= c BY <1>1, <1>4
  <2> QED BY <1>3, <2>1
<1>5. CASE q - p <= -1
  <2>1. c * (p - q) >= c BY <1>1, <1>5
  <2>2. c * (q - p) = 0 - c * (p - q) BY <1>1
  <2> QED BY <1>3, <2>1, <2>2
<1>6. CASE q - p = 0
  BY <1>1, <1>6 DEF p
<1> QED BY <1>1, <1>4, <1>5, <1>6

(* Hours are entered by the hour or by the day.                            *)
LEMMA UnitIs == ASSUME NEW daily PROVE Unit(daily) \in Nat \ {0}
BY SettingsAssumption DEF Unit

(* What is rounded is a multiple of the unit, and stays when rounded.      *)
LEMMA Rounded ==
    ASSUME NEW u \in Nat \ {0}, NEW k \in Int
    PROVE  RoundTo(u, u * k) = u * k
<1>1. 2 * (u * k) + u = (2 * u) * k + u
  OBVIOUS
<1>2. 2 * u \in Nat \ {0} /\ u \in 0 .. (2 * u) - 1
  OBVIOUS
<1>3. ((2 * u) * k + u) \div (2 * u) = k
  BY <1>2, QuotientIs
<1> QED BY <1>1, <1>3 DEF RoundTo

(* What is rounded is a multiple.                                          *)
LEMMA RoundedIs ==
    ASSUME NEW u \in Nat \ {0}, NEW h \in Int
    PROVE  \E k \in Int : RoundTo(u, h) = u * k
<1> DEFINE k == (2 * h + u) \div (2 * u)
<1>1. k \in Int OBVIOUS
<1> QED BY <1>1 DEF RoundTo

(* Showing a length again, or sending what is shown, changes nothing: the  *)
(* settings saved are those on display.                                    *)
LEMMA ShownStays ==
    ASSUME NEW daily \in BOOLEAN, NEW h \in Int
    PROVE  /\ ShownMin(daily, h) \in Int /\ ShownMax(daily, h) \in Int
           /\ ShownMin(daily, ShownMin(daily, h)) = ShownMin(daily, h)
           /\ ShownMax(daily, ShownMax(daily, h)) = ShownMax(daily, h)
<1> DEFINE u == Unit(daily)
<1>1. u \in Nat \ {0} BY UnitIs
<1>2. PICK k \in Int : RoundTo(u, h) = u * k BY <1>1, RoundedIs
<1>3. RoundTo(u, u * k) = u * k BY <1>1, Rounded
<1>4. RoundTo(u, u * 1) = u * 1 BY <1>1, Rounded, SMTT(30)
<1>5. u * 1 = u /\ u * k \in Int BY <1>1
<1> HIDE DEF u
<1>6. ShownMin(daily, h) = u * k
  BY <1>2 DEF ShownMin, u
<1>7. ShownMin(daily, u * k) = u * k
  BY <1>3 DEF ShownMin, u
<1>8. ShownMax(daily, h) = IF u * k < u THEN u ELSE u * k
  BY <1>2 DEF ShownMax, u
<1>9. ShownMax(daily, u * k) = IF u * k < u THEN u ELSE u * k
  BY <1>3 DEF ShownMax, u
<1>10. ShownMax(daily, u) = u
  BY <1>4, <1>5 DEF ShownMax, u
<1> QED BY <1>1, <1>5, <1>6, <1>7, <1>8, <1>9, <1>10

(* The types of the settings page.                                         *)
Domains == [DomainNames -> [there : BOOLEAN, active : BOOLEAN, primary : BOOLEAN]]

SettingsServers ==
    [daily : BOOLEAN, concurrent : Int, max : Int, min : Int, secret : Int,
     domains : Domains, super : BOOLEAN]

SettingsStates ==
    [daily : BOOLEAN, concurrent : Int, last : Int, max : Int, min : Int,
     secret : Int, generated : Nat, domains : Domains, newDomain : Int,
     ask : {"none", "remove", "verify", "deleteOrg", "deleteOrgAgain"},
     asked : Int, alert : BOOLEAN, saved : BOOLEAN, gone : BOOLEAN,
     loading : BOOLEAN, signup : Int, careful : BOOLEAN, undone : BOOLEAN]

(* What calls carry.                                                       *)
SettingsCalls(cs) ==
    \A c \in cs :
       /\ c.what = "secret" => c.secret \in Int
       /\ c.what = "listed" => c.domains \in Domains
       /\ c.what = "save" => /\ c.daily \in BOOLEAN /\ c.concurrent \in Int
                             /\ c.max \in Int /\ c.min \in Int

(* What a call under way has to do with the page and the server.           *)
SettingsSent(c, s, v) ==
    /\ c.what = "load" => s.loading
    /\ c.what # "load" => ~s.loading
    /\ c.what = "listed" => c.domains = v.domains
    /\ c.what = "secret" => c.secret = s.secret /\ c.secret # Placeholder
    /\ c.what = "save" =>
          /\ c.daily = s.daily /\ c.concurrent = s.concurrent
          /\ c.max = ShownMax(s.daily, s.max)
          /\ c.min = ShownMin(s.daily, s.min)

(* For a careful admin: one call at a time once the page is loaded, the    *)
(* domains on display are the server's unless they are on their way or     *)
(* undone, a generated secret is on display or saved, and what is said to  *)
(* be saved is what the form shows.                                        *)
Tidy(s, v, cs) ==
    /\ ~s.loading => \A c, d \in cs : c = d
    /\ \A c \in cs : SettingsSent(c, s, v)
    /\ s.loading => ~s.saved /\ s.generated = NoSecret
    /\ LoadCall("settings") \in cs => ~s.undone
    /\ ~s.undone /\ LoadCall("domains") \notin cs
          /\ (\A c \in cs : c.what \notin {"list", "listed"})
          => s.domains = v.domains
    /\ s.generated # NoSecret =>
          \/ s.secret = s.generated
          \/ s.secret = Placeholder /\ v.secret = s.generated
    /\ s.saved =>
          /\ v.daily = s.daily /\ v.concurrent = s.concurrent
          /\ v.max = ShownMax(s.daily, s.max)
          /\ v.min = ShownMin(s.daily, s.min)

(* The inductive invariant of the settings page.                           *)
SettingsInv ==
    /\ state \in SettingsStates /\ server \in SettingsServers
    /\ SettingsCalls(calls) /\ clicks \in Nat
    /\ state.careful /\ ~blocked => Tidy(state, server, calls)

(* The page opens, and loads.                                              *)
LEMMA SettingsBegins == SettingsInit => SettingsInv
<1> SUFFICES ASSUME SettingsInit PROVE SettingsInv OBVIOUS
<1>1. PICK daily, super, careful \in BOOLEAN, concurrent \in {Unlimited, 2},
           signup \in {0, 1}, secret \in {NoSecret, OldSecret} :
          /\ server = [daily |-> daily, concurrent |-> concurrent,
                       max |-> DayHours + 1, min |-> 1, secret |-> secret,
                       domains |-> FirstDomains, super |-> super]
          /\ state = [daily |-> FALSE, concurrent |-> Unlimited, last |-> 1,
                      max |-> 0, min |-> 0, secret |-> NoSecret,
                      generated |-> NoSecret, domains |-> NoDomains, undone |-> FALSE,
                      newDomain |-> 0, ask |-> "none", asked |-> 0,
                      alert |-> FALSE, saved |-> FALSE, gone |-> FALSE,
                      loading |-> TRUE, signup |-> signup, careful |-> careful]
  BY DEF SettingsInit
<1>2. calls = {LoadCall(part) : part \in Loads} /\ clicks = 0
  BY DEF SettingsInit
<1>a. LoadCall("domains") \in calls /\ \A c \in calls : c.what = "load"
  BY <1>2 DEF LoadCall, Loads
<1>3. FirstDomains \in Domains /\ NoDomains \in Domains
  BY DEF FirstDomains, Domains, NoDomain, NoDomains
<1>4. server \in SettingsServers
  BY <1>1, <1>3, SettingsAssumption
  DEF SettingsServers, Unlimited, NoSecret, OldSecret
<1>5. state \in SettingsStates
  BY <1>1, <1>3 DEF SettingsStates, Unlimited, NoSecret
<1>6. SettingsCalls(calls)
  BY <1>a DEF SettingsCalls
<1>7. /\ state.loading /\ ~state.saved /\ ~state.undone
      /\ state.generated = NoSecret
  BY <1>1
<1>8. Tidy(state, server, calls)
  BY <1>a, <1>7 DEF Tidy, SettingsSent
<1> QED BY <1>2, <1>4, <1>5, <1>6, <1>8 DEF SettingsInv

(* Where a step leads, written as values.                                  *)
LEMMA SettingsBecomes ==
    ASSUME SettingsInv, NEW s \in SettingsStates, NEW v \in SettingsServers,
           NEW cs, state' = s, server' = v, calls' = cs, blocked' = blocked,
           clicks' \in Nat, s.careful = state.careful, SettingsCalls(cs),
           state.careful /\ ~blocked => Tidy(s, v, cs)
    PROVE  SettingsInv'
BY DEF SettingsInv

(* A careful admin clicks when nothing is under way.                       *)
LEMMA SettingsAtRest ==
    ASSUME SettingsInv, SettingsAdmin
    PROVE  /\ blocked' = blocked /\ server' = server /\ ~blocked
           /\ ~state.loading /\ ~state.saved
           /\ clicks' \in Nat /\ clicks \in Nat
           /\ state \in SettingsStates /\ server \in SettingsServers
           /\ SettingsCalls(calls)
           /\ state.careful => calls = {} /\ Tidy(state, server, calls)
BY DEF SettingsInv, SettingsAdmin, Click

(* The fields a change of the form leaves alone.                           *)
LEMMA SettingsEdited ==
    ASSUME SettingsInv, NEW s \in SettingsStates, SettingsAdmin,
           state' = s, calls' = calls,
           s.domains = state.domains, s.undone = state.undone,
           s.saved = state.saved,
           s.loading = state.loading, s.careful = state.careful,
           \/ s.secret = state.secret /\ s.generated = state.generated
           \/ s.secret = s.generated
    PROVE  SettingsInv'
<1>1. state.careful => Tidy(s, server, calls)
  BY SettingsAtRest DEF Tidy
<1> QED BY <1>1, SettingsAtRest, SettingsBecomes

(* A call that an admin makes who waits for none.                          *)
LEMMA SettingsCalled ==
    ASSUME SettingsInv, NEW s \in SettingsStates, NEW c, SettingsAdmin,
           state' = s, calls' = calls \cup {c}, SettingsCalls({c}),
           s.domains = state.domains, s.undone = state.undone,
           s.saved = state.saved,
           s.loading = state.loading, s.careful = state.careful,
           s.secret = state.secret, s.generated = state.generated,
           c.what \notin {"load", "listed", "list"},
           SettingsSent(c, s, server)
    PROVE  SettingsInv'
<1>1. SettingsCalls(calls \cup {c})
  BY SettingsAtRest DEF SettingsCalls
<1>2. ASSUME state.careful PROVE Tidy(s, server, {c})
  BY <1>2, SettingsAtRest DEF Tidy, LoadCall
<1>3. state.careful => calls \cup {c} = {c}
  BY SettingsAtRest
<1> QED BY <1>1, <1>2, <1>3, SettingsAtRest, SettingsBecomes

(* The edits and the questions of the page.                                *)
LEMMA SettingsEdits ==
    ASSUME SettingsInv,
           \/ TickUnlimited \/ ToggleDaily \/ GenerateSecret \/ AskDeleteOrg
           \/ CloseAlert \/ ChooseAuthProvider
           \/ \E n \in {NotANumber, Unlimited, 2} : TypeConcurrent(n)
           \/ \E n \in Lengths : TypeMaxDuration(n) \/ TypeMinDuration(n)
           \/ \E d \in DomainNames : \/ TypeDomain(d)
                                     \/ \E what \in {"remove", "verify"} :
                                           AskDomain(what, d)
    PROVE  SettingsInv'
<1> DEFINE Same(s) ==
           \A f \in {"domains", "saved", "loading", "careful", "secret",
                     "generated", "undone"} : s[f] = state[f]
<1>0. state \in SettingsStates /\ clicks \in Nat
  BY DEF SettingsInv
<1>a. ASSUME NEW s \in SettingsStates, OnSettings(s), Same(s)
      PROVE  SettingsInv'
  <2>1. SettingsAdmin /\ state' = s /\ calls' = calls
    BY <1>a DEF OnSettings
  <2> QED BY <1>a, <2>1, SettingsEdited
<1>1. CASE TickUnlimited
  <2> DEFINE n == IF state.concurrent = Unlimited THEN state.last ELSE Unlimited
             l == IF state.concurrent > 0 THEN state.concurrent ELSE state.last
             r == [state EXCEPT !.concurrent = state.last]
             s == [state EXCEPT !.concurrent = Unlimited, !.last = l]
  <2>1. l \in Int /\ Unlimited \in Int
    BY <1>0 DEF SettingsStates, Unlimited
  <2>2. OnSettings(r) \/ OnSettings(s)
    BY <1>0, <1>1 DEF TickUnlimited, SettingsStates
  <2> HIDE DEF l
  <2>3. r \in SettingsStates /\ Same(r) BY <1>0 DEF SettingsStates
  <2>4. s \in SettingsStates /\ Same(s) BY <1>0, <2>1 DEF SettingsStates
  <2> HIDE DEF r, s
  <2> QED BY <1>a, <2>2, <2>3, <2>4
<1>2. CASE ToggleDaily
  <2> DEFINE x == ~state.daily  s == [state EXCEPT !.daily = x]
  <2>1. x \in BOOLEAN OBVIOUS
  <2>2. OnSettings(s)
    BY <1>0, <1>2 DEF ToggleDaily, SettingsStates
  <2> HIDE DEF x
  <2>3. s \in SettingsStates /\ Same(s) BY <1>0, <2>1 DEF SettingsStates
  <2> HIDE DEF s
  <2> QED BY <1>a, <2>2, <2>3
<1>3. CASE GenerateSecret
  <2> DEFINE k == clicks + 1
             s == [state EXCEPT !.secret = k, !.generated = k]
  <2>0. k \in Nat /\ k \in Int BY <1>0
  <2>1. SettingsAdmin /\ state' = s /\ calls' = calls
    BY <1>3 DEF GenerateSecret, OnSettings
  <2> HIDE DEF k
  <2>2. /\ s \in SettingsStates /\ s.secret = s.generated
        /\ s.domains = state.domains /\ s.undone = state.undone
        /\ s.saved = state.saved
        /\ s.loading = state.loading /\ s.careful = state.careful
    BY <1>0, <2>0 DEF SettingsStates
  <2> HIDE DEF s
  <2> QED BY <2>1, <2>2, SettingsEdited
<1>4. CASE AskDeleteOrg
  <2> DEFINE s == [state EXCEPT !.ask = "deleteOrg"]
  <2>1. OnSettings(s) BY <1>4 DEF AskDeleteOrg
  <2>2. s \in SettingsStates /\ Same(s) BY <1>0 DEF SettingsStates
  <2> HIDE DEF s
  <2> QED BY <1>a, <2>1, <2>2
<1>5. CASE CloseAlert
  <2> DEFINE s == [state EXCEPT !.alert = FALSE]
  <2>1. SettingsAdmin /\ state' = s /\ calls' = calls
    BY <1>5 DEF CloseAlert
  <2>2. s \in SettingsStates /\ Same(s) BY <1>0 DEF SettingsStates
  <2> HIDE DEF s
  <2> QED BY <2>1, <2>2, SettingsEdited
<1>6. CASE ChooseAuthProvider
  <2> DEFINE s == [state EXCEPT !.gone = TRUE]
  <2>1. OnSettings(s) BY <1>6 DEF ChooseAuthProvider
  <2>2. s \in SettingsStates /\ Same(s) BY <1>0 DEF SettingsStates
  <2> HIDE DEF s
  <2> QED BY <1>a, <2>1, <2>2
<1>7. ASSUME NEW n \in {NotANumber, Unlimited, 2}, TypeConcurrent(n)
      PROVE  SettingsInv'
  <2> DEFINE l == IF n > 0 THEN n ELSE state.last
             s == [state EXCEPT !.concurrent = n, !.last = l]
  <2>1. n \in Int /\ l \in Int
    BY <1>0 DEF SettingsStates, Unlimited, NotANumber
  <2>2. OnSettings(s) BY <1>0, <1>7 DEF TypeConcurrent, SettingsStates
  <2> HIDE DEF l
  <2>3. s \in SettingsStates /\ Same(s) BY <1>0, <2>1 DEF SettingsStates
  <2> HIDE DEF s
  <2> QED BY <1>a, <2>2, <2>3
<1>8. ASSUME NEW n \in Lengths, TypeMaxDuration(n) \/ TypeMinDuration(n)
      PROVE  SettingsInv'
  <2> DEFINE h == n * Unit(state.daily)
             r == [state EXCEPT !.max = h]
             s == [state EXCEPT !.min = h]
  <2>1. h \in Int BY UnitIs, SettingsAssumption
  <2>2. OnSettings(r) \/ OnSettings(s)
    BY <1>8 DEF TypeMaxDuration, TypeMinDuration
  <2> HIDE DEF h
  <2>3. r \in SettingsStates /\ Same(r) BY <1>0, <2>1 DEF SettingsStates
  <2>4. s \in SettingsStates /\ Same(s) BY <1>0, <2>1 DEF SettingsStates
  <2> HIDE DEF r, s
  <2> QED BY <1>a, <2>2, <2>3, <2>4
<1>9. ASSUME NEW d \in DomainNames, TypeDomain(d) PROVE SettingsInv'
  <2> DEFINE s == [state EXCEPT !.newDomain = d]
  <2>1. OnSettings(s) BY <1>9 DEF TypeDomain
  <2>2. s \in SettingsStates /\ Same(s)
    BY <1>0, SettingsAssumption DEF SettingsStates
  <2> HIDE DEF s
  <2> QED BY <1>a, <2>1, <2>2
<1>10. ASSUME NEW d \in DomainNames, NEW what \in {"remove", "verify"},
              AskDomain(what, d)
       PROVE  SettingsInv'
  <2> DEFINE r == [state EXCEPT !.ask = what]
             s == [r EXCEPT !.asked = d]
  <2>1. OnSettings([state EXCEPT !.ask = what, !.asked = d])
    BY <1>10 DEF AskDomain
  <2>2. s = [state EXCEPT !.ask = what, !.asked = d] OBVIOUS
  <2>3. d \in Int BY SettingsAssumption
  <2>4. r \in SettingsStates /\ Same(r) BY <1>0 DEF SettingsStates
  <2> HIDE DEF r
  <2>5. s \in SettingsStates /\ Same(s)
    BY <2>3, <2>4 DEF SettingsStates
  <2> HIDE DEF s
  <2> QED BY <1>a, <2>1, <2>2, <2>5
<1> QED BY <1>1, <1>2, <1>3, <1>4, <1>5, <1>6, <1>7, <1>8, <1>9, <1>10

(* A call made without a change of the form.                               *)
LEMMA SettingsCallMade ==
    ASSUME SettingsInv, NEW c, OnSettingsCall(c), SettingsCalls({c}),
           c.what \notin {"load", "listed", "list"},
           SettingsSent(c, state, server)
    PROVE  SettingsInv'
<1>1. SettingsAdmin /\ state' = state /\ calls' = calls \cup {c}
  BY DEF OnSettingsCall
<1>2. state \in SettingsStates BY DEF SettingsInv
<1> QED BY <1>1, <1>2, SettingsCalled

(* The buttons that send.                                                  *)
LEMMA SettingsSends ==
    ASSUME SettingsInv,
           \/ SaveSecret \/ SubmitSettings \/ AddDomain
           \/ \E d \in DomainNames : MakePrimary(d)
    PROVE  SettingsInv'
<1>0. state \in SettingsStates /\ clicks \in Nat
  BY DEF SettingsInv
<1>1. CASE SaveSecret
  <2> DEFINE c == [what |-> "secret", secret |-> state.secret, n |-> clicks]
  <2>1. OnSettingsCall(c) /\ state.secret # Placeholder
    BY <1>1 DEF SaveSecret
  <2>2. c.what = "secret" /\ c.secret = state.secret OBVIOUS
  <2> HIDE DEF c
  <2>3. ~state.loading BY <2>1, SettingsAtRest DEF OnSettingsCall
  <2>4. SettingsCalls({c}) /\ SettingsSent(c, state, server)
    BY <1>0, <2>1, <2>2, <2>3 DEF SettingsCalls, SettingsSent, SettingsStates
  <2> QED BY <2>1, <2>2, <2>4, SettingsCallMade
<1>2. CASE SubmitSettings
  <2> DEFINE c == [what |-> "save", n |-> clicks, daily |-> state.daily,
                   concurrent |-> state.concurrent,
                   max |-> ShownMax(state.daily, state.max),
                   min |-> ShownMin(state.daily, state.min)]
  <2>1. OnSettingsCall(c) BY <1>2 DEF SubmitSettings
  <2>2. /\ c.what = "save" /\ c.daily = state.daily
        /\ c.concurrent = state.concurrent
        /\ c.max = ShownMax(state.daily, state.max)
        /\ c.min = ShownMin(state.daily, state.min)
    OBVIOUS
  <2> HIDE DEF c
  <2>3. ~state.loading BY <2>1, SettingsAtRest DEF OnSettingsCall
  <2>4. c.max \in Int /\ c.min \in Int
    BY <1>0, <2>2, ShownStays DEF SettingsStates
  <2>5. SettingsCalls({c}) /\ SettingsSent(c, state, server)
    BY <1>0, <2>2, <2>3, <2>4 DEF SettingsCalls, SettingsSent, SettingsStates
  <2> QED BY <2>1, <2>2, <2>5, SettingsCallMade
<1>3. CASE AddDomain
  <2> DEFINE c == [what |-> "add", domain |-> state.newDomain, n |-> clicks]
  <2>1. OnSettingsCall(c) BY <1>3 DEF AddDomain
  <2>2. c.what = "add" OBVIOUS
  <2> HIDE DEF c
  <2>3. ~state.loading BY <2>1, SettingsAtRest DEF OnSettingsCall
  <2>4. SettingsCalls({c}) /\ SettingsSent(c, state, server)
    BY <2>2, <2>3 DEF SettingsCalls, SettingsSent
  <2> QED BY <2>1, <2>2, <2>4, SettingsCallMade
<1>4. ASSUME NEW d \in DomainNames, MakePrimary(d) PROVE SettingsInv'
  <2> DEFINE c == [what |-> "primary", domain |-> d, n |-> clicks]
  <2>1. OnSettingsCall(c) BY <1>4 DEF MakePrimary
  <2>2. c.what = "primary" OBVIOUS
  <2> HIDE DEF c
  <2>3. ~state.loading BY <2>1, SettingsAtRest DEF OnSettingsCall
  <2>4. SettingsCalls({c}) /\ SettingsSent(c, state, server)
    BY <2>2, <2>3 DEF SettingsCalls, SettingsSent
  <2> QED BY <2>1, <2>2, <2>4, SettingsCallMade
<1> QED BY <1>1, <1>2, <1>3, <1>4

(* The answer to a question sends what was asked, or nothing.              *)
LEMMA QuestionAnswered ==
    ASSUME SettingsInv, NEW yes \in BOOLEAN, AnswerQuestion(yes)
    PROVE  SettingsInv'
<1> DEFINE ask == state.ask
           a == IF ask = "deleteOrg" /\ yes THEN "deleteOrgAgain" ELSE "none"
           s == [state EXCEPT !.ask = a]
           c == [what |-> "deleteOrg", n |-> clicks]
           d == [what |-> ask, domain |-> state.asked, n |-> clicks]
<1>0. state \in SettingsStates /\ clicks \in Nat
  BY DEF SettingsInv
<1>1. /\ SettingsAdmin /\ ask # "none" /\ state' = s
      /\ calls' = CASE ~yes \/ ask = "deleteOrg" -> calls
                  [] yes /\ ask = "deleteOrgAgain" -> calls \cup {c}
                  [] yes /\ ask \in {"remove", "verify"} ->
                        IF ~state.domains[state.asked].there THEN calls
                        ELSE calls \cup {d}
  BY DEF AnswerQuestion
<1>2. \/ calls' = calls
      \/ calls' = calls \cup {c}
      \/ calls' = calls \cup {d} /\ ask \in {"remove", "verify"}
  <2>1. ask \in {"remove", "verify", "deleteOrg", "deleteOrgAgain"}
    BY <1>0, <1>1 DEF SettingsStates
  <2> HIDE DEF ask, c, d
  <2>2. CASE ~yes \/ ask = "deleteOrg"
    BY <1>1, <2>2
  <2>3. CASE yes /\ ask = "deleteOrgAgain"
    BY <1>1, <2>3
  <2>4. CASE yes /\ ask \in {"remove", "verify"}
    BY <1>1, <2>4
  <2> QED BY <2>1, <2>2, <2>3, <2>4
<1>3. c.what = "deleteOrg" /\ d.what = ask OBVIOUS
<1>4. a \in {"none", "deleteOrgAgain"} OBVIOUS
<1> HIDE DEF a, c, d
<1>5. /\ s \in SettingsStates
      /\ s.domains = state.domains /\ s.undone = state.undone
      /\ s.saved = state.saved
      /\ s.loading = state.loading /\ s.careful = state.careful
      /\ s.secret = state.secret /\ s.generated = state.generated
  BY <1>0, <1>4 DEF SettingsStates
<1> HIDE DEF s, ask
<1>6. CASE calls' = calls
  BY <1>1, <1>5, <1>6, SettingsEdited
<1>7. ~s.loading BY <1>1, <1>5, SettingsAtRest
<1>8. CASE calls' = calls \cup {c}
  <2>1. SettingsCalls({c}) /\ SettingsSent(c, s, server)
    BY <1>3, <1>7 DEF SettingsCalls, SettingsSent
  <2> QED BY <1>1, <1>3, <1>5, <1>8, <2>1, SettingsCalled
<1>9. CASE calls' = calls \cup {d} /\ ask \in {"remove", "verify"}
  <2>1. SettingsCalls({d}) /\ SettingsSent(d, s, server)
    BY <1>3, <1>7, <1>9 DEF SettingsCalls, SettingsSent
  <2> QED BY <1>1, <1>3, <1>5, <1>9, <2>1, SettingsCalled
<1> QED BY <1>2, <1>6, <1>8, <1>9

(* What the server does with domains leaves domains.                       *)
LEMMA DomainsAre ==
    ASSUME NEW domains \in Domains, NEW d
    PROVE  /\ SetPrimaryDomain(domains, d) \in Domains
           /\ ensureOrgHasPrimaryDomain(domains, d) \in Domains
           /\ \A super \in BOOLEAN : DomainAdded(domains, d, super) \in Domains
           /\ DomainRemoved(domains, d) \in Domains
           /\ [domains EXCEPT ![d].active = TRUE] \in Domains
<1>1. ASSUME NEW f \in Domains, NEW e
      PROVE  SetPrimaryDomain(f, e) \in Domains
  <2>1. ASSUME NEW g \in DomainNames
        PROVE  [f[g] EXCEPT !.primary = e = g]
                   \in [there : BOOLEAN, active : BOOLEAN, primary : BOOLEAN]
    <3> DEFINE x == e = g
    <3>1. x \in BOOLEAN OBVIOUS
    <3> HIDE DEF x
    <3>2. [f[g] EXCEPT !.primary = x]
             \in [there : BOOLEAN, active : BOOLEAN, primary : BOOLEAN]
      BY <3>1 DEF Domains
    <3> QED BY <3>2 DEF x
  <2> QED BY <2>1 DEF SetPrimaryDomain, Domains
<1>2. ASSUME NEW f \in Domains, NEW e
      PROVE  ensureOrgHasPrimaryDomain(f, e) \in Domains
  <2> DEFINE first == CHOOSE g \in {h \in Present(f) : f[h].active} :
                         \A k \in {h \in Present(f) : f[h].active} : g <= k
  <2>1. \/ ensureOrgHasPrimaryDomain(f, e) = f
        \/ ensureOrgHasPrimaryDomain(f, e) = SetPrimaryDomain(f, e)
        \/ ensureOrgHasPrimaryDomain(f, e) = SetPrimaryDomain(f, first)
    BY DEF ensureOrgHasPrimaryDomain
  <2> HIDE DEF first
  <2> QED BY <1>1, <2>1
<1>3. [domains EXCEPT ![d] = NoDomain] \in Domains
  BY DEF Domains, NoDomain
<1>4. ASSUME NEW super \in BOOLEAN
      PROVE  DomainAdded(domains, d, super) \in Domains
  <2>1. [domains EXCEPT ![d] =
            [there |-> TRUE, active |-> super, primary |-> FALSE]] \in Domains
    BY DEF Domains
  <2> QED BY <1>2, <2>1 DEF DomainAdded
<1>5. [domains EXCEPT ![d].active = TRUE] \in Domains
  <2> DEFINE r == [domains[d] EXCEPT !.active = TRUE]
  <2>1. d \in DomainNames =>
           r \in [there : BOOLEAN, active : BOOLEAN, primary : BOOLEAN]
    BY DEF Domains
  <2>2. [domains EXCEPT ![d].active = TRUE] = [domains EXCEPT ![d] = r]
    OBVIOUS
  <2> HIDE DEF r
  <2>3. [domains EXCEPT ![d] = r] \in Domains
    BY <2>1 DEF Domains
  <2> QED BY <2>2, <2>3
<1> QED BY <1>1, <1>2, <1>3, <1>4, <1>5 DEF DomainRemoved

(* An answer comes: for a careful admin, to the only call there is unless  *)
(* the page is loading.                                                    *)
LEMMA SettingsAnswered ==
    ASSUME SettingsInv, NEW c \in calls
    PROVE  /\ state \in SettingsStates /\ server \in SettingsServers
           /\ SettingsCalls(calls \ {c}) /\ SettingsCalls(calls)
           /\ clicks \in Nat
           /\ state.careful /\ ~blocked =>
                 /\ c.what # "load" => calls = {c} /\ calls \ {c} = {}
                 /\ SettingsSent(c, state, server)
                 /\ Tidy(state, server, calls)
<1>1. SettingsCalls(calls \ {c}) BY DEF SettingsInv, SettingsCalls
<1>2. ASSUME state.careful, ~blocked, c.what # "load"
      PROVE  calls = {c} /\ calls \ {c} = {}
  <2>1. Tidy(state, server, calls) BY <1>2 DEF SettingsInv
  <2>2. ~state.loading BY <1>2, <2>1 DEF Tidy, SettingsSent
  <2> QED BY <2>1, <2>2 DEF Tidy
<1>3. state.careful /\ ~blocked => SettingsSent(c, state, server)
  BY DEF SettingsInv, Tidy
<1> QED BY <1>1, <1>2, <1>3 DEF SettingsInv

(* One of the answers to the loads comes: nothing else is under way, and   *)
(* nothing is clicked.                                                     *)
LEMMA PartArrives ==
    ASSUME SettingsInv, NEW part \in Loads, NEW s \in SettingsStates,
           Arrives(part, s), s.careful = state.careful,
           s.saved = state.saved, s.generated = state.generated,
           state.careful /\ ~blocked /\ ~s.undone
              /\ LoadCall("domains") \notin calls \ {LoadCall(part)}
              => s.domains = server.domains,
           state.careful /\ ~blocked
              /\ LoadCall("settings") \in calls \ {LoadCall(part)}
              => ~s.undone
    PROVE  SettingsInv'
<1> DEFINE o == LoadCall(part)
           cs == calls \ {o}
           more == cs # {}
           q == [s EXCEPT !.loading = more]
<1>1. /\ blocked' = blocked /\ clicks' = clicks /\ server' = server
      /\ o \in calls /\ calls' = cs /\ state' = q
  BY DEF Arrives, Goes
<1>2. more \in BOOLEAN /\ o.what = "load" BY DEF LoadCall
<1>3. /\ state \in SettingsStates /\ server \in SettingsServers
      /\ clicks \in Nat
  BY DEF SettingsInv
<1> HIDE DEF o, more
<1>4. /\ q \in SettingsStates /\ q.careful = state.careful
      /\ q.saved = s.saved /\ q.generated = s.generated
      /\ q.domains = s.domains /\ q.undone = s.undone /\ q.loading = more
  BY <1>2 DEF SettingsStates
<1> HIDE DEF q
<1>5. ASSUME state.careful, ~blocked PROVE Tidy(q, server, cs)
  <2>1. SettingsSent(o, state, server) /\ Tidy(state, server, calls)
    BY <1>1, <1>5, SettingsAnswered
  <2>2. state.loading /\ ~state.saved /\ state.generated = NoSecret
    BY <1>2, <2>1 DEF Tidy, SettingsSent
  <2>3. \A c \in cs : c.what = "load"
    BY <2>1, <2>2 DEF Tidy, SettingsSent
  <2>4. \A c \in cs : SettingsSent(c, q, server)
    BY <1>4, <2>3 DEF SettingsSent, more
  <2>5. ~q.loading => \A c, d \in cs : c = d
    BY <1>4 DEF more
  <2>6. ~q.undone /\ LoadCall("domains") \notin cs => q.domains = server.domains
    BY <1>4, <1>5 DEF o
  <2>7. LoadCall("settings") \in cs => ~q.undone
    BY <1>4, <1>5 DEF o
  <2> HIDE DEF cs
  <2> QED BY <1>4, <2>2, <2>4, <2>5, <2>6, <2>7 DEF Tidy
<1>6. SettingsCalls(cs) BY <1>1, SettingsAnswered
<1> QED BY <1>1, <1>3, <1>4, <1>5, <1>6, SettingsBecomes

(* The settings arrive.                                                    *)
LEMMA SettingsAreLoaded ==
    ASSUME SettingsInv, NEW undoes \in BOOLEAN, SettingsLoaded(undoes)
    PROVE  SettingsInv'
<1> DEFINE l == IF server.concurrent > 0 THEN server.concurrent ELSE state.last
           k == IF server.secret = NoSecret THEN NoSecret ELSE Placeholder
           d == IF undoes THEN NoDomains ELSE state.domains
           q == [state EXCEPT !.daily = server.daily,
                              !.concurrent = server.concurrent, !.last = l,
                              !.max = server.max, !.min = server.min]
           s == [q EXCEPT !.secret = k, !.domains = d, !.undone = undoes]
<1>2. /\ state \in SettingsStates /\ server \in SettingsServers
  BY DEF SettingsInv
<1>3. /\ Arrives("settings", s)
      /\ undoes => LoadCall("domains") \notin calls
  BY <1>2 DEF SettingsLoaded, SettingsStates
<1>4. l \in Int /\ k \in Int
  BY <1>2 DEF SettingsStates, SettingsServers, NoSecret, Placeholder
<1>5. d \in Domains
  BY <1>2 DEF SettingsStates, Domains, NoDomains, NoDomain
<1>6. ~undoes => d = state.domains OBVIOUS
<1> HIDE DEF l, k, d
<1>7. /\ q \in SettingsStates /\ q.careful = state.careful
      /\ q.saved = state.saved /\ q.generated = state.generated
  BY <1>2, <1>4 DEF SettingsStates, SettingsServers
<1> HIDE DEF q
<1>8. /\ s \in SettingsStates /\ s.careful = state.careful
      /\ s.saved = state.saved /\ s.generated = state.generated
      /\ s.domains = d /\ s.undone = undoes
  BY <1>4, <1>5, <1>7 DEF SettingsStates
<1> HIDE DEF s
<1>9. LoadCall("settings") \in calls BY <1>3 DEF Arrives
<1>10. ASSUME state.careful, ~blocked, ~undoes,
              LoadCall("domains") \notin calls \ {LoadCall("settings")}
       PROVE  d = server.domains
  <2>1. SettingsSent(LoadCall("settings"), state, server)
        /\ Tidy(state, server, calls)
    BY <1>9, <1>10, SettingsAnswered
  <2>2. state.loading BY <2>1 DEF SettingsSent, LoadCall
  <2>3. \A c \in calls : c.what = "load"
    BY <2>1, <2>2 DEF Tidy, SettingsSent
  <2>4. LoadCall("domains") \notin calls
    BY <1>10 DEF LoadCall
  <2>5. ~state.undone
    BY <1>9, <2>1 DEF Tidy
  <2> QED BY <1>6, <1>10, <2>1, <2>3, <2>4, <2>5 DEF Tidy
<1>11. LoadCall("settings") \notin calls \ {LoadCall("settings")} OBVIOUS
<1> QED BY <1>3, <1>8, <1>10, <1>11, PartArrives DEF Loads

(* The domains arrive, and what only fills lists of choices.               *)
LEMMA OthersAreLoaded ==
    ASSUME SettingsInv, DomainsLoaded \/ OthersLoaded
    PROVE  SettingsInv'
<1>1. /\ state \in SettingsStates /\ server \in SettingsServers
      /\ server.domains \in Domains
  BY DEF SettingsInv, SettingsServers
<1>2. CASE DomainsLoaded
  <2> DEFINE s == [state EXCEPT !.domains = server.domains]
  <2>1. Arrives("domains", s) BY <1>2 DEF DomainsLoaded
  <2>2. /\ s \in SettingsStates /\ s.careful = state.careful
        /\ s.saved = state.saved /\ s.generated = state.generated
        /\ s.domains = server.domains /\ s.undone = state.undone
    BY <1>1 DEF SettingsStates
  <2> HIDE DEF s
  <2>3. LoadCall("domains") \in calls BY <2>1 DEF Arrives
  <2>4. state.careful /\ ~blocked => Tidy(state, server, calls)
    BY <2>3, SettingsAnswered
  <2>5. ASSUME state.careful, ~blocked,
               LoadCall("settings") \in calls \ {LoadCall("domains")}
        PROVE  ~s.undone
    BY <2>2, <2>4, <2>5 DEF Tidy
  <2> QED BY <2>1, <2>2, <2>5, PartArrives DEF Loads
<1>3. CASE OthersLoaded
  <2>1. Arrives("rest", state) BY <1>3 DEF OthersLoaded
  <2>2. LoadCall("rest") \in calls BY <2>1 DEF Arrives
  <2>3. ASSUME state.careful, ~blocked, ~state.undone,
               LoadCall("domains") \notin calls \ {LoadCall("rest")}
        PROVE  state.domains = server.domains
    <3>1. SettingsSent(LoadCall("rest"), state, server)
          /\ Tidy(state, server, calls)
      BY <2>2, <2>3, SettingsAnswered
    <3>2. state.loading BY <3>1 DEF SettingsSent, LoadCall
    <3>3. \A c \in calls : c.what = "load"
      BY <3>1, <3>2 DEF Tidy, SettingsSent
    <3>4. LoadCall("domains") \notin calls
      BY <2>3 DEF LoadCall
    <3> QED BY <2>3, <3>1, <3>3, <3>4 DEF Tidy
  <2>4. ASSUME state.careful, ~blocked,
               LoadCall("settings") \in calls \ {LoadCall("rest")}
        PROVE  ~state.undone
    BY <2>2, <2>4, SettingsAnswered DEF Tidy
  <2> QED BY <1>1, <2>1, <2>3, <2>4, PartArrives DEF Loads
<1> QED BY <1>2, <1>3

(* A domain is added, removed, made primary or verified; the list is asked *)
(* for again.                                                              *)
LEMMA DomainIsChanged ==
    ASSUME SettingsInv, NEW call \in calls, DomainChanged(call)
    PROVE  SettingsInv'
<1> DEFINE c == [what |-> "list", from |-> call]
<1>1. /\ blocked' = blocked /\ clicks' = clicks /\ state' = state
      /\ calls' = (calls \ {call}) \cup {c}
  BY DEF DomainChanged, Goes, Lists
<1>2. PICK domains \in Domains : server' = [server EXCEPT !.domains = domains]
  <2>1. server \in SettingsServers /\ server.domains \in Domains
        /\ server.super \in BOOLEAN
    BY DEF SettingsInv, SettingsServers
  <2>2. \/ server' = [server EXCEPT
                        !.domains = DomainAdded(@, call.domain, server.super)]
        \/ server' = [server EXCEPT !.domains[call.domain].active = TRUE]
        \/ server' = [server EXCEPT !.domains = SetPrimaryDomain(@, call.domain)]
        \/ server' = [server EXCEPT !.domains = DomainRemoved(@, call.domain)]
    BY DEF DomainChanged
  <2>3. CASE server' = [server EXCEPT
                          !.domains = DomainAdded(@, call.domain, server.super)]
    <3> DEFINE x == DomainAdded(server.domains, call.domain, server.super)
    <3>1. server' = [server EXCEPT !.domains = x]
      BY <2>1, <2>3 DEF SettingsServers
    <3>2. x \in Domains BY <2>1, DomainsAre
    <3> QED BY <3>1, <3>2
  <2>4. CASE server' = [server EXCEPT !.domains[call.domain].active = TRUE]
    <3> DEFINE x == [server.domains EXCEPT ![call.domain].active = TRUE]
    <3>1. server' = [server EXCEPT !.domains = x]
      BY <2>1, <2>4 DEF SettingsServers
    <3>2. x \in Domains BY <2>1, DomainsAre
    <3> QED BY <3>1, <3>2
  <2>5. CASE server' = [server EXCEPT
                          !.domains = SetPrimaryDomain(@, call.domain)]
    <3> DEFINE x == SetPrimaryDomain(server.domains, call.domain)
    <3>1. server' = [server EXCEPT !.domains = x]
      BY <2>1, <2>5 DEF SettingsServers
    <3>2. x \in Domains BY <2>1, DomainsAre
    <3> QED BY <3>1, <3>2
  <2>6. CASE server' = [server EXCEPT !.domains = DomainRemoved(@, call.domain)]
    <3> DEFINE x == DomainRemoved(server.domains, call.domain)
    <3>1. server' = [server EXCEPT !.domains = x]
      BY <2>1, <2>6 DEF SettingsServers
    <3>2. x \in Domains BY <2>1, DomainsAre
    <3> QED BY <3>1, <3>2
  <2> QED BY <2>2, <2>3, <2>4, <2>5, <2>6
<1>3. call.what \in {"add", "verify", "primary", "remove"}
  BY DEF DomainChanged
<1>4. c.what = "list" OBVIOUS
<1> DEFINE v == [server EXCEPT !.domains = domains]
<1>5. /\ v \in SettingsServers /\ v.daily = server.daily
      /\ v.concurrent = server.concurrent /\ v.max = server.max
      /\ v.min = server.min /\ v.secret = server.secret
  BY SettingsAnswered DEF SettingsServers
<1>6. server' = v BY <1>2
<1> HIDE DEF c, v
<1>7. SettingsCalls(calls')
  BY <1>1, <1>4, SettingsAnswered DEF SettingsCalls
<1>8. ASSUME state.careful, ~blocked PROVE Tidy(state, v, calls')
  <2>1. /\ calls' = {c} /\ ~state.loading /\ Tidy(state, server, calls)
    BY <1>1, <1>3, <1>8, SettingsAnswered DEF SettingsSent
  <2>2. SettingsSent(c, state, v) BY <1>4, <2>1 DEF SettingsSent
  <2> QED BY <1>4, <1>5, <2>1, <2>2 DEF Tidy, LoadCall
<1> QED BY <1>1, <1>5, <1>6, <1>7, <1>8, SettingsAnswered, SettingsBecomes

(* The answers that open an alert.                                         *)
LEMMA AlertOpens ==
    ASSUME SettingsInv, NEW call \in calls,
           VerifyFails(call) \/ OrgDeletionMailed(call)
    PROVE  SettingsInv'
<1> DEFINE s == [state EXCEPT !.alert = TRUE]
<1>1. /\ blocked' = blocked /\ clicks' = clicks /\ server' = server
      /\ calls' = calls \ {call} /\ state' = s
      /\ call.what \in {"verify", "deleteOrg"}
  BY DEF VerifyFails, OrgDeletionMailed, SettingsTakes, Goes
<1>2. /\ s \in SettingsStates
      /\ s.domains = state.domains /\ s.undone = state.undone
      /\ s.saved = state.saved
      /\ s.loading = state.loading /\ s.careful = state.careful
      /\ s.secret = state.secret /\ s.generated = state.generated
      /\ s.daily = state.daily /\ s.concurrent = state.concurrent
      /\ s.max = state.max /\ s.min = state.min
  BY SettingsAnswered DEF SettingsStates
<1> HIDE DEF s
<1>3. ASSUME state.careful, ~blocked PROVE Tidy(s, server, calls \ {call})
  <2>1. /\ calls = {call} /\ calls \ {call} = {}
        /\ Tidy(state, server, calls)
    BY <1>1, <1>3, SettingsAnswered
  <2>2. LoadCall("settings") \notin calls /\ LoadCall("domains") \notin calls
    BY <1>1, <2>1 DEF LoadCall
  <2> QED BY <1>1, <1>2, <2>1, <2>2 DEF Tidy
<1> QED BY <1>1, <1>2, <1>3, SettingsAnswered, SettingsBecomes

(* The domains are read on the server: of a careful admin, no other call   *)
(* changes them before they arrive.                                        *)
LEMMA DomainsAreRead ==
    ASSUME SettingsInv, NEW call \in calls, DomainsRead(call)
    PROVE  SettingsInv'
<1> DEFINE c == [what |-> "listed", from |-> call.from,
                 domains |-> server.domains]
<1>1. /\ blocked' = blocked /\ clicks' = clicks /\ server' = server
      /\ calls' = (calls \ {call}) \cup {c} /\ state' = state
      /\ call.what = "list"
  BY DEF DomainsRead, SettingsTakes, Goes
<1>2. c.what = "listed" /\ c.domains = server.domains OBVIOUS
<1> HIDE DEF c
<1>3. SettingsCalls(calls')
  BY <1>1, <1>2, SettingsAnswered DEF SettingsCalls, SettingsServers
<1>4. ASSUME state.careful, ~blocked PROVE Tidy(state, server, calls')
  <2>1. /\ calls' = {c} /\ ~state.loading /\ Tidy(state, server, calls)
    BY <1>1, <1>4, SettingsAnswered DEF SettingsSent
  <2>2. SettingsSent(c, state, server) BY <1>2, <2>1 DEF SettingsSent
  <2> QED BY <1>2, <2>1, <2>2 DEF Tidy, LoadCall
<1> QED BY <1>1, <1>3, <1>4, SettingsAnswered, SettingsBecomes

(* They arrive.                                                            *)
LEMMA DomainsAreListed ==
    ASSUME SettingsInv, NEW call \in calls, DomainsListed(call)
    PROVE  SettingsInv'
<1> DEFINE n == IF call.from.what = "add" THEN 0 ELSE state.newDomain
           q == [state EXCEPT !.domains = call.domains, !.newDomain = n]
           s == [q EXCEPT !.undone = FALSE]
<1>1. /\ blocked' = blocked /\ clicks' = clicks /\ server' = server
      /\ calls' = calls \ {call} /\ call.what = "listed"
      /\ state' = [state EXCEPT !.domains = call.domains, !.undone = FALSE,
                      !.newDomain = IF call.from.what = "add" THEN 0 ELSE @]
  BY DEF DomainsListed, SettingsTakes, Goes
<1>2. state' = s BY <1>1, SettingsAnswered DEF SettingsStates
<1>3. n \in Int
  <2>1. state.newDomain \in Int BY SettingsAnswered DEF SettingsStates
  <2> QED BY <2>1
<1>4. call.domains \in Domains BY <1>1, SettingsAnswered DEF SettingsCalls
<1> HIDE DEF n
<1>a. /\ q \in SettingsStates /\ q.domains = call.domains
      /\ q.saved = state.saved
      /\ q.loading = state.loading /\ q.careful = state.careful
      /\ q.secret = state.secret /\ q.generated = state.generated
      /\ q.daily = state.daily /\ q.concurrent = state.concurrent
      /\ q.max = state.max /\ q.min = state.min
  BY <1>3, <1>4, SettingsAnswered DEF SettingsStates
<1> HIDE DEF q
<1>5. /\ s \in SettingsStates /\ s.domains = call.domains /\ ~s.undone
      /\ s.saved = state.saved
      /\ s.loading = state.loading /\ s.careful = state.careful
      /\ s.secret = state.secret /\ s.generated = state.generated
      /\ s.daily = state.daily /\ s.concurrent = state.concurrent
      /\ s.max = state.max /\ s.min = state.min
  BY <1>a, SettingsAnswered DEF SettingsStates
<1> HIDE DEF s
<1>6. ASSUME state.careful, ~blocked PROVE Tidy(s, server, calls \ {call})
  <2>1. /\ calls = {call} /\ calls \ {call} = {} /\ ~state.loading
        /\ call.domains = server.domains /\ Tidy(state, server, calls)
    BY <1>1, <1>6, SettingsAnswered DEF SettingsSent
  <2> QED BY <1>1, <1>5, <2>1 DEF Tidy
<1> QED BY <1>1, <1>2, <1>5, <1>6, SettingsAnswered, SettingsBecomes

(* The secret is saved, and the placeholder stands for it.                 *)
LEMMA SecretIsSaved ==
    ASSUME SettingsInv, NEW call \in calls, SecretSaved(call)
    PROVE  SettingsInv'
<1> DEFINE s == [state EXCEPT !.secret = Placeholder]
           v == [server EXCEPT !.secret = call.secret]
<1>1. /\ blocked' = blocked /\ clicks' = clicks /\ server' = v
      /\ calls' = calls \ {call} /\ call.what = "secret" /\ state' = s
  BY DEF SecretSaved, SettingsTakes, Goes
<1>2. call.secret \in Int BY <1>1, SettingsAnswered DEF SettingsCalls
<1>p. Placeholder \in Int BY DEF Placeholder
<1>3. /\ s \in SettingsStates /\ s.domains = state.domains
      /\ s.undone = state.undone /\ s.secret = Placeholder /\ s.saved = state.saved
      /\ s.loading = state.loading /\ s.careful = state.careful
      /\ s.generated = state.generated
      /\ s.daily = state.daily /\ s.concurrent = state.concurrent
      /\ s.max = state.max /\ s.min = state.min
  BY <1>p, SettingsAnswered DEF SettingsStates
<1>4. /\ v \in SettingsServers /\ v.secret = call.secret
      /\ v.domains = server.domains
      /\ v.daily = server.daily /\ v.concurrent = server.concurrent
      /\ v.max = server.max /\ v.min = server.min
  BY <1>2, SettingsAnswered DEF SettingsServers
<1> HIDE DEF s, v
<1>5. ASSUME state.careful, ~blocked PROVE Tidy(s, v, calls \ {call})
  <2>1. /\ calls = {call} /\ calls \ {call} = {} /\ ~state.loading
        /\ call.secret = state.secret /\ state.secret # Placeholder
        /\ Tidy(state, server, calls)
    BY <1>1, <1>5, SettingsAnswered DEF SettingsSent
  <2>2. state.generated # NoSecret => v.secret = state.generated
    BY <1>4, <2>1 DEF Tidy
  <2>3. LoadCall("settings") \notin calls /\ LoadCall("domains") \notin calls
    BY <1>1, <2>1 DEF LoadCall
  <2> QED BY <1>1, <1>3, <1>4, <2>1, <2>2, <2>3 DEF Tidy
<1> QED BY <1>1, <1>3, <1>4, <1>5, SettingsAnswered, SettingsBecomes

(* The settings are saved as they were sent.                               *)
LEMMA SettingsAreSaved ==
    ASSUME SettingsInv, NEW call \in calls, SettingsSaved(call)
    PROVE  SettingsInv'
<1> DEFINE s == [state EXCEPT !.saved = TRUE]
           v == [server EXCEPT !.daily = call.daily,
                               !.concurrent = call.concurrent,
                               !.max = call.max, !.min = call.min]
<1>1. /\ blocked' = blocked /\ clicks' = clicks /\ server' = v
      /\ calls' = calls \ {call} /\ call.what = "save" /\ state' = s
  BY DEF SettingsSaved, SettingsTakes, Goes
<1>2. /\ call.daily \in BOOLEAN /\ call.concurrent \in Int
      /\ call.max \in Int /\ call.min \in Int
  BY <1>1, SettingsAnswered DEF SettingsCalls
<1>3. /\ s \in SettingsStates /\ s.domains = state.domains /\ s.saved
      /\ s.secret = state.secret /\ s.undone = state.undone
      /\ s.loading = state.loading /\ s.careful = state.careful
      /\ s.generated = state.generated
      /\ s.daily = state.daily /\ s.concurrent = state.concurrent
      /\ s.max = state.max /\ s.min = state.min
  BY SettingsAnswered DEF SettingsStates
<1>4. /\ v \in SettingsServers /\ v.secret = server.secret
      /\ v.domains = server.domains
      /\ v.daily = call.daily /\ v.concurrent = call.concurrent
      /\ v.max = call.max /\ v.min = call.min
  BY <1>2, SettingsAnswered DEF SettingsServers
<1> HIDE DEF s, v
<1>5. ASSUME state.careful, ~blocked PROVE Tidy(s, v, calls \ {call})
  <2>1. /\ calls = {call} /\ calls \ {call} = {} /\ ~state.loading
        /\ SettingsSent(call, state, server) /\ Tidy(state, server, calls)
    BY <1>1, <1>5, SettingsAnswered DEF SettingsSent
  <2>2. /\ call.daily = state.daily /\ call.concurrent = state.concurrent
        /\ call.max = ShownMax(state.daily, state.max)
        /\ call.min = ShownMin(state.daily, state.min)
    BY <1>1, <2>1 DEF SettingsSent
  <2>3. LoadCall("settings") \notin calls /\ LoadCall("domains") \notin calls
    BY <1>1, <2>1 DEF LoadCall
  <2> QED BY <1>1, <1>3, <1>4, <2>1, <2>2, <2>3 DEF Tidy
<1> QED BY <1>1, <1>3, <1>4, <1>5, SettingsAnswered, SettingsBecomes

(* A call that fails, or that is refused halfway.                          *)
LEMMA SettingsBlock ==
    ASSUME SettingsInv,
           SettingsCallFails \/ \E call \in calls : SettingsRefused(call)
    PROVE  SettingsInv'
<1>0. state \in SettingsStates /\ server \in SettingsServers /\ clicks \in Nat
  BY DEF SettingsInv
<1>1. SettingsCalls({}) BY DEF SettingsCalls
<1>2. CASE SettingsCallFails
  <2>1. /\ blocked' /\ clicks' = clicks /\ state' = state /\ calls' = {}
        /\ server' = server
    BY <1>2 DEF SettingsCallFails, Blocks
  <2> QED BY <1>0, <1>1, <2>1 DEF SettingsInv
<1>3. ASSUME NEW call \in calls, SettingsRefused(call) PROVE SettingsInv'
  <2>1. /\ blocked' /\ clicks' = clicks /\ state' = state /\ calls' = {}
        /\ call.what = "save"
    BY <1>3 DEF SettingsRefused, Blocks
  <2>2. /\ call.daily \in BOOLEAN /\ call.concurrent \in Int
        /\ call.max \in Int /\ call.min \in Int
    BY <1>3, <2>1 DEF SettingsInv, SettingsCalls
  <2>3. PICK n \in 0 .. 4 :
          server' = [server EXCEPT
                       !.daily = IF n >= 1 THEN call.daily ELSE @,
                       !.concurrent = IF n >= 2 THEN call.concurrent ELSE @,
                       !.max = IF n >= 3 THEN call.max ELSE @,
                       !.min = IF n >= 4 THEN call.min ELSE @]
    BY <1>3 DEF SettingsRefused
  <2> DEFINE d == IF n >= 1 THEN call.daily ELSE server.daily
             l == IF n >= 2 THEN call.concurrent ELSE server.concurrent
             x == IF n >= 3 THEN call.max ELSE server.max
             m == IF n >= 4 THEN call.min ELSE server.min
             r == [server EXCEPT !.daily = d]
             v == [r EXCEPT !.concurrent = l, !.max = x, !.min = m]
  <2>4. d \in BOOLEAN
    <3>1. d = call.daily \/ d = server.daily OBVIOUS
    <3> HIDE DEF d
    <3> QED BY <1>0, <2>2, <3>1 DEF SettingsServers
  <2>5. l \in Int /\ x \in Int /\ m \in Int
    BY <1>0, <2>2 DEF SettingsServers
  <2>6. server' = v BY <1>0, <2>3 DEF SettingsServers
  <2> HIDE DEF d, l, x, m
  <2>7. r \in SettingsServers BY <1>0, <2>4 DEF SettingsServers
  <2> HIDE DEF r
  <2>8. v \in SettingsServers BY <2>5, <2>7 DEF SettingsServers
  <2> HIDE DEF v
  <2> QED BY <1>0, <1>1, <2>1, <2>6, <2>8 DEF SettingsInv
<1> QED BY <1>2, <1>3

(* Every step of the settings page keeps the invariant.                    *)
LEMMA SettingsSteps == SettingsInv /\ [SettingsNext]_webVars => SettingsInv'
<1> SUFFICES ASSUME SettingsInv, [SettingsNext]_webVars PROVE SettingsInv'
  OBVIOUS
<1>1. CASE UNCHANGED webVars
  BY <1>1 DEF webVars, SettingsInv
<1>2. CASE \E call \in calls :
             \/ DomainChanged(call) \/ VerifyFails(call) \/ DomainsRead(call)
             \/ DomainsListed(call) \/ SecretSaved(call) \/ OrgDeletionMailed(call)
             \/ SettingsSaved(call) \/ SettingsRefused(call)
  BY <1>2, DomainIsChanged, AlertOpens, DomainsAreRead, DomainsAreListed,
     SecretIsSaved, SettingsAreSaved, SettingsBlock
<1>3. CASE SettingsCallFails BY <1>3, SettingsBlock
<1>4. CASE \E yes \in BOOLEAN : AnswerQuestion(yes)
  BY <1>4, QuestionAnswered
<1>5. CASE \/ \E undoes \in BOOLEAN : SettingsLoaded(undoes)
           \/ DomainsLoaded \/ OthersLoaded
  BY <1>5, SettingsAreLoaded, OthersAreLoaded
<1>6. CASE \/ SaveSecret \/ SubmitSettings \/ AddDomain
           \/ \E d \in DomainNames : MakePrimary(d)
  BY <1>6, SettingsSends
<1>7. CASE \/ TickUnlimited \/ ToggleDaily \/ GenerateSecret \/ AskDeleteOrg
           \/ CloseAlert \/ ChooseAuthProvider
           \/ \E n \in {NotANumber, Unlimited, 2} : TypeConcurrent(n)
           \/ \E n \in Lengths : TypeMaxDuration(n) \/ TypeMinDuration(n)
           \/ \E d \in DomainNames : \/ TypeDomain(d)
                                     \/ \E what \in {"remove", "verify"} :
                                           AskDomain(what, d)
  BY <1>7, SettingsEdits
<1> QED BY <1>1, <1>2, <1>3, <1>4, <1>5, <1>6, <1>7 DEF SettingsNext

(* It implies what is asked of the page.                                   *)
LEMMA SettingsIsEnough ==
    ASSUME page = "settings" => SettingsInv PROVE SettingsAsShown
<1> SUFFICES ASSUME page = "settings", state.careful, calls = {}, ~blocked,
                    ~state.loading, SettingsInv
             PROVE  /\ ~state.undone => state.domains = server.domains
                    /\ state.secret = Placeholder /\ state.generated # NoSecret
                       => server.secret = state.generated
                    /\ state.saved =>
                         /\ server.daily = state.daily
                         /\ server.concurrent = state.concurrent
                         /\ ShownMax(server.daily, server.max)
                              = ShownMax(state.daily, state.max)
                         /\ ShownMin(server.daily, server.min)
                              = ShownMin(state.daily, state.min)
  BY DEF SettingsAsShown
<1>1. /\ Tidy(state, server, calls) /\ state.generated \in Nat
      /\ state.daily \in BOOLEAN /\ state.max \in Int /\ state.min \in Int
  BY DEF SettingsInv, SettingsStates
<1>2. ~state.undone => state.domains = server.domains BY <1>1 DEF Tidy
<1>3. state.secret = Placeholder /\ state.generated # NoSecret
         => server.secret = state.generated
  BY <1>1 DEF Tidy, Placeholder
<1>4. state.saved =>
        /\ server.daily = state.daily /\ server.concurrent = state.concurrent
        /\ ShownMax(server.daily, server.max) = ShownMax(state.daily, state.max)
        /\ ShownMin(server.daily, server.min) = ShownMin(state.daily, state.min)
  BY <1>1, ShownStays DEF Tidy
<1> QED BY <1>2, <1>3, <1>4

(* For a careful admin the domains on display are those of the server,     *)
(* unless the load of the settings undid them; the placeholder stands for  *)
(* the secret that was generated last, and the settings said to be saved   *)
(* are those that were shown (SettingsPage!SettingsAsShown).               *)
THEOREM SettingsAreAsShown == ClientSpec => []SettingsAsShown
<1> DEFINE Inv == page = "settings" => SettingsInv
<1>1. ClientInit => Inv
  BY OnePage, SettingsBegins
<1>2. Inv /\ [ClientNext]_webVars => Inv'
  <2> SUFFICES ASSUME Inv, [ClientNext]_webVars, page' = "settings"
               PROVE  SettingsInv'
    OBVIOUS
  <2>1. page = "settings" /\ [SettingsNext]_webVars
    BY OnePage
  <2> QED BY <2>1, SettingsSteps
<1>3. Inv => SettingsAsShown
  BY SettingsIsEnough
<1> HIDE DEF Inv
<1> QED BY <1>1, <1>2, <1>3, PTL DEF ClientSpec

------------------------------------------------------------------------------
(* The page of an area, its floor plan and its spaces.                     *)

(* The types of the page of an area: a space of the page, a row of the     *)
(* database, the page itself and what the server keeps of the area.        *)
AreaItems ==
    [row : Ids \cup {0}, place : Nat, org : Nat, look : Int, object : Ids,
     changed : BOOLEAN]

SpaceRows == [place : Nat, look : Int, attr : 0 .. 2]

AreaStates ==
    [entity : BOOLEAN, form : Int, items : Seq(AreaItems),
     heap : [Ids -> 0 .. 2], selected : Nat, details : BOOLEAN,
     dropped : SUBSET Ids, changed : BOOLEAN, saved : BOOLEAN,
     submitting : BOOLEAN, dialog : {"none", "discard", "delete"},
     gone : BOOLEAN, scale : 1 .. 2, scaleOnLoad : 1 .. 2,
     type : {"upload", "designed"}, file : BOOLEAN, design : Int,
     attrs : [Attributes -> 0 .. 2], changedAttrs : SUBSET Attributes,
     droppedAttrs : SUBSET Attributes, loading : BOOLEAN, careful : BOOLEAN,
     error : BOOLEAN, unstored : BOOLEAN]

AreaServers ==
    [rows : [Ids -> SpaceRows \cup {NoRow}], form : Int, design : Int,
     type : {"upload", "designed"}, scale : 1 .. 2,
     attrs : [Attributes -> 0 .. 2]]

(* What a call carries that the page or the server will take over.         *)
AreaCalls(cs) ==
    \A c \in cs :
       /\ c.what \in {"save", "spaces", "plan", "load", "rest", "attributes",
                      "delete"}
       /\ c.what = "save" =>
             /\ c.form \in Int /\ c.type \in {"upload", "designed"}
             /\ c.scale \in 1 .. 2
       /\ c.what = "plan" => c.design \in Int
       /\ c.what \in {"load", "rest"} =>
             /\ c.form \in Int /\ c.type \in {"upload", "designed"}
             /\ c.scale \in 1 .. 2
             /\ {"what", "form", "type", "scale"} \subseteq DOMAIN c
       /\ c.what = "attributes" =>
             {"what", "todo", "refused"} \subseteq DOMAIN c

(* What a space would be stored as, and the spaces that are marked as      *)
(* changed.                                                                *)
SpaceData(s, i) ==
    Row(s.items[i].place, s.items[i].look, s.heap[s.items[i].object])

Marked(s) == {i \in DOMAIN s.items : s.items[i].changed}

(* The page knows every row: one space of the list shows it, or it is to   *)
(* be deleted. A space that is not marked is stored as it is shown.        *)
RowsKnown(s, v) ==
    /\ \A i \in DOMAIN s.items : s.items[i].row # 0 =>
          v.rows[s.items[i].row] # NoRow /\ s.items[i].row \notin s.dropped
    /\ \A i, j \in DOMAIN s.items :
          s.items[i].row = s.items[j].row /\ s.items[i].row # 0 => i = j
    /\ \A i \in DOMAIN s.items :
          \/ s.items[i].changed
          \/ /\ s.items[i].row # 0
             /\ v.rows[s.items[i].row] = SpaceData(s, i)
    /\ \A r \in Ids : v.rows[r] # NoRow =>
          r \in s.dropped \/ \E i \in DOMAIN s.items : s.items[i].row = r

(* An attribute that is not stored as it is shown has been noted as        *)
(* changed or as deleted.                                                  *)
AttrsKnown(s, v) ==
    \A a \in Attributes :
       /\ v.attrs[a] # s.attrs[a] => a \in s.changedAttrs \cup s.droppedAttrs
       /\ a \in s.droppedAttrs => s.attrs[a] = Unset
       /\ s.attrs[a] = Unset /\ v.attrs[a] # Unset => a \in s.droppedAttrs

(* What a call under way has to do with the page: what has been sent is    *)
(* what is still marked, and a call after which the page is loaded anew    *)
(* finds nothing that is not saved.                                        *)
AreaSent(c, s, v, cs) ==
    /\ c.what \in {"save", "delete"} => cs = {c}
    /\ \/ c.what \in {"plan", "load", "rest"}
       \/ /\ c.what \in {"save", "spaces"}
          /\ s.file \/ s.type = "designed"
       => s.changedAttrs = {} /\ s.droppedAttrs = {}
    /\ c.what \in {"plan", "load", "rest"} => s.dropped = {} /\ Marked(s) = {}
    /\ c.what = "attributes" =>
          /\ c.todo \subseteq Attributes \X (0 .. 2)
          /\ \A pair \in c.todo : pair[2] = s.attrs[pair[1]]
          /\ c.refused = TRUE \/ \A a \in Attributes :
                v.attrs[a] # s.attrs[a] => <<a, s.attrs[a]>> \in c.todo
    /\ c.what = "spaces" =>
          /\ c.dropped = s.dropped
          /\ c.send = [i \in Marked(s) |->
                          [row |-> s.items[i].row, data |-> SpaceData(s, i)]]

(* What holds of the page whatever it waits for.                           *)
AreaShown(s, v) ==
    /\ s \in AreaStates /\ v \in AreaServers
    /\ Marked(s) # {} \/ s.dropped # {} => s.changed
    /\ AttrsKnown(s, v)

(* A chain of calls and the attributes beside it are all that a careful    *)
(* admin waits for, and nothing is lost at any point of them. What the     *)
(* page shows before it has been loaded for the first time is nothing.     *)
AreaKept(s, v, cs) ==
    /\ AreaShown(s, v) /\ AreaCalls(cs)
    /\ \A c, d \in cs :
          (c.what = "attributes" <=> d.what = "attributes") => c = d
    /\ \A c \in cs : AreaSent(c, s, v, cs)
    /\ ~s.loading \/ (\E c \in cs : c.what # "load") => RowsKnown(s, v)

AreaNow ==
    state.careful /\ ~blocked /\ ~state.gone /\ ~state.unstored

(* The inductive invariant of the page of an area.                         *)
AreaInv ==
    /\ {"careful", "unstored"} \subseteq DOMAIN state
    /\ AreaNow => AreaKept(state, server, calls)

(* The invariant implies that nothing is lost.                             *)
LEMMA AreaIsEnough == AreaInv => NothingLost
<1> SUFFICES ASSUME AreaInv, page = "area", AreaNow, calls = {},
                    ~state.loading
             PROVE  NothingLost
  BY DEF NothingLost, AreaNow
<1> DEFINE data(i) == SpaceData(state, i)
<1>1. AreaShown(state, server) /\ RowsKnown(state, server)
  BY DEF AreaInv, AreaKept
<1>2. \A i \in DOMAIN state.items :
         \/ state.items[i].changed
         \/ /\ state.items[i].row # 0
            /\ server.rows[state.items[i].row] = SpaceData(state, i)
  BY <1>1 DEF RowsKnown
<1>3. \A r \in Ids : server.rows[r] # NoRow =>
         r \in {state.items[i].row : i \in DOMAIN state.items} \cup state.dropped
  BY <1>1 DEF RowsKnown
<1>4. (\E i \in DOMAIN state.items : state.items[i].changed)
      \/ state.dropped # {} => state.changed
  BY <1>1 DEF AreaShown, Marked
<1>5. \A a \in Attributes : server.attrs[a] # state.attrs[a] =>
         a \in state.changedAttrs \cup state.droppedAttrs
  BY <1>1 DEF AreaShown, AttrsKnown
<1> QED BY <1>2, <1>3, <1>4, <1>5 DEF NothingLost, SpaceData

(* The page opens empty; that of an area which exists is being loaded.     *)
LEMMA AreaBegins == AreaInit => AreaInv
<1> SUFFICES ASSUME AreaInit PROVE AreaInv OBVIOUS
<1>1. PICK exists \in BOOLEAN, careful \in BOOLEAN,
           type \in {"upload", "designed"} :
        /\ server = [rows |-> [r \in Ids |-> IF exists /\ r = 1
                                             THEN Row(1, 0, 0) ELSE NoRow],
                     form |-> 0, design |-> 0, type |-> type, scale |-> 1,
                     attrs |-> [a \in Attributes |-> Unset]]
        /\ state = [entity |-> exists, form |-> 0, items |-> <<>>,
                    heap |-> [o \in Ids |-> Unset], selected |-> 0,
                    details |-> FALSE,
                    dropped |-> {}, changed |-> FALSE, saved |-> FALSE,
                    submitting |-> FALSE, dialog |-> "none", gone |-> FALSE,
                    scale |-> 1, scaleOnLoad |-> 1, type |-> "upload",
                    file |-> FALSE, design |-> 0,
                    attrs |-> [a \in Attributes |-> Unset],
                    changedAttrs |-> {}, droppedAttrs |-> {},
                    loading |-> exists, careful |-> careful,
                    error |-> FALSE, unstored |-> FALSE]
        /\ calls = IF exists THEN {LoadOf(server, 0)} ELSE {}
  BY DEF AreaInit
<1>2. /\ state.items = <<>> /\ state.dropped = {} /\ state.changedAttrs = {}
      /\ state.droppedAttrs = {}
      /\ state.attrs = [a \in Attributes |-> Unset]
      /\ server.attrs = [a \in Attributes |-> Unset]
      /\ server.rows = [r \in Ids |-> IF exists /\ r = 1
                                      THEN Row(1, 0, 0) ELSE NoRow]
      /\ {"careful", "unstored"} \subseteq DOMAIN state /\ state.loading = exists
      /\ server.form = 0 /\ server.type = type /\ server.scale = 1
  BY <1>1
<1>3. state \in AreaStates
  <2>1. /\ <<>> \in Seq(AreaItems) /\ [o \in Ids |-> Unset] \in [Ids -> 0 .. 2]
        /\ [a \in Attributes |-> Unset] \in [Attributes -> 0 .. 2]
    BY DEF Unset
  <2> QED BY <1>1, <2>1 DEF AreaStates
<1>4. server \in AreaServers
  <2>1. [a \in Attributes |-> Unset] \in [Attributes -> 0 .. 2] BY DEF Unset
  <2>2. server.rows \in [Ids -> SpaceRows \cup {NoRow}]
    <3>1. Row(1, 0, 0) \in SpaceRows BY DEF Row, SpaceRows
    <3> QED BY <1>2, <3>1
  <2> QED BY <1>1, <1>2, <2>1, <2>2 DEF AreaServers
<1>5. Marked(state) = {} BY <1>2 DEF Marked
<1>6. AreaShown(state, server) BY <1>2, <1>3, <1>4, <1>5 DEF AreaShown, AttrsKnown
<1>7. CASE exists
  <2> DEFINE c == [what |-> "load", n |-> 0, form |-> server.form,
                   type |-> server.type, scale |-> server.scale]
  <2>1. /\ calls = {c} /\ c.what = "load" /\ c.form = 0
        /\ c.type \in {"upload", "designed"} /\ c.scale \in 1 .. 2
        /\ {"what", "form", "type", "scale"} \subseteq DOMAIN c
    BY <1>1, <1>2, <1>7 DEF LoadOf
  <2> HIDE DEF c
  <2>2. AreaSent(c, state, server, calls) BY <1>2, <1>5, <2>1 DEF AreaSent
  <2>3. AreaCalls(calls) BY <2>1 DEF AreaCalls
  <2> QED BY <1>2, <1>6, <1>7, <2>1, <2>2, <2>3 DEF AreaInv, AreaKept
<1>8. CASE ~exists
  <2>1. calls = {} BY <1>1, <1>8
  <2>2. RowsKnown(state, server) BY <1>2, <1>8 DEF RowsKnown
  <2> QED BY <1>2, <1>6, <2>1, <2>2 DEF AreaInv, AreaKept, AreaCalls
<1> QED BY <1>7, <1>8

(* Storing the spaces changes the list, and notes whether a row failed.    *)
LEMMA ListStored ==
    ASSUME NEW call, NEW failed, NEW left, SpacesStored(call, failed, left)
    PROVE  \E items, bad :
              /\ bad = (failed # {} \/ left # {})
              /\ Last([state EXCEPT !.items = items, !.dropped = {},
                                    !.unstored = state.unstored \/ bad],
                      call.n, calls \ {call})
<1> DEFINE bad == failed # {} \/ left # {}
<1>1. PICK items : Last([state EXCEPT !.items = items, !.dropped = {},
                                      !.unstored = @ \/ failed # {} \/ left # {}],
                        call.n, calls \ {call})
  BY DEF SpacesStored
<1>2. (state.unstored \/ failed # {} \/ left # {}) = (state.unstored \/ bad)
  OBVIOUS
<1>3. [state EXCEPT !.items = items, !.dropped = {},
                    !.unstored = state.unstored \/ failed # {} \/ left # {}]
      = [state EXCEPT !.items = items, !.dropped = {},
                      !.unstored = state.unstored \/ bad]
  BY <1>2
<1> HIDE DEF bad
<1>4. Last([state EXCEPT !.items = items, !.dropped = {},
                         !.unstored = state.unstored \/ bad],
           call.n, calls \ {call})
  BY <1>1, <1>3
<1>5. bad = (failed # {} \/ left # {}) BY DEF bad
<1> QED BY <1>4, <1>5

(* A careful admin stays careful, and a page that has been left is not     *)
(* used again.                                                             *)
LEMMA CareStays ==
    ASSUME AreaInv, page = "area" /\ (AreaAdmin \/ AreaAnswer)
    PROVE  /\ {"careful", "unstored"} \subseteq DOMAIN state'
           /\ state'.careful = state.careful
           /\ ~state'.unstored => ~state.unstored
           /\ blocked' = blocked /\ page' = page
           /\ ~state.gone
<1>1. {"careful", "unstored"} \subseteq DOMAIN state BY DEF AreaInv
<1>2. ASSUME AreaAdmin
      PROVE  /\ DOMAIN state' = DOMAIN state
             /\ state'.careful = state.careful /\ ~state.gone
             /\ ~state'.unstored => ~state.unstored
             /\ blocked' = blocked /\ page' = page
  <2>1. CASE EditForm \/ ChooseFile \/ EditDesign \/ AddSpace
    BY <1>1, <2>1 DEF EditForm, ChooseFile, EditDesign, AddSpace, Edits, Admin,
       Click
  <2>2. CASE \E type \in {"upload", "designed"} : ChooseType(type)
    BY <1>1, <2>2 DEF ChooseType, Edits, Admin, Click
  <2>3. CASE \E i \in 0 .. Len(state.items) : SelectArea(i)
    BY <1>1, <2>3 DEF SelectArea, Edits, Admin, Click
  <2>4. CASE \E by \in {-1, 1} : MoveSpace(by)
    BY <1>1, <2>4 DEF MoveSpace, Replaced, Edits, Admin, Click
  <2>5. CASE OpenDetails \/ CloseDetails \/ EditSpace
    BY <1>1, <2>5 DEF OpenDetails, CloseDetails, EditSpace, Replaced, Edits,
       Admin, Click
  <2>6. CASE \E value \in Values \cup {Unset} : EditSpaceAttribute(value)
    BY <1>1, <2>6 DEF EditSpaceAttribute, Replaced, Admin, Click
  <2>7. CASE CopySpace \/ DeleteSpace
    BY <1>1, <2>7 DEF CopySpace, DeleteSpace, Edits, Admin, Click
  <2>8. CASE \E scale \in 1 .. 2 : SetMapScale(scale)
    BY <1>1, <2>8 DEF SetMapScale, Edits, Admin, Click
  <2>9. CASE \/ \E a \in Attributes : DeleteAttribute(a)
             \/ \E a \in Attributes, value \in Values : SetAttribute(a, value)
    BY <1>1, <2>9 DEF DeleteAttribute, SetAttribute, Edits, Admin, Click
  <2>10. CASE GoBack \/ AskDelete \/ SubmitArea
    BY <1>1, <2>10 DEF GoBack, AskDelete, SubmitArea, Edits, Admin, Click
  <2>11. CASE \E yes \in BOOLEAN : ConfirmDialog(yes)
    BY <1>1, <2>11 DEF ConfirmDialog, Admin, Click
  <2> QED BY <1>2, <2>1, <2>2, <2>3, <2>4, <2>5, <2>6, <2>7, <2>8, <2>9, <2>10,
          <2>11 DEF AreaAdmin
<1>3. ASSUME AreaAnswer
      PROVE  /\ DOMAIN state' = DOMAIN state
             /\ state'.careful = state.careful /\ ~state.gone
             /\ ~state'.unstored => ~state.unstored
             /\ blocked' = blocked /\ page' = page
  <2>1. PICK call \in calls :
        \/ AreaSaved(call) \/ SpacesSaved(call) \/ PlanSaved(call)
        \/ AttributeSaved(call) \/ AttributesSaved(call)
        \/ SpacesLoaded(call) \/ AreaLoaded(call) \/ AreaDeleted(call)
        \/ AreaCallRefused(call) \/ AttributeRefused(call)
    BY <1>3 DEF AreaAnswer
  <2>2. CASE AreaSaved(call)
    BY <1>1, <2>2 DEF AreaSaved, Last, Done, AreaTakes, Goes
  <2>3. CASE SpacesSaved(call)
    <3>1. PICK failed, left : SpacesStored(call, failed, left)
      BY <2>3 DEF SpacesSaved
    <3>2. PICK items, bad :
             Last([state EXCEPT !.items = items, !.dropped = {},
                                !.unstored = state.unstored \/ bad],
                  call.n, calls \ {call})
      BY <3>1, ListStored
    <3> DEFINE lost == state.unstored \/ bad
               s == [state EXCEPT !.items = items, !.dropped = {},
                                  !.unstored = lost]
    <3>3. state' = s \/ state' = Done(s) BY <3>2 DEF Last
    <3>4. ~lost => ~state.unstored OBVIOUS
    <3> HIDE DEF lost
    <3>5. /\ DOMAIN s = DOMAIN state /\ s.careful = state.careful
          /\ s.unstored = lost
      BY <1>1
    <3> HIDE DEF s
    <3>6. /\ DOMAIN Done(s) = DOMAIN s /\ Done(s).careful = s.careful
          /\ Done(s).unstored = s.unstored
      BY <1>1, <3>5 DEF Done
    <3>7. ~state.gone /\ blocked' = blocked /\ page' = page
      BY <2>3 DEF SpacesSaved, AreaTakes, Goes
    <3> QED BY <3>3, <3>4, <3>5, <3>6, <3>7
  <2>4. CASE PlanSaved(call)
    BY <1>1, <2>4 DEF PlanSaved, Done, AreaTakes, Goes
  <2>5. CASE AttributeSaved(call) \/ AttributesSaved(call)
    BY <1>1, <2>5 DEF AttributeSaved, AttributesSaved, AreaTakes, Goes
  <2>6. CASE SpacesLoaded(call) \/ AreaLoaded(call) \/ AreaDeleted(call)
    BY <1>1, <2>6 DEF SpacesLoaded, AreaLoaded, AreaDeleted, AreaTakes, Goes
  <2>7. CASE AreaCallRefused(call) \/ AttributeRefused(call)
    BY <1>1, <2>7 DEF AreaCallRefused, AttributeRefused, AreaTakes, Goes
  <2> QED BY <2>1, <2>2, <2>3, <2>4, <2>5, <2>6, <2>7
<1> QED BY <1>1, <1>2, <1>3

(* Which spaces are known depends on the list, its objects and the rows    *)
(* that are to be deleted.                                                 *)
LEMMA SameSpaces ==
    ASSUME NEW s, NEW t, NEW v,
           t.items = s.items, t.heap = s.heap, t.dropped = s.dropped,
           RowsKnown(s, v)
    PROVE  RowsKnown(t, v) /\ Marked(t) = Marked(s)
BY DEF RowsKnown, Marked, SpaceData

(* Which attributes are known depends on them and on what is noted of      *)
(* them.                                                                   *)
LEMMA SameAttrs ==
    ASSUME NEW s, NEW t, NEW v,
           t.attrs = s.attrs, t.changedAttrs = s.changedAttrs,
           t.droppedAttrs = s.droppedAttrs, AttrsKnown(s, v)
    PROVE  AttrsKnown(t, v)
BY DEF AttrsKnown

(* A space that is changed is marked.                                      *)
LEMMA SpacesReworked ==
    ASSUME NEW s \in AreaStates, NEW t \in AreaStates, NEW v,
           DOMAIN t.items = DOMAIN s.items, t.dropped = s.dropped,
           \A i \in DOMAIN s.items :
              /\ t.items[i].row = s.items[i].row
              /\ \/ t.items[i].changed
                 \/ /\ t.items[i] = s.items[i]
                    /\ t.heap[s.items[i].object] = s.heap[s.items[i].object],
           RowsKnown(s, v)
    PROVE  RowsKnown(t, v)
<1>1. \A i \in DOMAIN t.items : t.items[i].row # 0 =>
         v.rows[t.items[i].row] # NoRow /\ t.items[i].row \notin t.dropped
  BY DEF RowsKnown
<1>2. \A i, j \in DOMAIN t.items :
         t.items[i].row = t.items[j].row /\ t.items[i].row # 0 => i = j
  BY DEF RowsKnown
<1>3. \A i \in DOMAIN t.items :
         \/ t.items[i].changed
         \/ /\ t.items[i].row # 0
            /\ v.rows[t.items[i].row] = SpaceData(t, i)
  <2> TAKE i \in DOMAIN t.items
  <2>1. CASE t.items[i].changed BY <2>1
  <2>2. CASE ~t.items[i].changed
    <3>1. /\ t.items[i] = s.items[i] /\ i \in DOMAIN s.items
          /\ t.heap[s.items[i].object] = s.heap[s.items[i].object]
      BY <2>2
    <3> QED BY <2>2, <3>1 DEF RowsKnown, SpaceData
  <2> QED BY <2>1, <2>2
<1>4. \A r \in Ids : v.rows[r] # NoRow =>
         r \in t.dropped \/ \E i \in DOMAIN t.items : t.items[i].row = r
  BY DEF RowsKnown
<1> QED BY <1>1, <1>2, <1>3, <1>4 DEF RowsKnown

(* A space that is added has no row.                                       *)
LEMMA SpaceAppended ==
    ASSUME NEW s \in AreaStates, NEW t \in AreaStates, NEW v, NEW item,
           t.items = Append(s.items, item), t.dropped = s.dropped,
           item.row = 0, item.changed,
           \A i \in DOMAIN s.items :
              t.heap[s.items[i].object] = s.heap[s.items[i].object],
           RowsKnown(s, v)
    PROVE  RowsKnown(t, v)
<1>1. s.items \in Seq(AreaItems) BY DEF AreaStates
<1>2. /\ DOMAIN t.items = DOMAIN s.items \cup {Len(s.items) + 1}
      /\ Len(s.items) + 1 \notin DOMAIN s.items
      /\ \A i \in DOMAIN s.items : t.items[i] = s.items[i]
      /\ t.items[Len(s.items) + 1] = item
  BY <1>1
<1>3. \A i \in DOMAIN t.items : t.items[i].row # 0 =>
         v.rows[t.items[i].row] # NoRow /\ t.items[i].row \notin t.dropped
  BY <1>2 DEF RowsKnown
<1>4. \A i, j \in DOMAIN t.items :
         t.items[i].row = t.items[j].row /\ t.items[i].row # 0 => i = j
  BY <1>2 DEF RowsKnown
<1>5. \A i \in DOMAIN t.items :
         \/ t.items[i].changed
         \/ /\ t.items[i].row # 0
            /\ v.rows[t.items[i].row] = SpaceData(t, i)
  BY <1>2 DEF RowsKnown, SpaceData
<1>6. \A r \in Ids : v.rows[r] # NoRow =>
         r \in t.dropped \/ \E i \in DOMAIN t.items : t.items[i].row = r
  <2> SUFFICES ASSUME NEW r \in Ids, v.rows[r] # NoRow, r \notin s.dropped
               PROVE  \E i \in DOMAIN t.items : t.items[i].row = r
    OBVIOUS
  <2>1. PICK i \in DOMAIN s.items : s.items[i].row = r BY DEF RowsKnown
  <2> QED BY <1>2, <2>1
<1> QED BY <1>3, <1>4, <1>5, <1>6 DEF RowsKnown

(* A space that is removed leaves its row to be deleted.                   *)
LEMMA SpaceRemoved ==
    ASSUME NEW s \in AreaStates, NEW t \in AreaStates, NEW v,
           NEW k \in DOMAIN s.items,
           t.items = RemovedAt(s.items, k), t.heap = s.heap,
           t.dropped = s.dropped \cup ({s.items[k].row} \ {0}),
           RowsKnown(s, v)
    PROVE  RowsKnown(t, v)
<1> DEFINE from(j) == IF j < k THEN j ELSE j + 1
<1>1. s.items \in Seq(AreaItems) BY DEF AreaStates
<1>2. /\ DOMAIN t.items = 1 .. Len(s.items) - 1
      /\ DOMAIN s.items = 1 .. Len(s.items) /\ Len(s.items) \in Nat
      /\ \A j \in DOMAIN t.items : t.items[j] = s.items[from(j)]
  BY <1>1 DEF RemovedAt
<1>3. /\ \A j \in DOMAIN t.items : from(j) \in DOMAIN s.items /\ from(j) # k
      /\ \A i, j \in DOMAIN t.items : from(i) = from(j) => i = j
      /\ \A i \in DOMAIN s.items : i # k =>
            \E j \in DOMAIN t.items : from(j) = i
  <2>1. /\ \A j \in DOMAIN t.items : from(j) \in DOMAIN s.items /\ from(j) # k
        /\ \A i, j \in DOMAIN t.items : from(i) = from(j) => i = j
    BY <1>2
  <2>2. ASSUME NEW i \in DOMAIN s.items, i # k
        PROVE  \E j \in DOMAIN t.items : from(j) = i
    <3>1. CASE i < k
      <4>1. i \in DOMAIN t.items /\ from(i) = i BY <1>2, <3>1
      <4> QED BY <4>1
    <3>2. CASE i > k
      <4>1. i - 1 \in DOMAIN t.items /\ from(i - 1) = i BY <1>2, <3>2
      <4> QED BY <4>1
    <3> QED BY <1>2, <2>2, <3>1, <3>2
  <2> QED BY <2>1, <2>2
<1> HIDE DEF from
<1>4. \A i \in DOMAIN t.items : t.items[i].row # 0 =>
         v.rows[t.items[i].row] # NoRow /\ t.items[i].row \notin t.dropped
  BY <1>2, <1>3 DEF RowsKnown
<1>5. \A i, j \in DOMAIN t.items :
         t.items[i].row = t.items[j].row /\ t.items[i].row # 0 => i = j
  <2> SUFFICES ASSUME NEW i \in DOMAIN t.items, NEW j \in DOMAIN t.items,
                      t.items[i].row = t.items[j].row, t.items[i].row # 0
               PROVE  i = j
    OBVIOUS
  <2>1. /\ s.items[from(i)].row = s.items[from(j)].row
        /\ s.items[from(i)].row # 0
    BY <1>2
  <2>2. from(i) = from(j) BY <1>3, <2>1 DEF RowsKnown
  <2> QED BY <1>3, <2>2
<1>6. \A i \in DOMAIN t.items :
         \/ t.items[i].changed
         \/ /\ t.items[i].row # 0
            /\ v.rows[t.items[i].row] = SpaceData(t, i)
  BY <1>2, <1>3 DEF RowsKnown, SpaceData
<1>7. \A r \in Ids : v.rows[r] # NoRow =>
         r \in t.dropped \/ \E i \in DOMAIN t.items : t.items[i].row = r
  <2> SUFFICES ASSUME NEW r \in Ids, v.rows[r] # NoRow, r \notin t.dropped
               PROVE  \E i \in DOMAIN t.items : t.items[i].row = r
    OBVIOUS
  <2>1. r # 0 BY DEF Ids
  <2>2. PICK i \in DOMAIN s.items : s.items[i].row = r BY DEF RowsKnown
  <2>3. i # k BY <2>1, <2>2
  <2>4. PICK j \in DOMAIN t.items : from(j) = i BY <1>3, <2>3
  <2> QED BY <1>2, <2>2, <2>4
<1> QED BY <1>4, <1>5, <1>6, <1>7 DEF RowsKnown

(* A careful admin acts when nothing is under way.                         *)
LEMMA AdminSees ==
    ASSUME AreaInv, AreaNow, Admin
    PROVE  /\ calls = {} /\ server' = server /\ ~state.loading
           /\ AreaShown(state, server) /\ RowsKnown(state, server)
           /\ state \in AreaStates
BY DEF AreaInv, AreaNow, Admin, AreaKept, AreaShown

(* An edit sends nothing.                                                  *)
LEMMA NothingSent ==
    ASSUME NEW s, NEW v, AreaShown(s, v), RowsKnown(s, v)
    PROVE  AreaKept(s, v, {})
BY DEF AreaKept, AreaCalls

(* An edit of something else than spaces and attributes.                   *)
LEMMA FieldsEdited ==
    ASSUME NEW s, NEW t \in AreaStates, NEW v,
           t.items = s.items, t.heap = s.heap, t.dropped = s.dropped,
           t.attrs = s.attrs, t.changedAttrs = s.changedAttrs,
           t.droppedAttrs = s.droppedAttrs,
           s.changed => t.changed,
           AreaShown(s, v), RowsKnown(s, v)
    PROVE  AreaShown(t, v) /\ RowsKnown(t, v)
<1>1. RowsKnown(t, v) /\ Marked(t) = Marked(s) BY SameSpaces
<1>2. AttrsKnown(t, v) BY SameAttrs DEF AreaShown
<1> QED BY <1>1, <1>2 DEF AreaShown

(* An edit of the spaces, with Back told to ask.                           *)
LEMMA SpacesEdited ==
    ASSUME NEW s, NEW t \in AreaStates, NEW v,
           t.attrs = s.attrs, t.changedAttrs = s.changedAttrs,
           t.droppedAttrs = s.droppedAttrs, t.changed, AreaShown(s, v)
    PROVE  AreaShown(t, v)
<1>1. AttrsKnown(t, v) BY SameAttrs DEF AreaShown
<1> QED BY <1>1 DEF AreaShown

(* The fields of the area, the selection and the details of a space.       *)
LEMMA FormEdited ==
    ASSUME AreaInv, AreaNow,
           \/ EditForm \/ ChooseFile \/ EditDesign
           \/ \E type \in {"upload", "designed"} : ChooseType(type)
           \/ \E i \in 0 .. Len(state.items) : SelectArea(i)
           \/ OpenDetails \/ CloseDetails
    PROVE  AreaKept(state', server', calls')
<1>1. Admin /\ calls' = calls
  BY DEF EditForm, ChooseFile, EditDesign, ChooseType, SelectArea,
     OpenDetails, CloseDetails, Edits
<1>2. /\ calls = {} /\ server' = server
      /\ AreaShown(state, server) /\ RowsKnown(state, server)
      /\ state \in AreaStates
  BY <1>1, AdminSees
<1>3. CASE EditForm
  <2> DEFINE t == [state EXCEPT !.form = 1 - @]
  <2>1. state' = t BY <1>3 DEF EditForm, Edits
  <2>2. 1 - state.form \in Int BY <1>2 DEF AreaStates
  <2>3. t \in AreaStates BY <1>2, <2>2 DEF AreaStates
  <2>4. /\ t.items = state.items /\ t.heap = state.heap
        /\ t.dropped = state.dropped /\ t.attrs = state.attrs
        /\ t.changedAttrs = state.changedAttrs
        /\ t.droppedAttrs = state.droppedAttrs /\ t.changed = state.changed
    BY <1>2 DEF AreaStates
  <2> HIDE DEF t
  <2> QED BY <1>1, <1>2, <2>1, <2>3, <2>4, FieldsEdited, NothingSent
<1>4. CASE ChooseFile
  <2> DEFINE t == [state EXCEPT !.file = TRUE, !.scale = 1]
  <2>1. state' = t BY <1>4 DEF ChooseFile, Edits
  <2>2. t \in AreaStates
    <3> DEFINE u == [state EXCEPT !.file = TRUE]
    <3>1. u \in AreaStates BY <1>2 DEF AreaStates
    <3>2. t = [u EXCEPT !.scale = 1] /\ 1 \in 1 .. 2 OBVIOUS
    <3> HIDE DEF t, u
    <3> QED BY <3>1, <3>2 DEF AreaStates
  <2>3. /\ t.items = state.items /\ t.heap = state.heap
        /\ t.dropped = state.dropped /\ t.attrs = state.attrs
        /\ t.changedAttrs = state.changedAttrs
        /\ t.droppedAttrs = state.droppedAttrs /\ t.changed = state.changed
    BY <1>2 DEF AreaStates
  <2> HIDE DEF t
  <2> QED BY <1>1, <1>2, <2>1, <2>2, <2>3, FieldsEdited, NothingSent
<1>5. CASE EditDesign
  <2> DEFINE design == 1 - state.design
             t == [state EXCEPT !.design = design, !.changed = TRUE]
  <2>1. state' = t BY <1>2, <1>5 DEF EditDesign, Edits, AreaStates
  <2>2. design \in Int BY <1>2 DEF AreaStates
  <2> HIDE DEF design
  <2>3. t \in AreaStates BY <1>2, <2>2 DEF AreaStates
  <2>4. /\ t.items = state.items /\ t.heap = state.heap
        /\ t.dropped = state.dropped /\ t.attrs = state.attrs
        /\ t.changedAttrs = state.changedAttrs
        /\ t.droppedAttrs = state.droppedAttrs /\ t.changed
    BY <1>2 DEF AreaStates
  <2> HIDE DEF t
  <2> QED BY <1>1, <1>2, <2>1, <2>3, <2>4, FieldsEdited, NothingSent
<1>6. CASE \E type \in {"upload", "designed"} : ChooseType(type)
  <2>1. PICK type \in {"upload", "designed"} : ChooseType(type) BY <1>6
  <2> DEFINE file == state.file /\ type # "designed"
             t == [state EXCEPT !.type = type, !.file = file]
  <2>2. state' = [state EXCEPT !.type = type, !.file = @ /\ type # "designed"]
    BY <2>1 DEF ChooseType, Edits
  <2>3. state' = t BY <1>2, <2>2 DEF AreaStates
  <2>4. file \in BOOLEAN OBVIOUS
  <2> HIDE DEF file
  <2>5. t \in AreaStates BY <1>2, <2>4 DEF AreaStates
  <2>6. /\ t.items = state.items /\ t.heap = state.heap
        /\ t.dropped = state.dropped /\ t.attrs = state.attrs
        /\ t.changedAttrs = state.changedAttrs
        /\ t.droppedAttrs = state.droppedAttrs /\ t.changed = state.changed
    BY <1>2 DEF AreaStates
  <2> HIDE DEF t
  <2> QED BY <1>1, <1>2, <2>3, <2>5, <2>6, FieldsEdited, NothingSent
<1>7. CASE \E i \in 0 .. Len(state.items) : SelectArea(i)
  <2>1. PICK i \in 0 .. Len(state.items) : SelectArea(i) BY <1>7
  <2> DEFINE t == [state EXCEPT !.selected = i]
  <2>2. state' = t BY <2>1 DEF SelectArea, Edits
  <2>3. t \in AreaStates
    <3>1. i \in Nat
      <4>1. state.items \in Seq(AreaItems) BY <1>2 DEF AreaStates
      <4> QED BY <4>1
    <3> QED BY <1>2, <3>1 DEF AreaStates
  <2>4. /\ t.items = state.items /\ t.heap = state.heap
        /\ t.dropped = state.dropped /\ t.attrs = state.attrs
        /\ t.changedAttrs = state.changedAttrs
        /\ t.droppedAttrs = state.droppedAttrs /\ t.changed = state.changed
    BY <1>2 DEF AreaStates
  <2> HIDE DEF t
  <2> QED BY <1>1, <1>2, <2>2, <2>3, <2>4, FieldsEdited, NothingSent
<1>8. CASE OpenDetails \/ CloseDetails
  <2>1. PICK details \in BOOLEAN : state' = [state EXCEPT !.details = details]
    BY <1>8 DEF OpenDetails, CloseDetails, Edits
  <2> DEFINE t == [state EXCEPT !.details = details]
  <2>2. t \in AreaStates
    <3>1. CASE details = TRUE BY <1>2, <3>1 DEF AreaStates
    <3>2. CASE details = FALSE BY <1>2, <3>2 DEF AreaStates
    <3> QED BY <3>1, <3>2
  <2>3. /\ t.items = state.items /\ t.heap = state.heap
        /\ t.dropped = state.dropped /\ t.attrs = state.attrs
        /\ t.changedAttrs = state.changedAttrs
        /\ t.droppedAttrs = state.droppedAttrs /\ t.changed = state.changed
    BY <1>2 DEF AreaStates
  <2>4. state' = t BY <2>1
  <2> HIDE DEF t
  <2> QED BY <1>1, <1>2, <2>2, <2>3, <2>4, FieldsEdited, NothingSent
<1> QED BY <1>3, <1>4, <1>5, <1>6, <1>7, <1>8

(* One attribute of the area is noted as changed or as deleted.            *)
LEMMA AttributeSet ==
    ASSUME NEW s, NEW t \in AreaStates, NEW v, NEW a \in Attributes,
           t.items = s.items, t.heap = s.heap, t.dropped = s.dropped,
           t.changed = s.changed,
           \A b \in Attributes : b # a => t.attrs[b] = s.attrs[b],
           a \in t.changedAttrs \cup t.droppedAttrs,
           s.changedAttrs \subseteq t.changedAttrs,
           s.droppedAttrs \subseteq t.droppedAttrs,
           t.droppedAttrs \subseteq s.droppedAttrs \cup {a},
           a \in t.droppedAttrs <=> t.attrs[a] = Unset,
           AreaShown(s, v), RowsKnown(s, v)
    PROVE  AreaShown(t, v) /\ RowsKnown(t, v)
<1>1. RowsKnown(t, v) /\ Marked(t) = Marked(s) BY SameSpaces
<1>2. AttrsKnown(t, v)
  <2> SUFFICES ASSUME NEW b \in Attributes
               PROVE  /\ v.attrs[b] # t.attrs[b] =>
                            b \in t.changedAttrs \cup t.droppedAttrs
                      /\ b \in t.droppedAttrs => t.attrs[b] = Unset
                      /\ t.attrs[b] = Unset /\ v.attrs[b] # Unset =>
                            b \in t.droppedAttrs
    BY DEF AttrsKnown
  <2>1. CASE b = a BY <2>1
  <2>2. CASE b # a BY <2>2 DEF AreaShown, AttrsKnown
  <2> QED BY <2>1, <2>2
<1> QED BY <1>1, <1>2 DEF AreaShown

(* The attributes of the area.                                             *)
LEMMA AttributeEdited ==
    ASSUME AreaInv, AreaNow,
           \/ \E a \in Attributes : DeleteAttribute(a)
           \/ \E a \in Attributes, value \in Values : SetAttribute(a, value)
    PROVE  AreaKept(state', server', calls')
<1>1. Admin /\ calls' = calls BY DEF DeleteAttribute, SetAttribute, Edits
<1>2. /\ calls = {} /\ server' = server
      /\ AreaShown(state, server) /\ RowsKnown(state, server)
      /\ state \in AreaStates /\ state.careful
  BY <1>1, AdminSees DEF AreaNow
<1>3. CASE \E a \in Attributes : DeleteAttribute(a)
  <2>1. PICK a \in Attributes : DeleteAttribute(a) BY <1>3
  <2> DEFINE old == state.droppedAttrs \cup {a}
             attrs == [state.attrs EXCEPT ![a] = Unset]
             t == [state EXCEPT !.attrs = attrs, !.droppedAttrs = old]
  <2>2. state' = [state EXCEPT !.attrs[a] = Unset,
                               !.droppedAttrs = @ \cup {a}]
    BY <2>1 DEF DeleteAttribute, Edits
  <2>3. state' = t BY <1>2, <2>2 DEF AreaStates
  <2>4. /\ old \in SUBSET Attributes /\ a \in old
        /\ state.droppedAttrs \subseteq old
        /\ old \subseteq state.droppedAttrs \cup {a}
        /\ attrs \in [Attributes -> 0 .. 2] /\ attrs[a] = Unset
        /\ \A b \in Attributes : b # a => attrs[b] = state.attrs[b]
    BY <1>2 DEF AreaStates, Unset
  <2> HIDE DEF old, attrs
  <2>5. t \in AreaStates BY <1>2, <2>4 DEF AreaStates
  <2>6. /\ t.items = state.items /\ t.heap = state.heap
        /\ t.dropped = state.dropped /\ t.changed = state.changed
        /\ t.attrs = attrs /\ t.changedAttrs = state.changedAttrs
        /\ t.droppedAttrs = old
    BY <1>2 DEF AreaStates
  <2> HIDE DEF t
  <2>7. AreaShown(t, server) /\ RowsKnown(t, server)
    BY <1>2, <2>4, <2>5, <2>6, AttributeSet
  <2> QED BY <1>1, <1>2, <2>3, <2>7, NothingSent
<1>4. CASE \E a \in Attributes, value \in Values : SetAttribute(a, value)
  <2>1. PICK a \in Attributes, value \in Values : SetAttribute(a, value)
    BY <1>4
  <2> DEFINE new == state.changedAttrs \cup {a}
             attrs == [state.attrs EXCEPT ![a] = value]
             t == [state EXCEPT !.attrs = attrs, !.changedAttrs = new]
  <2>2. /\ state' = [state EXCEPT !.attrs[a] = value,
                                  !.changedAttrs = @ \cup {a}]
        /\ a \notin state.droppedAttrs
    BY <1>2, <2>1 DEF SetAttribute, Edits
  <2>3. state' = t BY <1>2, <2>2 DEF AreaStates
  <2>4. /\ new \in SUBSET Attributes /\ a \in new
        /\ state.changedAttrs \subseteq new
        /\ value \in 0 .. 2 /\ value # Unset
        /\ attrs \in [Attributes -> 0 .. 2] /\ attrs[a] = value
        /\ \A b \in Attributes : b # a => attrs[b] = state.attrs[b]
    BY <1>2 DEF AreaStates, Values, Unset
  <2> HIDE DEF new, attrs
  <2>5. t \in AreaStates BY <1>2, <2>4 DEF AreaStates
  <2>6. /\ t.items = state.items /\ t.heap = state.heap
        /\ t.dropped = state.dropped /\ t.changed = state.changed
        /\ t.attrs = attrs /\ t.changedAttrs = new
        /\ t.droppedAttrs = state.droppedAttrs
    BY <1>2 DEF AreaStates
  <2> HIDE DEF t
  <2>7. AreaShown(t, server) /\ RowsKnown(t, server)
    BY <1>2, <2>2, <2>4, <2>5, <2>6, AttributeSet
  <2> QED BY <1>1, <1>2, <2>3, <2>7, NothingSent
<1> QED BY <1>3, <1>4

(* Back, and deleting the area.                                            *)
LEMMA DialogAnswered ==
    ASSUME AreaInv, AreaNow,
           GoBack \/ AskDelete \/ \E yes \in BOOLEAN : ConfirmDialog(yes)
    PROVE  AreaKept(state', server', calls')
<1>1. Admin BY DEF GoBack, AskDelete, ConfirmDialog, Edits
<1>2. /\ calls = {} /\ server' = server
      /\ AreaShown(state, server) /\ RowsKnown(state, server)
      /\ state \in AreaStates
  BY <1>1, AdminSees
<1>3. PICK dialog \in {"none", "discard", "delete"}, gone \in BOOLEAN :
         state' = [state EXCEPT !.dialog = dialog, !.gone = gone]
  <2>1. CASE GoBack
    <3> DEFINE d == IF state.changed THEN "discard" ELSE state.dialog
               g == ~state.changed
    <3>1. state' = [state EXCEPT !.dialog = d, !.gone = g]
      BY <1>2, <2>1 DEF GoBack, Edits, AreaStates
    <3>2. d \in {"none", "discard", "delete"} /\ g \in BOOLEAN
      BY <1>2 DEF AreaStates
    <3> HIDE DEF d, g
    <3> QED BY <3>1, <3>2
  <2>2. CASE AskDelete
    <3>1. state' = [state EXCEPT !.dialog = "delete"]
      BY <2>2 DEF AskDelete, Edits
    <3>2. state' = [state EXCEPT !.dialog = "delete", !.gone = state.gone]
      BY <1>2, <3>1 DEF AreaStates
    <3>3. state.gone \in BOOLEAN BY <1>2 DEF AreaStates
    <3> QED BY <3>2, <3>3
  <2>3. CASE \E yes \in BOOLEAN : ConfirmDialog(yes)
    <3>1. PICK yes \in BOOLEAN : ConfirmDialog(yes) BY <2>3
    <3> DEFINE g == yes /\ state.dialog = "discard"
    <3>2. state' = [state EXCEPT !.dialog = "none", !.gone = g] /\ g \in BOOLEAN
      BY <3>1 DEF ConfirmDialog
    <3> HIDE DEF g
    <3> QED BY <3>2
  <2> QED BY <2>1, <2>2, <2>3
<1> DEFINE t == [state EXCEPT !.dialog = dialog, !.gone = gone]
<1>4. t \in AreaStates BY <1>2 DEF AreaStates
<1>5. /\ t.items = state.items /\ t.heap = state.heap
      /\ t.dropped = state.dropped /\ t.attrs = state.attrs
      /\ t.changedAttrs = state.changedAttrs
      /\ t.droppedAttrs = state.droppedAttrs /\ t.changed = state.changed
  BY <1>2 DEF AreaStates
<1>6. state' = t BY <1>3
<1> HIDE DEF t
<1>7. AreaShown(t, server) /\ RowsKnown(t, server)
  BY <1>2, <1>4, <1>5, FieldsEdited
<1>8. CASE calls' = {} BY <1>2, <1>6, <1>7, <1>8, NothingSent
<1>9. CASE calls' # {}
  <2>1. calls' = {[what |-> "delete", n |-> clicks]}
    BY <1>2, <1>9 DEF GoBack, AskDelete, ConfirmDialog, Edits
  <2> DEFINE c == [what |-> "delete", n |-> clicks]
  <2>2. calls' = {c} /\ c.what = "delete" BY <2>1
  <2> HIDE DEF c
  <2>3. AreaSent(c, t, server, {c}) /\ AreaCalls({c})
    BY <2>2 DEF AreaSent, AreaCalls
  <2> QED BY <1>2, <1>6, <1>7, <2>2, <2>3 DEF AreaKept
<1> QED BY <1>8, <1>9

(* Save sends the area, if its attributes are not to be saved together     *)
(* with a floor plan.                                                      *)
LEMMA AreaSubmitted ==
    ASSUME AreaInv, AreaNow, SubmitArea
    PROVE  AreaKept(state', server', calls')
<1>1. Admin BY DEF SubmitArea
<1>2. /\ calls = {} /\ server' = server
      /\ AreaShown(state, server) /\ RowsKnown(state, server)
      /\ state \in AreaStates /\ state.careful
  BY <1>1, AdminSees DEF AreaNow
<1> DEFINE t == [state EXCEPT !.submitting = TRUE, !.error = FALSE]
           c == [what |-> "save", n |-> clicks, form |-> state.form,
                 type |-> state.type, scale |-> state.scale]
<1>3. /\ state' = t /\ calls' = {c}
      /\ state.file \/ state.type = "designed"
         => state.changedAttrs = {} /\ state.droppedAttrs = {}
  BY <1>2 DEF SubmitArea
<1>4. t \in AreaStates BY <1>2 DEF AreaStates
<1>5. /\ t.items = state.items /\ t.heap = state.heap
      /\ t.dropped = state.dropped /\ t.attrs = state.attrs
      /\ t.changedAttrs = state.changedAttrs
      /\ t.droppedAttrs = state.droppedAttrs /\ t.changed = state.changed
      /\ t.file = state.file /\ t.type = state.type
      /\ state.form \in Int /\ state.type \in {"upload", "designed"}
      /\ state.scale \in 1 .. 2
  BY <1>2 DEF AreaStates
<1>6. /\ c.what = "save" /\ c.form = state.form /\ c.type = state.type
      /\ c.scale = state.scale
  OBVIOUS
<1> HIDE DEF t, c
<1>7. AreaShown(t, server) /\ RowsKnown(t, server)
  BY <1>2, <1>4, <1>5, FieldsEdited
<1>8. AreaSent(c, t, server, {c}) /\ AreaCalls({c})
  BY <1>3, <1>5, <1>6 DEF AreaSent, AreaCalls
<1> QED BY <1>2, <1>3, <1>6, <1>7, <1>8 DEF AreaKept

(* One space is replaced by a changed copy.                                *)
LEMMA SpaceReplaced ==
    ASSUME NEW s \in AreaStates, NEW t \in AreaStates, NEW v,
           NEW k \in DOMAIN s.items, NEW item \in AreaItems,
           item.row = s.items[k].row, item.changed,
           t.items = [s.items EXCEPT ![k] = item], t.changed,
           t.dropped = s.dropped, t.attrs = s.attrs,
           t.changedAttrs = s.changedAttrs, t.droppedAttrs = s.droppedAttrs,
           \A i \in DOMAIN s.items : i # k =>
              t.heap[s.items[i].object] = s.heap[s.items[i].object],
           AreaShown(s, v), RowsKnown(s, v)
    PROVE  AreaShown(t, v) /\ RowsKnown(t, v)
<1>1. DOMAIN t.items = DOMAIN s.items OBVIOUS
<1>2. \A i \in DOMAIN s.items :
         /\ t.items[i].row = s.items[i].row
         /\ \/ t.items[i].changed
            \/ /\ t.items[i] = s.items[i]
               /\ t.heap[s.items[i].object] = s.heap[s.items[i].object]
  <2> TAKE i \in DOMAIN s.items
  <2>1. CASE i = k
    <3>1. t.items[i] = item BY <2>1
    <3> QED BY <2>1, <3>1
  <2>2. CASE i # k
    <3>1. t.items[i] = s.items[i] BY <2>2
    <3> QED BY <2>2, <3>1
  <2> QED BY <2>1, <2>2
<1>3. RowsKnown(t, v) BY <1>1, <1>2, SpacesReworked
<1>4. AreaShown(t, v) BY SpacesEdited
<1> QED BY <1>3, <1>4

(* The types of the spaces on a page on which something is done.           *)
LEMMA SpaceNow ==
    ASSUME AreaInv, AreaNow, Admin
    PROVE  /\ state.items \in Seq(AreaItems)
           /\ state.heap \in [Ids -> 0 .. 2]
           /\ \A i \in DOMAIN state.items :
                 /\ state.items[i] \in AreaItems
                 /\ \A item \in AreaItems :
                       [state.items EXCEPT ![i] = item] \in Seq(AreaItems)
<1>1. state \in AreaStates BY AdminSees
<1>2. state.items \in Seq(AreaItems) /\ state.heap \in [Ids -> 0 .. 2]
  BY <1>1 DEF AreaStates
<1>3. \A i \in DOMAIN state.items : state.items[i] \in AreaItems BY <1>2
<1>4. \A i \in DOMAIN state.items, item \in AreaItems :
         [state.items EXCEPT ![i] = item] \in Seq(AreaItems)
  BY <1>2
<1> QED BY <1>2, <1>3, <1>4

(* The space that is selected is replaced; its object changes only if no   *)
(* other space refers to it.                                               *)
LEMMA SpaceEdited ==
    ASSUME AreaInv, AreaNow, Admin, Selected, calls' = calls,
           NEW item \in AreaItems, item.row = Chosen.row, item.changed,
           NEW heap \in [Ids -> 0 .. 2],
           \A i \in DOMAIN state.items : i # state.selected =>
              heap[state.items[i].object] = state.heap[state.items[i].object],
           state' = [state EXCEPT
                        !.items = [state.items EXCEPT ![state.selected] = item],
                        !.changed = TRUE, !.heap = heap]
    PROVE  AreaKept(state', server', calls')
<1> DEFINE items == [state.items EXCEPT ![state.selected] = item]
           t == [state EXCEPT !.items = items, !.changed = TRUE, !.heap = heap]
<1>1. /\ calls = {} /\ server' = server
      /\ AreaShown(state, server) /\ RowsKnown(state, server)
      /\ state \in AreaStates
  BY AdminSees
<1>2. items \in Seq(AreaItems) BY SpaceNow DEF Selected
<1>3. state' = t OBVIOUS
<1> HIDE DEF items
<1>4. t \in AreaStates BY <1>1, <1>2 DEF AreaStates
<1>5. /\ t.items = items /\ t.heap = heap /\ t.changed
      /\ t.dropped = state.dropped /\ t.attrs = state.attrs
      /\ t.changedAttrs = state.changedAttrs
      /\ t.droppedAttrs = state.droppedAttrs
  BY <1>1 DEF AreaStates
<1>6. t.items = [state.items EXCEPT ![state.selected] = item] BY <1>5 DEF items
<1> HIDE DEF t
<1>7. item.row = state.items[state.selected].row BY DEF Chosen
<1> DEFINE k == state.selected
<1>8. /\ k \in DOMAIN state.items /\ item.row = state.items[k].row
      /\ t.items = [state.items EXCEPT ![k] = item]
      /\ \A i \in DOMAIN state.items : i # k =>
            t.heap[state.items[i].object] = state.heap[state.items[i].object]
  BY <1>5, <1>6, <1>7 DEF Selected
<1> HIDE DEF k
<1>9. AreaShown(t, server) /\ RowsKnown(t, server)
  BY <1>1, <1>4, <1>5, <1>8, SpaceReplaced
<1> QED BY <1>1, <1>3, <1>9, NothingSent

(* A space is moved, or its details or attributes are changed.             *)
LEMMA SpaceMoved ==
    ASSUME AreaInv, AreaNow,
           \/ \E by \in {-1, 1} : MoveSpace(by)
           \/ EditSpace
           \/ \E value \in Values \cup {Unset} : EditSpaceAttribute(value)
    PROVE  AreaKept(state', server', calls')
<1>1. Admin /\ calls' = calls /\ Selected
  BY DEF MoveSpace, EditSpace, EditSpaceAttribute, Edits
<1>2. /\ state \in AreaStates /\ Chosen \in AreaItems
      /\ state.heap \in [Ids -> 0 .. 2]
  BY <1>1, AdminSees, SpaceNow DEF Selected, Chosen
<1>3. CASE \E by \in {-1, 1} : MoveSpace(by)
  <2>1. PICK by \in {-1, 1} : MoveSpace(by) BY <1>3
  <2> DEFINE place == Clamp(Chosen.place + by)
             item == [Chosen EXCEPT !.place = place, !.changed = TRUE]
  <2>2. state' = Replaced([Chosen EXCEPT !.place = Clamp(@ + by)])
    BY <2>1 DEF MoveSpace, Edits
  <2>3. place \in Nat
    <3>1. Chosen.place \in Nat BY <1>2 DEF AreaItems
    <3> QED BY <3>1, PlanAssumption DEF Clamp
  <2>4. [[Chosen EXCEPT !.place = Clamp(@ + by)] EXCEPT !.changed = TRUE]
        = item
    BY <1>2 DEF AreaItems
  <2>5. state' = [state EXCEPT !.items[state.selected] = item,
                               !.changed = TRUE]
    BY <2>2, <2>4 DEF Replaced
  <2> HIDE DEF place
  <2>6. item \in AreaItems /\ item.row = Chosen.row /\ item.changed
    BY <1>2, <2>3 DEF AreaItems
  <2> HIDE DEF item
  <2>7. state' = [state EXCEPT
                    !.items = [state.items EXCEPT ![state.selected] = item],
                    !.changed = TRUE, !.heap = state.heap]
    BY <1>2, <2>5 DEF AreaStates
  <2> QED BY <1>1, <1>2, <2>6, <2>7, SpaceEdited
<1>4. CASE EditSpace
  <2> DEFINE look == 1 - Chosen.look
             item == [Chosen EXCEPT !.look = look, !.changed = TRUE]
  <2>1. state' = Replaced([Chosen EXCEPT !.look = 1 - @])
    BY <1>4 DEF EditSpace
  <2>2. look \in Int
    <3>1. Chosen.look \in Int BY <1>2 DEF AreaItems
    <3> QED BY <3>1
  <2>3. [[Chosen EXCEPT !.look = 1 - @] EXCEPT !.changed = TRUE] = item
    BY <1>2 DEF AreaItems
  <2>4. state' = [state EXCEPT !.items[state.selected] = item,
                               !.changed = TRUE]
    BY <2>1, <2>3 DEF Replaced
  <2> HIDE DEF look
  <2>5. item \in AreaItems /\ item.row = Chosen.row /\ item.changed
    BY <1>2, <2>2 DEF AreaItems
  <2> HIDE DEF item
  <2>6. state' = [state EXCEPT
                    !.items = [state.items EXCEPT ![state.selected] = item],
                    !.changed = TRUE, !.heap = state.heap]
    BY <1>2, <2>4 DEF AreaStates
  <2> QED BY <1>1, <1>2, <2>5, <2>6, SpaceEdited
<1>5. CASE \E value \in Values \cup {Unset} : EditSpaceAttribute(value)
  <2>1. PICK value \in Values \cup {Unset} : EditSpaceAttribute(value) BY <1>5
  <2> DEFINE item == [Chosen EXCEPT !.changed = TRUE]
             heap == [state.heap EXCEPT ![Chosen.object] = value]
  <2>2. /\ state' = [Replaced(Chosen) EXCEPT !.heap[Chosen.object] = value]
        /\ ~Shared(Chosen.object)
    BY <2>1 DEF EditSpaceAttribute, AreaNow
  <2>3. Replaced(Chosen) = [state EXCEPT !.items[state.selected] = item,
                                         !.changed = TRUE]
    BY DEF Replaced
  <2>4. item \in AreaItems /\ item.row = Chosen.row /\ item.changed
    BY <1>2 DEF AreaItems
  <2>5. value \in 0 .. 2 /\ Chosen.object \in Ids
    BY <1>2 DEF Values, Unset, AreaItems
  <2>6. heap \in [Ids -> 0 .. 2]
    BY <1>2, <2>5
  <2>7. \A i \in DOMAIN state.items : i # state.selected =>
           heap[state.items[i].object] = state.heap[state.items[i].object]
    <3> SUFFICES ASSUME NEW i \in DOMAIN state.items, i # state.selected
                 PROVE  heap[state.items[i].object]
                        = state.heap[state.items[i].object]
      OBVIOUS
    <3>1. state.items[i].object # Chosen.object
      BY <1>1, <2>2 DEF Shared, Selected, Chosen
    <3>2. state.items[i].object \in Ids BY <1>1, SpaceNow DEF AreaItems
    <3> QED BY <1>2, <3>1, <3>2
  <2>8. state' = [state EXCEPT
                    !.items = [state.items EXCEPT ![state.selected] = item],
                    !.changed = TRUE, !.heap = heap]
    <3> HIDE DEF item
    <3> QED BY <1>2, <2>2, <2>3 DEF AreaStates
  <2> HIDE DEF item, heap
  <2> QED BY <1>1, <1>2, <2>4, <2>6, <2>7, <2>8, SpaceEdited
<1> QED BY <1>3, <1>4, <1>5

(* A space is added, or one is copied.                                     *)
LEMMA SpaceAdded ==
    ASSUME AreaInv, AreaNow, AddSpace \/ CopySpace
    PROVE  AreaKept(state', server', calls')
<1>1. Admin /\ calls' = calls BY DEF AddSpace, CopySpace, Edits
<1>2. /\ calls = {} /\ server' = server
      /\ AreaShown(state, server) /\ RowsKnown(state, server)
      /\ state \in AreaStates /\ state.items \in Seq(AreaItems)
      /\ state.heap \in [Ids -> 0 .. 2] /\ state.selected \in Nat
  BY <1>1, AdminSees, SpaceNow DEF AreaStates
<1>3. \E item \in AreaItems, heap \in [Ids -> 0 .. 2], selected \in Nat :
         /\ item.row = 0 /\ item.changed
         /\ \A i \in DOMAIN state.items :
               heap[state.items[i].object] = state.heap[state.items[i].object]
         /\ state' = [state EXCEPT !.items = Append(state.items, item),
                                   !.heap = heap, !.selected = selected,
                                   !.changed = TRUE]
  <2>1. CASE AddSpace
    <3>1. PICK o \in Ids : /\ FreeObject(o)
                           /\ state' = [state EXCEPT
                                 !.items = Append(@, SpaceState(0, TopLeft, o)),
                                 !.heap[o] = Unset, !.changed = TRUE]
      BY <2>1 DEF AddSpace, Edits
    <3> DEFINE item == SpaceState(0, TopLeft, o)
               heap == [state.heap EXCEPT ![o] = Unset]
    <3>2. item \in AreaItems /\ item.row = 0 /\ item.changed
      BY DEF SpaceState, TopLeft, Row, AreaItems
    <3>3. heap \in [Ids -> 0 .. 2] BY <1>2 DEF Unset
    <3>4. \A i \in DOMAIN state.items :
             heap[state.items[i].object] = state.heap[state.items[i].object]
      BY <1>1, <1>2, <3>1, SpaceNow DEF FreeObject, AreaItems
    <3>5. state' = [state EXCEPT !.items = Append(state.items, item),
                                 !.heap = heap, !.selected = state.selected,
                                 !.changed = TRUE]
      <4> HIDE DEF item
      <4>1. state' = [state EXCEPT !.items = Append(@, item),
                                   !.heap[o] = Unset, !.changed = TRUE]
        BY <3>1 DEF item
      <4> QED BY <1>2, <4>1 DEF AreaStates
    <3> HIDE DEF item, heap
    <3> QED BY <1>2, <3>2, <3>3, <3>4, <3>5
  <2>2. CASE CopySpace
    <3> DEFINE place == Chosen.place + 1
               item == [Chosen EXCEPT !.row = 0, !.place = place,
                                      !.changed = TRUE]
    <3>1. /\ state.selected \in DOMAIN state.items
          /\ state' = [state EXCEPT
                !.items = Append(@, [Chosen EXCEPT !.row = 0, !.place = @ + 1,
                                                   !.changed = TRUE]),
                !.selected = 0, !.changed = TRUE]
      BY <2>2 DEF CopySpace, Edits, Selected
    <3>2. Chosen \in AreaItems BY <1>1, <3>1, SpaceNow DEF Chosen
    <3>3. [Chosen EXCEPT !.row = 0, !.place = @ + 1, !.changed = TRUE] = item
      BY <3>2 DEF AreaItems
    <3>4. place \in Nat
      <4>1. Chosen.place \in Nat BY <3>2 DEF AreaItems
      <4> QED BY <4>1
    <3> HIDE DEF place
    <3>5. item \in AreaItems /\ item.row = 0 /\ item.changed
      BY <3>2, <3>4 DEF AreaItems
    <3>6. state' = [state EXCEPT !.items = Append(@, item),
                                 !.selected = 0, !.changed = TRUE]
      BY <3>1, <3>3
    <3> HIDE DEF item
    <3> DEFINE heap == state.heap
    <3>7. state' = [state EXCEPT !.items = Append(state.items, item),
                                 !.heap = heap, !.selected = 0,
                                 !.changed = TRUE]
      BY <1>2, <3>6 DEF AreaStates
    <3>8. /\ heap \in [Ids -> 0 .. 2]
          /\ \A i \in DOMAIN state.items :
                heap[state.items[i].object] = state.heap[state.items[i].object]
      BY <1>2
    <3>9. 0 \in Nat OBVIOUS
    <3> HIDE DEF heap
    <3> QED BY <3>5, <3>7, <3>8, <3>9
  <2> QED BY <2>1, <2>2
<1>4. PICK item \in AreaItems, heap \in [Ids -> 0 .. 2], selected \in Nat :
         /\ item.row = 0 /\ item.changed
         /\ \A i \in DOMAIN state.items :
               heap[state.items[i].object] = state.heap[state.items[i].object]
         /\ state' = [state EXCEPT !.items = Append(state.items, item),
                                   !.heap = heap, !.selected = selected,
                                   !.changed = TRUE]
  BY <1>3
<1> DEFINE items == Append(state.items, item)
           t == [state EXCEPT !.items = items, !.heap = heap,
                              !.selected = selected, !.changed = TRUE]
<1>5. items \in Seq(AreaItems) /\ state' = t BY <1>2, <1>4
<1> HIDE DEF items
<1>6. t \in AreaStates BY <1>2, <1>5 DEF AreaStates
<1>7. /\ t.items = items /\ t.heap = heap /\ t.changed
      /\ t.dropped = state.dropped /\ t.attrs = state.attrs
      /\ t.changedAttrs = state.changedAttrs
      /\ t.droppedAttrs = state.droppedAttrs
  BY <1>2 DEF AreaStates
<1> HIDE DEF t
<1>8. t.items = Append(state.items, item) BY <1>7 DEF items
<1>9. RowsKnown(t, server) BY <1>2, <1>4, <1>6, <1>7, <1>8, SpaceAppended
<1>10. AreaShown(t, server) BY <1>2, <1>6, <1>7, SpacesEdited
<1> QED BY <1>1, <1>2, <1>5, <1>9, <1>10, NothingSent

(* A space is deleted.                                                     *)
LEMMA SpaceDeleted ==
    ASSUME AreaInv, AreaNow, DeleteSpace
    PROVE  AreaKept(state', server', calls')
<1>1. Admin /\ calls' = calls /\ Selected BY DEF DeleteSpace, Edits
<1>2. /\ calls = {} /\ server' = server
      /\ AreaShown(state, server) /\ RowsKnown(state, server)
      /\ state \in AreaStates /\ state.items \in Seq(AreaItems)
      /\ state.selected \in DOMAIN state.items
      /\ Chosen \in AreaItems /\ Chosen = state.items[state.selected]
  BY <1>1, AdminSees, SpaceNow DEF Selected, Chosen
<1> DEFINE items == RemovedAt(state.items, state.selected)
           dropped == IF Chosen.row = 0 THEN state.dropped
                      ELSE state.dropped \cup {Chosen.row}
           t == [state EXCEPT !.items = items, !.dropped = dropped,
                              !.selected = 0, !.changed = TRUE]
<1>3. state' = t BY <1>2 DEF DeleteSpace, Edits, AreaStates
<1>4. items \in Seq(AreaItems)
  <2>1. Len(state.items) \in Nat /\ Len(state.items) >= 1 BY <1>2
  <2>2. items \in [1 .. Len(state.items) - 1 -> AreaItems]
    BY <1>2, <2>1 DEF RemovedAt
  <2>3. Len(state.items) - 1 \in Nat BY <2>1
  <2> HIDE DEF items
  <2> QED BY <2>2, <2>3
<1>5. /\ dropped \in SUBSET Ids
      /\ dropped = state.dropped \cup ({state.items[state.selected].row} \ {0})
  <2>1. state.dropped \in SUBSET Ids BY <1>2 DEF AreaStates
  <2>2. Chosen.row \in Ids \cup {0} BY <1>2 DEF AreaItems
  <2> QED BY <1>2, <2>1, <2>2
<1> HIDE DEF items, dropped
<1>6. t \in AreaStates BY <1>2, <1>4, <1>5 DEF AreaStates
<1>7. /\ t.items = items /\ t.heap = state.heap /\ t.changed
      /\ t.dropped = dropped /\ t.attrs = state.attrs
      /\ t.changedAttrs = state.changedAttrs
      /\ t.droppedAttrs = state.droppedAttrs
  BY <1>2 DEF AreaStates
<1> HIDE DEF t
<1>8. t.items = RemovedAt(state.items, state.selected) BY <1>7 DEF items
<1>9. RowsKnown(t, server) BY <1>2, <1>5, <1>6, <1>7, <1>8, SpaceRemoved
<1>10. AreaShown(t, server) BY <1>2, <1>6, <1>7, SpacesEdited
<1> QED BY <1>1, <1>2, <1>3, <1>9, <1>10, NothingSent

(* The floor plan is scaled: all spaces are marked.                        *)
LEMMA PlanScaled ==
    ASSUME AreaInv, AreaNow, NEW scale \in 1 .. 2, SetMapScale(scale)
    PROVE  AreaKept(state', server', calls')
<1>1. Admin /\ calls' = calls BY DEF SetMapScale, Edits
<1>2. /\ calls = {} /\ server' = server
      /\ AreaShown(state, server) /\ RowsKnown(state, server)
      /\ state \in AreaStates /\ state.items \in Seq(AreaItems)
      /\ state.scaleOnLoad \in 1 .. 2
  BY <1>1, AdminSees, SpaceNow DEF AreaStates
<1> DEFINE place(i) == (state.items[i].org * scale) \div state.scaleOnLoad
           item(i) == [state.items[i] EXCEPT !.place = place(i),
                                             !.changed = TRUE]
           items == [i \in DOMAIN state.items |-> item(i)]
           t == [state EXCEPT !.items = items, !.changed = TRUE,
                              !.scale = scale]
<1>3. state' = t BY <1>2 DEF SetMapScale, Edits, AreaStates
<1>4. ASSUME NEW i \in DOMAIN state.items
      PROVE  /\ item(i) \in AreaItems /\ item(i).changed
             /\ item(i).row = state.items[i].row
  <2>1. state.items[i] \in AreaItems BY <1>2
  <2>2. state.items[i].org \in Nat BY <2>1 DEF AreaItems
  <2>3. place(i) \in Nat
    <3>1. scale \in {1, 2} /\ state.scaleOnLoad \in {1, 2} BY <1>2
    <3>2. state.items[i].org * scale \in Nat BY <2>2, <3>1
    <3> QED BY <3>1, <3>2
  <2> HIDE DEF place
  <2> QED BY <2>1, <2>3 DEF AreaItems
<1>5. /\ items \in Seq(AreaItems) /\ DOMAIN items = DOMAIN state.items
      /\ \A i \in DOMAIN state.items :
            items[i].changed /\ items[i].row = state.items[i].row
  <2> HIDE DEF item
  <2>1. /\ DOMAIN state.items = 1 .. Len(state.items)
        /\ Len(state.items) \in Nat
    BY <1>2
  <2>2. items \in [1 .. Len(state.items) -> AreaItems] BY <1>4, <2>1
  <2>3. items \in Seq(AreaItems)
    <3> HIDE DEF items
    <3> QED BY <2>1, <2>2
  <2> QED BY <1>4, <2>3
<1> HIDE DEF items
<1>6. t \in AreaStates BY <1>2, <1>5 DEF AreaStates
<1>7. /\ t.items = items /\ t.heap = state.heap /\ t.changed
      /\ t.dropped = state.dropped /\ t.attrs = state.attrs
      /\ t.changedAttrs = state.changedAttrs
      /\ t.droppedAttrs = state.droppedAttrs
  BY <1>2 DEF AreaStates
<1> HIDE DEF t
<1>8. RowsKnown(t, server) BY <1>2, <1>5, <1>6, <1>7, SpacesReworked
<1>9. AreaShown(t, server) BY <1>2, <1>6, <1>7, SpacesEdited
<1> QED BY <1>1, <1>2, <1>3, <1>8, <1>9, NothingSent

(* How many of a set of numbers are less than one.                         *)
Rank(i, S) == Cardinality({j \in S : j < i})

(* The members of a finite set have different ranks.                       *)
LEMMA RankGrows ==
    ASSUME NEW S \in SUBSET Nat, IsFiniteSet(S), NEW i \in S, NEW j \in S
    PROVE  /\ Rank(i, S) \in 0 .. Cardinality(S) - 1
           /\ Cardinality(S) \in Nat
           /\ Rank(i, S) = Rank(j, S) => i = j
<1> DEFINE B(k) == {l \in S : l < k}
<1>1. /\ Cardinality(S) \in Nat
      /\ \A k : IsFiniteSet(B(k)) /\ Cardinality(B(k)) \in Nat
  <2>1. \A k : B(k) \in SUBSET S OBVIOUS
  <2>2. \A k : IsFiniteSet(B(k)) BY <2>1, FS_Subset
  <2> QED BY <2>2, FS_CardinalityType
<1>2. ASSUME NEW T, IsFiniteSet(T), NEW k, k \in T, k \notin B(k),
             B(k) \subseteq T, Cardinality(T) \in Nat
      PROVE  Cardinality(B(k)) < Cardinality(T)
  <2>1. B(k) \in SUBSET T /\ B(k) # T BY <1>2
  <2> HIDE DEF B
  <2>2. /\ Cardinality(B(k)) <= Cardinality(T)
        /\ Cardinality(T) = Cardinality(B(k)) => T = B(k)
    BY <1>2, <2>1, FS_Subset
  <2> QED BY <1>1, <1>2, <2>1, <2>2
<1>3. ASSUME NEW k \in S, NEW l \in S, k < l
      PROVE  Cardinality(B(k)) < Cardinality(B(l))
  <2>1. \A x \in S : x \in Int OBVIOUS
  <2>2. k \in B(l) /\ k \notin B(k) BY <1>3, <2>1
  <2>3. B(k) \subseteq B(l)
    <3> SUFFICES ASSUME NEW x \in S, x < k PROVE x < l OBVIOUS
    <3>1. x \in Int /\ k \in Int /\ l \in Int BY <2>1
    <3> QED BY <1>3, <3>1
  <2>4. IsFiniteSet(B(l)) /\ Cardinality(B(l)) \in Nat BY <1>1
  <2> HIDE DEF B
  <2> QED BY <1>2, <2>2, <2>3, <2>4
<1>4. Cardinality(B(i)) < Cardinality(S)
  <2>1. i \notin B(i) /\ B(i) \subseteq S OBVIOUS
  <2> HIDE DEF B
  <2> QED BY <1>1, <1>2, <2>1
<1>5. Rank(i, S) = Cardinality(B(i)) /\ Rank(j, S) = Cardinality(B(j))
  BY DEF Rank
<1> HIDE DEF B
<1>6. Rank(i, S) \in 0 .. Cardinality(S) - 1 BY <1>1, <1>4, <1>5
<1>7. Rank(i, S) = Rank(j, S) => i = j
  <2>1. i \in Int /\ j \in Int OBVIOUS
  <2>2. i < j \/ j < i \/ i = j BY <2>1
  <2>3. Cardinality(B(i)) \in Nat /\ Cardinality(B(j)) \in Nat BY <1>1
  <2>4. i < j => Cardinality(B(i)) < Cardinality(B(j)) BY <1>3
  <2>5. j < i => Cardinality(B(j)) < Cardinality(B(i)) BY <1>3
  <2>6. Cardinality(B(i)) = Cardinality(B(j)) => i = j
    BY <2>2, <2>3, <2>4, <2>5
  <2> QED BY <1>5, <2>6
<1> QED BY <1>1, <1>6, <1>7

(* All ranks below the number of members are taken.                        *)
LEMMA RankTaken ==
    ASSUME NEW S \in SUBSET Nat, IsFiniteSet(S), NEW n \in 1 .. Cardinality(S)
    PROVE  \E i \in S : Rank(i, S) = n - 1
<1> DEFINE m == Cardinality(S)
           f == [i \in S |-> Rank(i, S)]
           T == 0 .. m - 1
<1>1. m \in Nat BY FS_CardinalityType
<1>2. IsFiniteSet(T) /\ Cardinality(T) = m
  <2>1. 0 \in Int /\ m - 1 \in Int BY <1>1
  <2> HIDE DEF m
  <2> QED BY <1>1, <2>1, FS_Interval
<1>3. f \in Injection(S, T)
  <2>1. f \in [S -> T] BY RankGrows
  <2>2. \A i, j \in S : f[i] = f[j] => i = j BY RankGrows
  <2> QED BY <2>1, <2>2 DEF Injection, IsInjective
<1>4. f \in Surjection(S, T)
  <2> HIDE DEF f, T
  <2> QED BY <1>2, <1>3, FS_Injection
<1>5. n - 1 \in T BY <1>1
<1>6. PICK i \in S : f[i] = n - 1 BY <1>4, <1>5 DEF Surjection
<1> QED BY <1>6

(* The spaces that are loaded: one for every row, as that row, none of     *)
(* them changed.                                                           *)
LEMMA RowsLoaded ==
    ASSUME NEW rows \in [Ids -> SpaceRows \cup {NoRow}], NEW items,
           items = Loaded(rows)
    PROVE  /\ items \in Seq(AreaItems)
           /\ DOMAIN items \subseteq Ids
           /\ \A n \in DOMAIN items :
                 /\ items[n].row \in Ids /\ rows[items[n].row] # NoRow
                 /\ items[n].object = n /\ ~items[n].changed
                 /\ items[n].place = rows[items[n].row].place
                 /\ items[n].look = rows[items[n].row].look
           /\ \A m, n \in DOMAIN items : items[m].row = items[n].row => m = n
           /\ \A r \in Ids : rows[r] # NoRow =>
                 \E n \in DOMAIN items : items[n].row = r
<1> DEFINE known == {r \in Ids : rows[r] # NoRow}
           size == Cardinality(known)
           nth(n) == CHOOSE r \in known : Rank(r, known) = n - 1
<1>1. /\ known \in SUBSET Nat /\ IsFiniteSet(known) /\ size \in Nat
      /\ 1 .. size \subseteq Ids
  <2>1. IsFiniteSet(Ids) /\ Cardinality(Ids) = MaxSpaces
    <3>1. MaxSpaces \in Nat BY PlanAssumption
    <3> QED BY <3>1, FS_Interval DEF Ids
  <2>2. known \in SUBSET Ids OBVIOUS
  <2> HIDE DEF known
  <2>3. IsFiniteSet(known) /\ size <= MaxSpaces BY <2>1, <2>2, FS_Subset
  <2>4. size \in Nat BY <2>3, FS_CardinalityType
  <2> HIDE DEF size
  <2>5. 1 .. size \subseteq Ids /\ known \subseteq Nat
    BY <2>2, <2>3, <2>4, PlanAssumption DEF Ids
  <2> QED BY <2>3, <2>4, <2>5
<1>2. ASSUME NEW n \in 1 .. size
      PROVE  nth(n) \in known /\ Rank(nth(n), known) = n - 1
  <2> HIDE DEF known
  <2>1. \E r \in known : Rank(r, known) = n - 1 BY <1>1, RankTaken
  <2> QED BY <2>1
<1>3. items = [n \in 1 .. size |->
                  [SpaceState(nth(n), rows[nth(n)], n) EXCEPT !.changed = FALSE]]
  BY DEF Loaded, Rank
<1> HIDE DEF nth
<1>4. ASSUME NEW n \in 1 .. size
      PROVE  /\ items[n] \in AreaItems /\ items[n].row = nth(n)
             /\ items[n].object = n /\ ~items[n].changed
             /\ items[n].place = rows[nth(n)].place
             /\ items[n].look = rows[nth(n)].look
  <2>1. nth(n) \in Ids /\ rows[nth(n)] \in SpaceRows /\ n \in Ids
    BY <1>1, <1>2
  <2> DEFINE item == [row |-> nth(n), place |-> rows[nth(n)].place,
                      org |-> rows[nth(n)].place, look |-> rows[nth(n)].look,
                      object |-> n, changed |-> FALSE]
  <2>2. items[n] = item BY <1>3 DEF SpaceState
  <2>3. item \in AreaItems BY <2>1 DEF AreaItems, SpaceRows
  <2> QED BY <2>2, <2>3
<1>5. DOMAIN items = 1 .. size BY <1>3
<1>6. items \in Seq(AreaItems)
  <2>1. items \in [1 .. size -> AreaItems] BY <1>3, <1>4
  <2> HIDE DEF size
  <2> QED BY <1>1, <2>1
<1>7. \A m, n \in DOMAIN items : items[m].row = items[n].row => m = n
  <2> SUFFICES ASSUME NEW m \in 1 .. size, NEW n \in 1 .. size,
                      items[m].row = items[n].row
               PROVE  m = n
    BY <1>5
  <2>1. nth(m) = nth(n) BY <1>4
  <2>2. m - 1 = n - 1 BY <1>2, <2>1
  <2>3. m \in Int /\ n \in Int BY <1>1
  <2> QED BY <2>2, <2>3
<1>8. ASSUME NEW r \in Ids, rows[r] # NoRow
      PROVE  \E n \in DOMAIN items : items[n].row = r
  <2>1. r \in known BY <1>8
  <2> DEFINE n == Rank(r, known) + 1
  <2> HIDE DEF known
  <2>2. Rank(r, known) \in 0 .. size - 1 BY <1>1, <2>1, RankGrows
  <2>3. n \in 1 .. size /\ n - 1 = Rank(r, known) BY <1>1, <2>2
  <2> HIDE DEF n
  <2>4. nth(n) \in known /\ Rank(nth(n), known) = Rank(r, known)
    BY <1>2, <2>3
  <2>5. nth(n) = r BY <1>1, <2>1, <2>4, RankGrows
  <2> QED BY <1>4, <1>5, <2>3, <2>5
<1>9. \A n \in DOMAIN items :
         /\ items[n].row \in Ids /\ rows[items[n].row] # NoRow
         /\ items[n].object = n /\ ~items[n].changed
         /\ items[n].place = rows[items[n].row].place
         /\ items[n].look = rows[items[n].row].look
  <2> SUFFICES ASSUME NEW n \in 1 .. size
               PROVE  /\ items[n].row \in Ids /\ rows[items[n].row] # NoRow
                      /\ items[n].object = n /\ ~items[n].changed
                      /\ items[n].place = rows[items[n].row].place
                      /\ items[n].look = rows[items[n].row].look
    BY <1>5
  <2>1. nth(n) \in Ids /\ rows[nth(n)] # NoRow BY <1>2
  <2> QED BY <1>4, <2>1
<1> QED BY <1>1, <1>5, <1>6, <1>7, <1>8, <1>9

(* The spaces that get a row when they are saved, the rows they can get,   *)
(* and the rows and spaces afterwards.                                     *)
NewSpaces(s) == {i \in Marked(s) : s.items[i].row = 0}

GivenRows(s, v) ==
    {f \in [NewSpaces(s) -> {r \in Ids : v.rows[r] = NoRow}] :
        \A i, j \in NewSpaces(s) : i # j => f[i] # f[j]}

RowGiven(s, f, i) == IF i \in NewSpaces(s) THEN f[i] ELSE s.items[i].row

ItemsAfter(s, f) ==
    [i \in DOMAIN s.items |->
        [s.items[i] EXCEPT !.row = RowGiven(s, f, i), !.changed = FALSE]]

RowsKept(s, v) ==
    [r \in Ids |-> IF r \in s.dropped THEN NoRow ELSE v.rows[r]]

(* After the spaces have been saved, no two of them have the same row, and *)
(* none has a row that has been deleted.                                   *)
LEMMA RowsDistinct ==
    ASSUME NEW s \in AreaStates, NEW v \in AreaServers, RowsKnown(s, v),
           NEW f \in GivenRows(s, v)
    PROVE  /\ \A i \in DOMAIN s.items :
                 /\ RowGiven(s, f, i) \in Ids
                 /\ i \notin NewSpaces(s) =>
                       /\ s.items[i].row # 0
                       /\ RowsKept(s, v)[RowGiven(s, f, i)] # NoRow
           /\ \A i, j \in DOMAIN s.items :
                 RowGiven(s, f, i) = RowGiven(s, f, j) => i = j
<1>1. /\ s.items \in Seq(AreaItems) /\ v.rows \in [Ids -> SpaceRows \cup {NoRow}]
      /\ \A i \in DOMAIN s.items : s.items[i] \in AreaItems
      /\ NewSpaces(s) \subseteq DOMAIN s.items
  BY DEF AreaStates, AreaServers, NewSpaces, Marked
<1>2. /\ \A i \in NewSpaces(s) : f[i] \in Ids /\ v.rows[f[i]] = NoRow
      /\ \A i, j \in NewSpaces(s) : i # j => f[i] # f[j]
  BY DEF GivenRows
<1>3. ASSUME NEW i \in DOMAIN s.items, i \notin NewSpaces(s)
      PROVE  /\ s.items[i].row # 0 /\ s.items[i].row \in Ids
             /\ v.rows[s.items[i].row] # NoRow
             /\ s.items[i].row \notin s.dropped
             /\ RowGiven(s, f, i) = s.items[i].row
  <2>1. s.items[i].row # 0 BY <1>3 DEF NewSpaces, Marked, RowsKnown
  <2>2. s.items[i].row \in Ids BY <1>1, <2>1 DEF AreaItems
  <2> QED BY <1>3, <2>1, <2>2 DEF RowsKnown, RowGiven
<1>4. \A i \in NewSpaces(s) : RowGiven(s, f, i) = f[i] BY DEF RowGiven
<1>5. \A i \in DOMAIN s.items :
         /\ RowGiven(s, f, i) \in Ids
         /\ i \notin NewSpaces(s) =>
               /\ s.items[i].row # 0
               /\ RowsKept(s, v)[RowGiven(s, f, i)] # NoRow
  BY <1>2, <1>3, <1>4 DEF RowsKept
<1>6. ASSUME NEW i \in DOMAIN s.items, NEW j \in DOMAIN s.items,
             RowGiven(s, f, i) = RowGiven(s, f, j)
      PROVE  i = j
  <2>1. CASE i \in NewSpaces(s) /\ j \in NewSpaces(s)
    BY <1>2, <1>4, <1>6, <2>1
  <2>2. CASE i \in NewSpaces(s) /\ j \notin NewSpaces(s)
    BY <1>2, <1>3, <1>4, <1>6, <2>2
  <2>3. CASE i \notin NewSpaces(s) /\ j \in NewSpaces(s)
    BY <1>2, <1>3, <1>4, <1>6, <2>3
  <2>4. CASE i \notin NewSpaces(s) /\ j \notin NewSpaces(s)
    <3>1. s.items[i].row = s.items[j].row /\ s.items[i].row # 0
      BY <1>3, <1>6, <2>4
    <3> QED BY <3>1 DEF RowsKnown
  <2> QED BY <2>1, <2>2, <2>3, <2>4
<1> QED BY <1>5, <1>6

(* The spaces are saved: each has the row it is stored in, and every row   *)
(* left has a space.                                                       *)
LEMMA RowsStored ==
    ASSUME NEW s \in AreaStates, NEW v \in AreaServers, RowsKnown(s, v),
           NEW f \in GivenRows(s, v), NEW t, NEW w,
           t.items = ItemsAfter(s, f), t.heap = s.heap, t.dropped = {},
           w.rows = [r \in Ids |-> w.rows[r]],
           \A i \in Marked(s) : w.rows[RowGiven(s, f, i)] = SpaceData(s, i),
           \A r \in Ids : (\A i \in Marked(s) : RowGiven(s, f, i) # r)
              => w.rows[r] = RowsKept(s, v)[r]
    PROVE  /\ t.items \in Seq(AreaItems) /\ Marked(t) = {}
           /\ w.rows \in [Ids -> SpaceRows \cup {NoRow}]
           /\ RowsKnown(t, w)
<1> DEFINE R(i) == RowGiven(s, f, i)
<1>1. /\ s.items \in Seq(AreaItems) /\ v.rows \in [Ids -> SpaceRows \cup {NoRow}]
      /\ \A i \in DOMAIN s.items : s.items[i] \in AreaItems
      /\ Marked(s) \subseteq DOMAIN s.items
      /\ NewSpaces(s) \subseteq Marked(s)
      /\ s.heap \in [Ids -> 0 .. 2]
  BY DEF AreaStates, AreaServers, Marked, NewSpaces
<1>2. /\ \A i \in DOMAIN s.items :
            /\ R(i) \in Ids
            /\ i \notin NewSpaces(s) =>
                  s.items[i].row # 0 /\ RowsKept(s, v)[R(i)] # NoRow
      /\ \A i, j \in DOMAIN s.items : R(i) = R(j) => i = j
  BY RowsDistinct
<1>3. \A i \in DOMAIN s.items : i \notin NewSpaces(s) => R(i) = s.items[i].row
  BY DEF RowGiven
<1> HIDE DEF R
<1>4. /\ DOMAIN t.items = DOMAIN s.items
      /\ \A i \in DOMAIN s.items :
            /\ t.items[i] \in AreaItems /\ t.items[i].row = R(i)
            /\ ~t.items[i].changed
            /\ t.items[i].place = s.items[i].place
            /\ t.items[i].look = s.items[i].look
            /\ t.items[i].object = s.items[i].object
  <2>1. t.items = [i \in DOMAIN s.items |->
                      [s.items[i] EXCEPT !.row = R(i), !.changed = FALSE]]
    BY DEF ItemsAfter, R
  <2>2. DOMAIN t.items = DOMAIN s.items BY <2>1
  <2>3. ASSUME NEW i \in DOMAIN s.items
        PROVE  /\ t.items[i] \in AreaItems /\ t.items[i].row = R(i)
               /\ ~t.items[i].changed
               /\ t.items[i].place = s.items[i].place
               /\ t.items[i].look = s.items[i].look
               /\ t.items[i].object = s.items[i].object
    <3>1. t.items[i] = [s.items[i] EXCEPT !.row = R(i), !.changed = FALSE]
      BY <2>1
    <3>2. s.items[i] \in AreaItems /\ R(i) \in Ids BY <1>1, <1>2
    <3> DEFINE item == s.items[i]
               r == R(i)
               new == t.items[i]
    <3>3. /\ item \in AreaItems /\ r \in Ids
          /\ new = [item EXCEPT !.row = r, !.changed = FALSE]
      BY <3>1, <3>2
    <3> HIDE DEF item, r, new
    <3>4. /\ new \in AreaItems /\ new.row = r /\ ~new.changed
          /\ new.place = item.place /\ new.look = item.look
          /\ new.object = item.object
      BY <3>3 DEF AreaItems
    <3> QED BY <3>4 DEF item, r, new
  <2> QED BY <2>2, <2>3
<1>5. t.items \in Seq(AreaItems)
  <2>1. t.items = [i \in DOMAIN s.items |-> t.items[i]]
    BY <1>4 DEF ItemsAfter
  <2>2. DOMAIN s.items = 1 .. Len(s.items) /\ Len(s.items) \in Nat BY <1>1
  <2>3. t.items \in [1 .. Len(s.items) -> AreaItems] BY <1>4, <2>1, <2>2
  <2> QED BY <2>2, <2>3
<1>6. Marked(t) = {} BY <1>4 DEF Marked
<1>7. \A i \in DOMAIN s.items :
         /\ SpaceData(t, i) = SpaceData(s, i)
         /\ SpaceData(s, i) \in SpaceRows /\ SpaceData(s, i) # NoRow
  <2> TAKE i \in DOMAIN s.items
  <2>1. s.items[i] \in AreaItems BY <1>1
  <2>2. /\ s.items[i].place \in Nat /\ s.items[i].look \in Int
        /\ s.heap[s.items[i].object] \in 0 .. 2
    BY <1>1, <2>1 DEF AreaItems
  <2>3. SpaceData(s, i) \in SpaceRows BY <2>2 DEF SpaceData, Row, SpaceRows
  <2>4. SpaceData(s, i) # NoRow
    <3>1. SpaceData(s, i).place \in Nat /\ NoRow.place = -1
      BY <2>2 DEF SpaceData, Row, NoRow
    <3> QED BY <3>1
  <2> QED BY <1>4, <2>3, <2>4 DEF SpaceData
<1>8. ASSUME NEW i \in Marked(s)
      PROVE  w.rows[R(i)] = SpaceData(s, i)
  BY DEF R
<1>9. ASSUME NEW r \in Ids, \A i \in Marked(s) : R(i) # r
      PROVE  w.rows[r] = RowsKept(s, v)[r]
  BY <1>9 DEF R
<1>10. w.rows \in [Ids -> SpaceRows \cup {NoRow}]
  <2>1. w.rows = [r \in Ids |-> w.rows[r]] OBVIOUS
  <2>2. ASSUME NEW r \in Ids PROVE w.rows[r] \in SpaceRows \cup {NoRow}
    <3>1. CASE \A i \in Marked(s) : R(i) # r
      BY <1>1, <1>9, <3>1 DEF RowsKept
    <3>2. CASE \E i \in Marked(s) : R(i) = r
      <4>1. PICK i \in Marked(s) : R(i) = r BY <3>2
      <4>2. w.rows[r] = SpaceData(s, i) BY <1>8, <4>1
      <4>3. SpaceData(s, i) \in SpaceRows BY <1>1, <1>7
      <4> QED BY <4>2, <4>3
    <3> QED BY <3>1, <3>2
  <2> QED BY <2>1, <2>2
<1>11. ASSUME NEW i \in DOMAIN s.items
       PROVE  w.rows[R(i)] = SpaceData(t, i)
  <2>1. CASE i \in Marked(s) BY <1>7, <1>8, <2>1
  <2>2. CASE i \notin Marked(s)
    <3>1. \A j \in Marked(s) : R(j) # R(i) BY <1>1, <1>2, <2>2
    <3>2. i \notin NewSpaces(s) /\ R(i) \in Ids BY <1>1, <1>2, <2>2
    <3>3. w.rows[R(i)] = RowsKept(s, v)[R(i)] BY <1>9, <3>1, <3>2
    <3>4. w.rows[R(i)] = v.rows[R(i)] BY <1>2, <3>2, <3>3 DEF RowsKept
    <3>5. R(i) = s.items[i].row /\ ~s.items[i].changed
      BY <1>3, <2>2, <3>2 DEF Marked
    <3> QED BY <1>7, <3>4, <3>5 DEF RowsKnown
  <2> QED BY <2>1, <2>2
<1>12. ASSUME NEW r \in Ids, w.rows[r] # NoRow
       PROVE  \E i \in DOMAIN t.items : t.items[i].row = r
  <2>1. CASE \E i \in Marked(s) : R(i) = r BY <1>1, <1>4, <2>1
  <2>2. CASE \A i \in Marked(s) : R(i) # r
    <3>1. RowsKept(s, v)[r] # NoRow BY <1>9, <1>12, <2>2
    <3>2. r \notin s.dropped /\ v.rows[r] # NoRow BY <3>1 DEF RowsKept
    <3>3. PICK i \in DOMAIN s.items : s.items[i].row = r
      BY <3>2 DEF RowsKnown
    <3>4. i \notin NewSpaces(s) BY <3>3 DEF NewSpaces, Ids
    <3>5. R(i) = r BY <1>3, <3>3, <3>4
    <3> QED BY <1>4, <3>5
  <2> QED BY <2>1, <2>2
<1>13. \A i \in DOMAIN t.items : t.items[i].row \in Ids /\ t.items[i].row # 0
  BY <1>2, <1>4 DEF Ids
<1>14. RowsKnown(t, w)
  <2>1. \A i \in DOMAIN t.items : t.items[i].row # 0 =>
           w.rows[t.items[i].row] # NoRow /\ t.items[i].row \notin t.dropped
    BY <1>4, <1>7, <1>11
  <2>2. \A i, j \in DOMAIN t.items :
           t.items[i].row = t.items[j].row /\ t.items[i].row # 0 => i = j
    BY <1>2, <1>4
  <2>3. \A i \in DOMAIN t.items :
           \/ t.items[i].changed
           \/ /\ t.items[i].row # 0
              /\ w.rows[t.items[i].row] = SpaceData(t, i)
    BY <1>4, <1>11, <1>13
  <2>4. \A r \in Ids : w.rows[r] # NoRow =>
           r \in t.dropped \/ \E i \in DOMAIN t.items : t.items[i].row = r
    BY <1>12
  <2> QED BY <2>1, <2>2, <2>3, <2>4 DEF RowsKnown
<1> QED BY <1>5, <1>6, <1>10, <1>14

(* Where a space was when the page was loaded is not sent.                 *)
LEMMA SpacesPlaced ==
    ASSUME NEW s, NEW t, NEW v, DOMAIN t.items = DOMAIN s.items,
           \A i \in DOMAIN s.items :
              /\ t.items[i].row = s.items[i].row
              /\ t.items[i].place = s.items[i].place
              /\ t.items[i].look = s.items[i].look
              /\ t.items[i].object = s.items[i].object
              /\ t.items[i].changed = s.items[i].changed,
           t.heap = s.heap, t.dropped = s.dropped, RowsKnown(s, v)
    PROVE  RowsKnown(t, v)
<1>1. \A i \in DOMAIN s.items : SpaceData(t, i) = SpaceData(s, i)
  BY DEF SpaceData
<1> QED BY <1>1 DEF RowsKnown

(* The end of a chain of calls: nothing was left to be saved.              *)
LEMMA AllDone ==
    ASSUME NEW s, NEW v, AreaShown(s, v), Marked(s) = {}, s.dropped = {}
    PROVE  /\ AreaShown(Done(s), v)
           /\ RowsKnown(s, v) => RowsKnown(Done(s), v)
           /\ Marked(Done(s)) = {} /\ Done(s).dropped = {}
           /\ Done(s).attrs = s.attrs /\ Done(s).changedAttrs = s.changedAttrs
           /\ Done(s).droppedAttrs = s.droppedAttrs
           /\ Done(s).file = s.file /\ Done(s).type = s.type
           /\ Done(s) \in AreaStates
<1>1. s \in AreaStates /\ s.items \in Seq(AreaItems) /\ s.scale \in 1 .. 2
  BY DEF AreaShown, AreaStates
<1> DEFINE items == [i \in DOMAIN s.items |->
                        [s.items[i] EXCEPT !.org = s.items[i].place]]
           u == [s EXCEPT !.saved = TRUE, !.changed = FALSE,
                          !.submitting = FALSE]
           t == [u EXCEPT !.scaleOnLoad = s.scale, !.items = items]
<1>2. Done(s) = t BY <1>1 DEF Done, AreaStates
<1>3. ASSUME NEW i \in DOMAIN s.items
      PROVE  /\ items[i] \in AreaItems
             /\ items[i].row = s.items[i].row
             /\ items[i].place = s.items[i].place
             /\ items[i].look = s.items[i].look
             /\ items[i].object = s.items[i].object
             /\ items[i].changed = s.items[i].changed
  <2>1. s.items[i] \in AreaItems BY <1>1
  <2>3. s.items[i].place \in Nat BY <2>1 DEF AreaItems
  <2>2. items[i] = [s.items[i] EXCEPT !.org = s.items[i].place] OBVIOUS
  <2> HIDE DEF items
  <2> QED BY <2>1, <2>2, <2>3 DEF AreaItems
<1>4. items \in Seq(AreaItems) /\ DOMAIN items = DOMAIN s.items
  <2>1. DOMAIN items = DOMAIN s.items OBVIOUS
  <2>2. DOMAIN s.items = 1 .. Len(s.items) /\ Len(s.items) \in Nat BY <1>1
  <2>3. items \in [1 .. Len(s.items) -> AreaItems] BY <1>3, <2>2
  <2> HIDE DEF items
  <2> QED BY <2>1, <2>2, <2>3
<1> HIDE DEF items
<1>5. u \in AreaStates BY <1>1 DEF AreaStates
<1>6. /\ u.heap = s.heap /\ u.dropped = s.dropped /\ u.attrs = s.attrs
      /\ u.changedAttrs = s.changedAttrs /\ u.droppedAttrs = s.droppedAttrs
      /\ u.file = s.file /\ u.type = s.type
  BY <1>1 DEF AreaStates
<1> HIDE DEF u
<1>7. t \in AreaStates BY <1>1, <1>4, <1>5 DEF AreaStates
<1>8. /\ t.heap = u.heap /\ t.dropped = u.dropped /\ t.attrs = u.attrs
      /\ t.changedAttrs = u.changedAttrs /\ t.droppedAttrs = u.droppedAttrs
      /\ t.file = u.file /\ t.type = u.type /\ t.items = items
  BY <1>5 DEF AreaStates
<1> HIDE DEF t
<1>9. Marked(t) = {} BY <1>3, <1>4, <1>8 DEF Marked
<1>10. AttrsKnown(t, v) BY <1>6, <1>8, SameAttrs DEF AreaShown
<1>11. AreaShown(t, v) BY <1>6, <1>7, <1>8, <1>9, <1>10 DEF AreaShown
<1>12. ASSUME RowsKnown(s, v) PROVE RowsKnown(t, v)
  <2>1. /\ DOMAIN t.items = DOMAIN s.items
        /\ t.heap = s.heap /\ t.dropped = s.dropped
    BY <1>4, <1>6, <1>8
  <2>2. \A i \in DOMAIN s.items :
           /\ t.items[i].row = s.items[i].row
           /\ t.items[i].place = s.items[i].place
           /\ t.items[i].look = s.items[i].look
           /\ t.items[i].object = s.items[i].object
           /\ t.items[i].changed = s.items[i].changed
    BY <1>3, <1>8
  <2> QED BY <1>12, <2>1, <2>2, SpacesPlaced
<1> QED BY <1>2, <1>6, <1>7, <1>8, <1>9, <1>11, <1>12

(* The attributes under way go on as long as the attributes are the same.  *)
LEMMA AttributesStay ==
    ASSUME NEW c, NEW s, NEW t, NEW v, NEW w, NEW cs, NEW ds,
           c.what = "attributes", AreaSent(c, s, v, cs),
           t.attrs = s.attrs, w.attrs = v.attrs
    PROVE  AreaSent(c, t, w, ds)
BY DEF AreaSent

(* What follows the spaces (AreaEditor!Last), with what it leads to.       *)
GoesOn(s, n, others, t, cs) ==
    IF s.type = "designed" \/ s.file
    THEN /\ t = s
         /\ cs = others \cup {[what |-> "plan", n |-> n, design |-> s.design,
                               type |-> s.type]}
    ELSE t = Done(s) /\ cs = others

(* The chain goes on to the floor plan, or is at its end.                  *)
LEMMA ChainEnds ==
    ASSUME NEW s, NEW v, NEW t, NEW n, NEW others, NEW cs,
           AreaShown(s, v), RowsKnown(s, v), Marked(s) = {}, s.dropped = {},
           \A c \in others : c.what = "attributes" /\ AreaSent(c, s, v, others),
           \A c, d \in others : c = d, AreaCalls(others),
           s.file \/ s.type = "designed"
              => s.changedAttrs = {} /\ s.droppedAttrs = {},
           GoesOn(s, n, others, t, cs)
    PROVE  AreaKept(t, v, cs)
<1>1. CASE s.type = "designed" \/ s.file
  <2> DEFINE c == [what |-> "plan", n |-> n, design |-> s.design,
                   type |-> s.type]
  <2>1. t = s /\ cs = others \cup {c} /\ c.what = "plan"
    BY <1>1 DEF GoesOn
  <2>2. c.design \in Int BY DEF AreaShown, AreaStates
  <2> HIDE DEF c
  <2>3. AreaSent(c, s, v, cs) BY <1>1, <2>1 DEF AreaSent
  <2>4. \A d \in others : AreaSent(d, s, v, cs) BY AttributesStay
  <2>5. AreaCalls(cs) BY <2>1, <2>2 DEF AreaCalls
  <2>6. \A d, e \in cs :
           (d.what = "attributes" <=> e.what = "attributes") => d = e
    BY <2>1
  <2> QED BY <2>1, <2>3, <2>4, <2>5, <2>6 DEF AreaKept
<1>2. CASE ~(s.type = "designed" \/ s.file)
  <2>1. t = Done(s) /\ cs = others BY <1>2 DEF GoesOn
  <2>2. AreaShown(t, v) /\ RowsKnown(t, v) /\ t.attrs = s.attrs
    BY <2>1, AllDone
  <2>3. \A d \in others : AreaSent(d, t, v, cs) BY <2>2, AttributesStay
  <2> QED BY <2>1, <2>2, <2>3 DEF AreaKept
<1> QED BY <1>1, <1>2

(* What holds when an answer arrives.                                      *)
LEMMA AnswerSees ==
    ASSUME AreaInv, AreaNow, NEW call \in calls
    PROVE  /\ AreaShown(state, server) /\ AreaCalls(calls)
           /\ state \in AreaStates /\ server \in AreaServers
           /\ \A c, d \in calls :
                 (c.what = "attributes" <=> d.what = "attributes") => c = d
           /\ \A c \in calls : AreaSent(c, state, server, calls)
           /\ call.what # "attributes" =>
                 \A c \in calls \ {call} : c.what = "attributes"
           /\ call.what # "load" => RowsKnown(state, server)
BY DEF AreaInv, AreaKept, AreaShown

(* The area is saved: its attributes are under way beside the rest, and    *)
(* the spaces that are marked.                                             *)
LEMMA AreaIsSaved ==
    ASSUME AreaInv, AreaNow, NEW call \in calls, AreaSaved(call)
    PROVE  AreaKept(state', server', calls')
<1> DEFINE todo == {<<a, state.attrs[a]>> : a \in
                        {b \in Attributes : state.attrs[b] # Unset}}
                   \cup {<<a, Unset>> : a \in state.droppedAttrs}
           attrs == [what |-> "attributes", n |-> call.n, refused |-> FALSE,
                     todo |-> todo]
           send == [i \in Marked(state) |->
                       [row |-> state.items[i].row,
                        data |-> SpaceData(state, i)]]
           spaces == [what |-> "spaces", n |-> call.n,
                      dropped |-> state.dropped, send |-> send]
           t == [state EXCEPT !.entity = TRUE]
           w == [server EXCEPT !.form = call.form, !.type = call.type,
                               !.scale = call.scale]
<1>1. /\ call.what = "save" /\ server' = w
      /\ IF Marked(state) = {} /\ state.dropped = {}
         THEN Last(t, call.n, (calls \ {call}) \cup {attrs})
         ELSE state' = t /\ calls' = ((calls \ {call}) \cup {attrs}) \cup {spaces}
  BY DEF AreaSaved, AreaTakes, Marked, SpaceData
<1>2. /\ AreaShown(state, server) /\ RowsKnown(state, server)
      /\ state \in AreaStates /\ server \in AreaServers
      /\ AreaSent(call, state, server, calls) /\ AreaCalls(calls)
  BY <1>1, AnswerSees
<1>3. /\ (calls \ {call}) \cup {attrs} = {attrs}
      /\ call.form \in Int /\ call.type \in {"upload", "designed"}
      /\ call.scale \in 1 .. 2
      /\ state.file \/ state.type = "designed"
         => state.changedAttrs = {} /\ state.droppedAttrs = {}
  BY <1>1, <1>2 DEF AreaSent, AreaCalls
<1>4. w \in AreaServers /\ w.rows = server.rows /\ w.attrs = server.attrs
  BY <1>2, <1>3 DEF AreaServers
<1>5. t \in AreaStates BY <1>2 DEF AreaStates
<1>6. /\ t.items = state.items /\ t.heap = state.heap
      /\ t.dropped = state.dropped /\ t.attrs = state.attrs
      /\ t.changedAttrs = state.changedAttrs
      /\ t.droppedAttrs = state.droppedAttrs /\ t.changed = state.changed
      /\ t.file = state.file /\ t.type = state.type
  BY <1>2 DEF AreaStates
<1>7. AreaShown(state, w) /\ RowsKnown(state, w)
  BY <1>2, <1>4 DEF AreaShown, AttrsKnown, RowsKnown
<1>8. /\ attrs.what = "attributes" /\ attrs.todo = todo
      /\ {"what", "todo", "refused"} \subseteq DOMAIN attrs
  OBVIOUS
<1>9. spaces.what = "spaces" /\ spaces.dropped = state.dropped
      /\ spaces.send = send
  OBVIOUS
<1> HIDE DEF t, w, attrs, spaces
<1>10. AreaShown(t, w) /\ RowsKnown(t, w) /\ Marked(t) = Marked(state)
  BY <1>5, <1>6, <1>7, FieldsEdited, SameSpaces
<1>11. \A cs : AreaSent(attrs, t, w, cs)
  <2>1. todo \subseteq Attributes \X (0 .. 2)
    BY <1>2 DEF AreaStates, Unset
  <2>2. \A pair \in todo : pair[2] = state.attrs[pair[1]]
    BY <1>2 DEF AreaShown, AttrsKnown, AreaStates
  <2>3. ASSUME NEW a \in Attributes, server.attrs[a] # state.attrs[a]
        PROVE  <<a, state.attrs[a]>> \in todo
    <3>1. CASE state.attrs[a] # Unset BY <3>1
    <3>2. CASE state.attrs[a] = Unset
      BY <1>2, <2>3, <3>2 DEF AreaShown, AttrsKnown
    <3> QED BY <3>1, <3>2
  <2> HIDE DEF todo
  <2> QED BY <1>4, <1>6, <1>8, <2>1, <2>2, <2>3 DEF AreaSent
<1>12. CASE Marked(state) = {} /\ state.dropped = {}
  <2>1. Last(t, call.n, {attrs}) BY <1>1, <1>3, <1>12
  <2>2. GoesOn(t, call.n, {attrs}, state', calls')
    BY <2>1 DEF Last, GoesOn
  <2>3. /\ \A c \in {attrs} : /\ c.what = "attributes"
                              /\ AreaSent(c, t, w, {attrs})
        /\ \A c, d \in {attrs} : c = d
        /\ AreaCalls({attrs})
        /\ Marked(t) = {} /\ t.dropped = {}
        /\ t.file \/ t.type = "designed"
           => t.changedAttrs = {} /\ t.droppedAttrs = {}
    BY <1>3, <1>6, <1>8, <1>10, <1>11, <1>12 DEF AreaCalls
  <2>4. AreaKept(state', w, calls') BY <1>10, <2>2, <2>3, ChainEnds
  <2> QED BY <1>1, <2>4
<1>13. CASE ~(Marked(state) = {} /\ state.dropped = {})
  <2>1. state' = t /\ calls' = {attrs, spaces} BY <1>1, <1>3, <1>13
  <2>2. send = [i \in Marked(t) |->
                   [row |-> t.items[i].row, data |-> SpaceData(t, i)]]
    BY <1>6, <1>10 DEF SpaceData
  <2> HIDE DEF send
  <2>3. AreaSent(spaces, t, w, calls')
    BY <1>3, <1>6, <1>9, <2>2 DEF AreaSent
  <2>4. AreaCalls(calls') BY <1>8, <1>9, <2>1 DEF AreaCalls
  <2>5. AreaSent(attrs, t, w, calls') BY <1>11
  <2>6. \A c, d \in calls' :
           (c.what = "attributes" <=> d.what = "attributes") => c = d
    BY <1>8, <1>9, <2>1
  <2>7. \A c \in calls' : AreaSent(c, t, w, calls') BY <2>1, <2>3, <2>5
  <2> QED BY <1>1, <1>10, <2>1, <2>4, <2>6, <2>7 DEF AreaKept
<1> QED BY <1>12, <1>13

(* The floor plan is saved: the page is loaded anew.                       *)
LEMMA PlanIsSaved ==
    ASSUME AreaInv, AreaNow, NEW call \in calls, PlanSaved(call)
    PROVE  AreaKept(state', server', calls')
<1> DEFINE s == Done(state)
           file == s.file /\ call.type = "designed"
           t == [s EXCEPT !.file = file]
           design == IF call.type = "designed" THEN call.design
                     ELSE server.design
           w == [server EXCEPT !.design = design, !.scale = 1]
           c == [what |-> "load", n |-> call.n, form |-> w.form,
                 type |-> w.type, scale |-> w.scale]
<1>1. /\ call.what = "plan" /\ AreaShown(state, server)
      /\ RowsKnown(state, server)
      /\ server \in AreaServers /\ call.design \in Int
      /\ AreaSent(call, state, server, calls)
      /\ \A d \in calls : AreaSent(d, state, server, calls)
      /\ \A d \in calls \ {call} : d.what = "attributes"
      /\ \A d, e \in calls \ {call} : d = e
  BY AnswerSees DEF PlanSaved, AreaTakes, AreaCalls
<1>2. /\ Marked(state) = {} /\ state.dropped = {}
      /\ state.changedAttrs = {} /\ state.droppedAttrs = {}
  BY <1>1 DEF AreaSent
<1>3. /\ AreaShown(s, server) /\ s \in AreaStates /\ RowsKnown(s, server)
      /\ Marked(s) = {} /\ s.dropped = {} /\ s.attrs = state.attrs
      /\ s.changedAttrs = {} /\ s.droppedAttrs = {}
  BY <1>1, <1>2, AllDone
<1>4. /\ state' = [s EXCEPT !.file = @ /\ call.type = "designed"]
      /\ calls' = (calls \ {call}) \cup {c} /\ server' = w
  BY <1>1 DEF PlanSaved, LoadOf, AreaServers
<1> HIDE DEF s
<1>5. state' = t /\ file \in BOOLEAN BY <1>3, <1>4 DEF AreaStates
<1> HIDE DEF file
<1>6. t \in AreaStates BY <1>3, <1>5 DEF AreaStates
<1>7. /\ t.items = s.items /\ t.heap = s.heap
      /\ t.dropped = s.dropped /\ t.attrs = s.attrs
      /\ t.changedAttrs = s.changedAttrs
      /\ t.droppedAttrs = s.droppedAttrs /\ t.changed = s.changed
  BY <1>3 DEF AreaStates
<1>8. /\ w \in AreaServers /\ w.rows = server.rows
      /\ w.attrs = server.attrs
  <2> DEFINE v == [server EXCEPT !.design = design]
  <2>1. design \in Int BY <1>1 DEF AreaServers
  <2> HIDE DEF design
  <2>2. /\ v \in AreaServers /\ v.rows = server.rows
        /\ v.attrs = server.attrs
    BY <1>1, <2>1 DEF AreaServers
  <2>3. w = [v EXCEPT !.scale = 1] /\ 1 \in 1 .. 2 OBVIOUS
  <2> HIDE DEF v, w
  <2> QED BY <2>2, <2>3 DEF AreaServers
<1>9. /\ c.what = "load" /\ c.form \in Int
      /\ c.type \in {"upload", "designed"} /\ c.scale \in 1 .. 2
      /\ {"what", "form", "type", "scale"} \subseteq DOMAIN c
  <2> HIDE DEF w
  <2> QED BY <1>8 DEF AreaServers
<1> HIDE DEF t, c, w
<1>10. AreaShown(t, server) /\ RowsKnown(t, server) /\ Marked(t) = {}
  BY <1>3, <1>6, <1>7, FieldsEdited, SameSpaces
<1>11. AreaShown(t, server') /\ RowsKnown(t, server')
  BY <1>4, <1>8, <1>10 DEF AreaShown, AttrsKnown, RowsKnown
<1>12. AreaSent(c, t, server', calls')
  BY <1>3, <1>7, <1>9, <1>10 DEF AreaSent
<1>13. \A d \in calls \ {call} : AreaSent(d, t, server', calls')
  BY <1>1, <1>3, <1>4, <1>7, <1>8, AttributesStay
<1>14. AreaCalls(calls')
  BY <1>1, <1>4, <1>9, AnswerSees DEF AreaCalls
<1>15. \A d, e \in calls' :
          (d.what = "attributes" <=> e.what = "attributes") => d = e
  BY <1>1, <1>4, <1>9
<1> QED BY <1>4, <1>5, <1>11, <1>12, <1>13, <1>14, <1>15 DEF AreaKept

(* The spaces are saved. The rows answered are given to the marked spaces  *)
(* that have none, in their order: these are the spaces that were sent.    *)
LEMMA SpacesAreSaved ==
    ASSUME AreaInv, AreaNow, NEW call \in calls, SpacesSaved(call),
           ~state'.unstored
    PROVE  AreaKept(state', server', calls')
<1>1. /\ call.what = "spaces" /\ AreaShown(state, server)
      /\ RowsKnown(state, server)
      /\ state \in AreaStates /\ server \in AreaServers
      /\ AreaSent(call, state, server, calls)
      /\ \A d \in calls : AreaSent(d, state, server, calls)
      /\ \A d \in calls \ {call} : d.what = "attributes"
      /\ \A d, e \in calls \ {call} : d = e
  BY AnswerSees DEF SpacesSaved, AreaTakes
<1>2. /\ call.dropped = state.dropped
      /\ DOMAIN call.send = Marked(state)
      /\ \A i \in Marked(state) :
            /\ call.send[i].row = state.items[i].row
            /\ call.send[i].data = SpaceData(state, i)
      /\ state.file \/ state.type = "designed"
         => state.changedAttrs = {} /\ state.droppedAttrs = {}
  BY <1>1 DEF AreaSent
<1>2a. SpacesStored(call, {}, {})
  <2>1. PICK failed \in SUBSET DOMAIN call.send, left \in SUBSET call.dropped :
           SpacesStored(call, failed, left)
    BY DEF SpacesSaved
  <2>2. PICK items, bad :
           /\ bad = (failed # {} \/ left # {})
           /\ Last([state EXCEPT !.items = items, !.dropped = {},
                                 !.unstored = state.unstored \/ bad],
                   call.n, calls \ {call})
    BY <2>1, ListStored
  <2>3. ~bad
    <3> DEFINE lost == state.unstored \/ bad
               s == [state EXCEPT !.items = items, !.dropped = {},
                                  !.unstored = lost]
    <3>1. state' = s \/ state' = Done(s) BY <2>2 DEF Last
    <3> HIDE DEF lost
    <3>2. DOMAIN s = DOMAIN state /\ s.unstored = lost
      BY <1>1 DEF AreaStates
    <3> HIDE DEF s
    <3>3. Done(s).unstored = s.unstored BY <1>1, <3>2 DEF Done, AreaStates
    <3>4. ~lost BY <3>1, <3>2, <3>3
    <3> QED BY <3>4 DEF lost
  <2>4. failed = {} /\ left = {} BY <2>2, <2>3
  <2> QED BY <2>1, <2>4
<1> DEFINE news == {i \in DOMAIN call.send : call.send[i].row = 0}
           open == {i \in DOMAIN state.items :
                       state.items[i].changed /\ state.items[i].row = 0}
           kept == [r \in Ids |-> IF r \in call.dropped \ {} THEN NoRow
                                  ELSE server.rows[r]]
           answered == {i \in open : Rank(i, open) < Cardinality(news)}
           of(f, i) == IF i \in {} THEN 0
                       ELSE IF i \in news THEN f[i] ELSE call.send[i].row
           made(f, i) == CHOOSE r \in Ids \cup {0} :
              \E j \in news : r = of(f, j) /\ Rank(j, news) = Rank(i, open)
           items(f) == [i \in DOMAIN state.items |->
              [state.items[i] EXCEPT
                  !.row = IF i \in answered THEN made(f, i)
                          ELSE state.items[i].row,
                  !.changed = FALSE]]
           rows(f) == [r \in Ids |->
              IF \E i \in DOMAIN call.send : of(f, i) = r
                    /\ (i \in news \/ kept[r] # NoRow)
              THEN call.send[CHOOSE i \in DOMAIN call.send : of(f, i) = r].data
              ELSE kept[r]]
<1>3. /\ news = NewSpaces(state) /\ open = NewSpaces(state)
      /\ kept = RowsKept(state, server)
      /\ NewRows(call.send, server.rows) = GivenRows(state, server)
  <2>1. news = NewSpaces(state) BY <1>2 DEF NewSpaces
  <2>2. open = NewSpaces(state) BY DEF NewSpaces, Marked
  <2>3. NewRows(call.send, server.rows) = GivenRows(state, server)
    BY <2>1 DEF NewRows, GivenRows
  <2> QED BY <1>2, <2>1, <2>2, <2>3 DEF RowsKept
<1>4. PICK f \in NewRows(call.send, server.rows) :
         /\ server' = [server EXCEPT !.rows = rows(f)]
         /\ Last([state EXCEPT !.items = items(f), !.dropped = {},
                               !.unstored = @ \/ {} # {} \/ {} # {}],
                 call.n, calls \ {call})
  BY <1>2a DEF SpacesStored, Rank
<1>5. f \in GivenRows(state, server) BY <1>3, <1>4
<1>6. /\ \A i \in DOMAIN state.items :
            /\ RowGiven(state, f, i) \in Ids
            /\ i \notin NewSpaces(state) =>
                  RowsKept(state, server)[RowGiven(state, f, i)] # NoRow
      /\ \A i, j \in DOMAIN state.items :
            RowGiven(state, f, i) = RowGiven(state, f, j) => i = j
  BY <1>1, <1>5, RowsDistinct
<1>7. /\ NewSpaces(state) \subseteq Marked(state)
      /\ Marked(state) \subseteq DOMAIN state.items
      /\ DOMAIN state.items \subseteq Nat
      /\ IsFiniteSet(NewSpaces(state))
  <2>1. state.items \in Seq(AreaItems) BY <1>1 DEF AreaStates
  <2>2. DOMAIN state.items = 1 .. Len(state.items) /\ Len(state.items) \in Nat
    BY <2>1
  <2>3. NewSpaces(state) \in SUBSET (1 .. Len(state.items))
    BY <2>2 DEF NewSpaces, Marked
  <2>4. IsFiniteSet(1 .. Len(state.items))
    <3> DEFINE n == Len(state.items)
    <3>1. n \in Int BY <2>2
    <3> HIDE DEF n
    <3>2. IsFiniteSet(1 .. n) BY <3>1, FS_Interval
    <3> QED BY <3>2 DEF n
  <2>5. IsFiniteSet(NewSpaces(state)) BY <2>3, <2>4, FS_Subset
  <2> QED BY <2>2, <2>5 DEF NewSpaces, Marked
<1>8. \A i \in Marked(state) : of(f, i) = RowGiven(state, f, i)
  BY <1>2, <1>3 DEF RowGiven
<1>9. answered = NewSpaces(state)
  <2>1. \A i \in NewSpaces(state) :
           /\ Rank(i, NewSpaces(state)) \in 0 .. Cardinality(NewSpaces(state)) - 1
           /\ Cardinality(NewSpaces(state)) \in Nat
    BY <1>7, RankGrows
  <2>2. \A i \in NewSpaces(state) :
           Rank(i, NewSpaces(state)) < Cardinality(NewSpaces(state))
    BY <2>1
  <2> QED BY <1>3, <2>2
<1>10. ASSUME NEW i \in NewSpaces(state) PROVE made(f, i) = f[i]
  <2>1. f[i] \in Ids BY <1>5 DEF GivenRows
  <2>2. \A j \in news : Rank(j, news) = Rank(i, open) => j = i
    BY <1>3, <1>7, RankGrows
  <2>3. \A r \in Ids \cup {0} :
           (\E j \in news : r = of(f, j) /\ Rank(j, news) = Rank(i, open))
           <=> r = f[i]
    BY <1>3, <2>2
  <2> HIDE DEF news, open, of
  <2>4. made(f, i) \in Ids \cup {0}
        /\ \E j \in news : made(f, i) = of(f, j) /\ Rank(j, news) = Rank(i, open)
    BY <2>1, <2>3
  <2> HIDE DEF made
  <2> QED BY <2>3, <2>4
<1>11. items(f) = ItemsAfter(state, f)
  <2> HIDE DEF answered, made
  <2>1. ASSUME NEW i \in DOMAIN state.items
        PROVE  (IF i \in answered THEN made(f, i) ELSE state.items[i].row)
               = RowGiven(state, f, i)
    BY <1>9, <1>10 DEF RowGiven
  <2>2. ASSUME NEW i \in DOMAIN state.items
        PROVE  [state.items[i] EXCEPT
                  !.row = IF i \in answered THEN made(f, i) ELSE @,
                  !.changed = FALSE]
               = [state.items[i] EXCEPT !.row = RowGiven(state, f, i),
                                        !.changed = FALSE]
    BY <2>1
  <2> QED BY <2>2 DEF ItemsAfter
<1> DEFINE t == [state EXCEPT !.items = items(f), !.dropped = {}]
           w == [server EXCEPT !.rows = rows(f)]
<1>12. /\ server' = w /\ Last(t, call.n, calls \ {call})
  <2> DEFINE u == [state EXCEPT !.items = items(f), !.dropped = {},
                                !.unstored = @ \/ {} # {} \/ {} # {}]
  <2> HIDE DEF items, rows
  <2>1. u = t BY <1>1 DEF AreaStates
  <2>2. server' = w /\ Last(u, call.n, calls \ {call}) BY <1>4
  <2> QED BY <2>1, <2>2
<1>13. /\ \A i \in Marked(state) :
             rows(f)[RowGiven(state, f, i)] = SpaceData(state, i)
       /\ \A r \in Ids : (\A i \in Marked(state) : RowGiven(state, f, i) # r)
             => rows(f)[r] = RowsKept(state, server)[r]
  <2> HIDE DEF news, kept, of
  <2>1. \A r \in Ids : rows(f)[r] =
           IF \E i \in Marked(state) : of(f, i) = r
                 /\ (i \in news \/ kept[r] # NoRow)
           THEN call.send[CHOOSE i \in Marked(state) : of(f, i) = r].data
           ELSE kept[r]
    BY <1>2
  <2> HIDE DEF rows
  <2>2. ASSUME NEW i \in Marked(state)
        PROVE  rows(f)[RowGiven(state, f, i)] = SpaceData(state, i)
    <3> DEFINE r == RowGiven(state, f, i)
    <3>1. r \in Ids /\ of(f, i) = r BY <1>6, <1>7, <1>8
    <3>2. \A j \in Marked(state) : of(f, j) = r => j = i
      BY <1>6, <1>7, <1>8
    <3>3. i \in news \/ kept[r] # NoRow BY <1>3, <1>6, <1>7
    <3> HIDE DEF r
    <3>4. (CHOOSE j \in Marked(state) : of(f, j) = r) = i BY <3>1, <3>2
    <3>5. rows(f)[r] = call.send[i].data BY <2>1, <3>1, <3>3, <3>4
    <3> QED BY <1>2, <3>5 DEF r
  <2>3. ASSUME NEW r \in Ids, \A i \in Marked(state) : RowGiven(state, f, i) # r
        PROVE  rows(f)[r] = RowsKept(state, server)[r]
    BY <1>3, <1>8, <2>1, <2>3
  <2> QED BY <2>2, <2>3
<1>14. rows(f) = [r \in Ids |-> rows(f)[r]] OBVIOUS
<1> HIDE DEF items, rows
<1>15. /\ t.items = items(f) /\ t.dropped = {} /\ t.heap = state.heap
       /\ t.attrs = state.attrs
       /\ t.changedAttrs = state.changedAttrs
       /\ t.droppedAttrs = state.droppedAttrs /\ t.changed = state.changed
       /\ t.file = state.file /\ t.type = state.type
  BY <1>1 DEF AreaStates
<1>16. w.rows = rows(f) /\ w.attrs = server.attrs BY <1>1 DEF AreaServers
<1>17. /\ t.items \in Seq(AreaItems) /\ Marked(t) = {}
       /\ w.rows \in [Ids -> SpaceRows \cup {NoRow}]
       /\ RowsKnown(t, w)
  <2> HIDE DEF t, w
  <2>1. t.items = ItemsAfter(state, f) BY <1>11, <1>15
  <2>2. /\ w.rows = [r \in Ids |-> w.rows[r]]
        /\ \A i \in Marked(state) :
              w.rows[RowGiven(state, f, i)] = SpaceData(state, i)
        /\ \A r \in Ids : (\A i \in Marked(state) : RowGiven(state, f, i) # r)
              => w.rows[r] = RowsKept(state, server)[r]
    BY <1>13, <1>14, <1>16
  <2> QED BY <1>1, <1>5, <1>15, <2>1, <2>2, RowsStored
<1>18. t \in AreaStates
  <2>1. items(f) \in Seq(AreaItems) BY <1>15, <1>17
  <2> QED BY <1>1, <2>1 DEF AreaStates
<1>19. w \in AreaServers
  <2>1. rows(f) \in [Ids -> SpaceRows \cup {NoRow}] BY <1>16, <1>17
  <2> QED BY <1>1, <2>1 DEF AreaServers
<1> HIDE DEF t, w
<1>20. AttrsKnown(t, w) BY <1>1, <1>15, <1>16 DEF AreaShown, AttrsKnown
<1>21. AreaShown(t, w) BY <1>15, <1>17, <1>18, <1>19, <1>20 DEF AreaShown
<1>22. GoesOn(t, call.n, calls \ {call}, state', calls')
  BY <1>12 DEF Last, GoesOn
<1>23. \A d \in calls \ {call} :
          d.what = "attributes" /\ AreaSent(d, t, w, calls \ {call})
  BY <1>1, <1>15, <1>16, AttributesStay
<1>24. t.file \/ t.type = "designed"
       => t.changedAttrs = {} /\ t.droppedAttrs = {}
  BY <1>2, <1>15
<1> DEFINE others == calls \ {call}
<1>25. /\ \A d \in others : d.what = "attributes" /\ AreaSent(d, t, w, others)
       /\ \A d, e \in others : d = e
       /\ AreaCalls(others)
       /\ GoesOn(t, call.n, others, state', calls')
  BY <1>1, <1>22, <1>23, AnswerSees DEF AreaCalls
<1> HIDE DEF others
<1>26. AreaKept(state', w, calls')
  BY <1>15, <1>17, <1>21, <1>24, <1>25, ChainEnds
<1> QED BY <1>12, <1>26

(* A call that is dropped leaves the others as they were.                  *)
LEMMA OthersStay ==
    ASSUME AreaInv, AreaNow, NEW call \in calls, NEW cs,
           NEW d \in calls \ {call}
    PROVE  AreaSent(d, state, server, cs)
<1>1. AreaSent(d, state, server, calls) BY AnswerSees
<1>2. d.what \notin {"save", "delete"} BY <1>1 DEF AreaSent
<1> QED BY <1>1, <1>2 DEF AreaSent

(* A call that ends without anything being changed.                        *)
LEMMA CallDropped ==
    ASSUME AreaInv, AreaNow, NEW call \in calls,
           state' = state, server' = server, calls' = calls \ {call}
    PROVE  AreaKept(state', server', calls')
<1>1. /\ AreaShown(state, server) /\ AreaCalls(calls')
      /\ \A c, d \in calls' :
            (c.what = "attributes" <=> d.what = "attributes") => c = d
  BY AnswerSees DEF AreaCalls
<1>2. \A d \in calls' : AreaSent(d, state, server, calls') BY OthersStay
<1>3. ~state.loading \/ (\E c \in calls' : c.what # "load")
      => RowsKnown(state, server)
  BY DEF AreaInv, AreaKept
<1> QED BY <1>1, <1>2, <1>3 DEF AreaKept

(* A call is refused: what was to be saved is marked as it was.            *)
LEMMA CallIsRefused ==
    ASSUME AreaInv, AreaNow, NEW call \in calls, AreaCallRefused(call)
    PROVE  AreaKept(state', server', calls')
<1>1. /\ server' = server /\ calls' = calls \ {call}
      /\ call.what # "attributes"
  BY DEF AreaCallRefused
<1>2. CASE ~Caught(call)
  <2>1. state' = state BY <1>2 DEF AreaCallRefused
  <2> QED BY <1>1, <2>1, CallDropped
<1>3. CASE Caught(call)
  <2> DEFINE t == [state EXCEPT !.saved = FALSE, !.error = TRUE,
                                !.submitting = FALSE]
  <2>1. state' = t /\ call.what # "load"
    BY <1>3 DEF AreaCallRefused, Caught
  <2>2. /\ AreaShown(state, server) /\ RowsKnown(state, server)
        /\ state \in AreaStates
        /\ \A d \in calls : AreaSent(d, state, server, calls)
        /\ \A d \in calls \ {call} : d.what = "attributes"
        /\ \A d, e \in calls \ {call} : d = e
        /\ AreaCalls(calls \ {call})
    BY <1>1, <2>1, AnswerSees DEF AreaCalls
  <2>3. t \in AreaStates BY <2>2 DEF AreaStates
  <2>4. /\ t.items = state.items /\ t.heap = state.heap
        /\ t.dropped = state.dropped /\ t.attrs = state.attrs
        /\ t.changedAttrs = state.changedAttrs
        /\ t.droppedAttrs = state.droppedAttrs /\ t.changed = state.changed
    BY <2>2 DEF AreaStates
  <2> HIDE DEF t
  <2>5. AreaShown(t, server) /\ RowsKnown(t, server)
    BY <2>2, <2>3, <2>4, FieldsEdited
  <2>6. \A d \in calls \ {call} : AreaSent(d, t, server, calls')
    BY <2>2, <2>4, AttributesStay
  <2> QED BY <1>1, <2>1, <2>2, <2>5, <2>6 DEF AreaKept
<1> QED BY <1>2, <1>3

(* An attribute is refused: it is still noted, and stays so.               *)
LEMMA AttributeIsRefused ==
    ASSUME AreaInv, AreaNow, NEW call \in calls, AttributeRefused(call)
    PROVE  AreaKept(state', server', calls')
<1>1. /\ call.what = "attributes" /\ state' = state /\ server' = server
      /\ AreaShown(state, server) /\ AreaCalls(calls)
      /\ RowsKnown(state, server)
      /\ AreaSent(call, state, server, calls)
      /\ \A d \in calls \ {call} : d.what # "attributes"
      /\ \A d, e \in calls \ {call} : d = e
      /\ {"what", "todo", "refused"} \subseteq DOMAIN call
  BY AnswerSees DEF AttributeRefused, AreaTakes, AreaCalls
<1>2. PICK pair \in call.todo :
         calls' = (calls \ {call}) \cup
                      {[call EXCEPT !.todo = @ \ {pair}, !.refused = TRUE]}
  BY DEF AttributeRefused
<1> DEFINE c == [call EXCEPT !.todo = call.todo \ {pair}, !.refused = TRUE]
<1>3. calls' = (calls \ {call}) \cup {c} BY <1>1, <1>2
<1>4. /\ c.what = "attributes" /\ c.todo = call.todo \ {pair}
      /\ c.refused = TRUE
      /\ {"what", "todo", "refused"} \subseteq DOMAIN c
  BY <1>1
<1> HIDE DEF c
<1>5. AreaSent(c, state, server, calls') BY <1>1, <1>4 DEF AreaSent
<1>6. \A d \in calls' : AreaSent(d, state, server, calls')
  BY <1>3, <1>5, OthersStay
<1>7. AreaCalls(calls') BY <1>1, <1>3, <1>4 DEF AreaCalls
<1>8. \A d, e \in calls' :
         (d.what = "attributes" <=> e.what = "attributes") => d = e
  BY <1>1, <1>3, <1>4
<1> QED BY <1>1, <1>6, <1>7, <1>8 DEF AreaKept

(* One attribute is saved.                                                 *)
LEMMA AttributeIsSaved ==
    ASSUME AreaInv, AreaNow, NEW call \in calls, AttributeSaved(call)
    PROVE  AreaKept(state', server', calls')
<1>1. /\ call.what = "attributes" /\ state' = state
      /\ AreaShown(state, server) /\ AreaCalls(calls)
      /\ state \in AreaStates /\ server \in AreaServers
      /\ AreaSent(call, state, server, calls)
      /\ \A d \in calls : AreaSent(d, state, server, calls)
      /\ \A d \in calls \ {call} : d.what # "attributes"
      /\ \A d, e \in calls \ {call} : d = e
      /\ {"what", "todo", "refused"} \subseteq DOMAIN call
  BY AnswerSees DEF AttributeSaved, AreaTakes, AreaCalls
<1>2. PICK pair \in call.todo :
         /\ server' = [server EXCEPT !.attrs[pair[1]] = pair[2]]
         /\ calls' = (calls \ {call}) \cup {[call EXCEPT !.todo = @ \ {pair}]}
  BY DEF AttributeSaved
<1> DEFINE attrs == [server.attrs EXCEPT ![pair[1]] = pair[2]]
           w == [server EXCEPT !.attrs = attrs]
           c == [call EXCEPT !.todo = call.todo \ {pair}]
<1>3. /\ call.todo \subseteq Attributes \X (0 .. 2)
      /\ \A q \in call.todo : q[2] = state.attrs[q[1]]
      /\ call.refused = TRUE \/ \A a \in Attributes :
            server.attrs[a] # state.attrs[a] =>
               <<a, state.attrs[a]>> \in call.todo
  BY <1>1 DEF AreaSent
<1>4. /\ pair[1] \in Attributes /\ pair[2] \in 0 .. 2
      /\ pair[2] = state.attrs[pair[1]]
  BY <1>2, <1>3
<1>5. /\ attrs \in [Attributes -> 0 .. 2] /\ attrs[pair[1]] = pair[2]
      /\ \A a \in Attributes : a # pair[1] => attrs[a] = server.attrs[a]
  BY <1>1, <1>4 DEF AreaServers
<1>6. server' = w /\ calls' = (calls \ {call}) \cup {c}
  BY <1>1, <1>2 DEF AreaServers
<1> HIDE DEF attrs
<1>7. w \in AreaServers /\ w.attrs = attrs /\ w.rows = server.rows
  BY <1>1, <1>5 DEF AreaServers
<1>8. /\ c.what = "attributes" /\ c.todo = call.todo \ {pair}
      /\ c.refused = call.refused
      /\ {"what", "todo", "refused"} \subseteq DOMAIN c
  BY <1>1
<1> HIDE DEF w, c
<1>9. c.refused = TRUE \/ \A a \in Attributes :
         w.attrs[a] # state.attrs[a] => <<a, state.attrs[a]>> \in c.todo
  <2> SUFFICES ASSUME ~(call.refused = TRUE),
                      NEW a \in Attributes, attrs[a] # state.attrs[a]
               PROVE  <<a, state.attrs[a]>> \in call.todo \ {pair}
    BY <1>7, <1>8
  <2>1. a # pair[1] BY <1>4, <1>5
  <2>2. attrs[a] = server.attrs[a] BY <1>5, <2>1
  <2>3. <<a, state.attrs[a]>> # pair BY <2>1
  <2> QED BY <1>3, <2>2, <2>3
<1>10. AreaSent(c, state, w, calls') BY <1>3, <1>8, <1>9 DEF AreaSent
<1>11. AttrsKnown(state, w)
  <2> SUFFICES ASSUME NEW a \in Attributes
               PROVE  /\ attrs[a] # state.attrs[a] =>
                            a \in state.changedAttrs \cup state.droppedAttrs
                      /\ a \in state.droppedAttrs => state.attrs[a] = Unset
                      /\ state.attrs[a] = Unset /\ attrs[a] # Unset =>
                            a \in state.droppedAttrs
    BY <1>7 DEF AttrsKnown
  <2>1. CASE a = pair[1]
    BY <1>1, <1>4, <1>5, <2>1 DEF AreaShown, AttrsKnown
  <2>2. CASE a # pair[1]
    <3>1. attrs[a] = server.attrs[a] BY <1>5, <2>2
    <3> QED BY <1>1, <3>1 DEF AreaShown, AttrsKnown
  <2> QED BY <2>1, <2>2
<1>12. AreaShown(state, w) BY <1>1, <1>7, <1>11 DEF AreaShown
<1>13. \A d \in calls \ {call} : AreaSent(d, state, w, calls')
  <2> SUFFICES ASSUME NEW d \in calls \ {call}
               PROVE  AreaSent(d, state, w, calls')
    OBVIOUS
  <2>1. AreaSent(d, state, server, calls) /\ d.what # "attributes" BY <1>1
  <2>2. call \in calls /\ call # d OBVIOUS
  <2>3. d.what \notin {"save", "delete"} BY <2>1, <2>2 DEF AreaSent
  <2> QED BY <2>1, <2>3 DEF AreaSent
<1>14. AreaCalls(calls') BY <1>1, <1>6, <1>8 DEF AreaCalls
<1>15. \A d, e \in calls' :
          (d.what = "attributes" <=> e.what = "attributes") => d = e
  BY <1>1, <1>6, <1>8
<1>16. RowsKnown(state, w)
  BY <1>1, <1>7, AnswerSees DEF RowsKnown
<1>17. \A d \in calls' : AreaSent(d, state, w, calls')
  BY <1>6, <1>10, <1>13
<1> QED BY <1>1, <1>6, <1>12, <1>14, <1>15, <1>16, <1>17 DEF AreaKept

(* All attributes are saved: the server has what the page shows.           *)
LEMMA AttributesAreSaved ==
    ASSUME AreaInv, AreaNow, NEW call \in calls, AttributesSaved(call)
    PROVE  AreaKept(state', server', calls')
<1>0. CASE call.refused
  <2>1. state' = state /\ server' = server /\ calls' = calls \ {call}
    BY <1>0 DEF AttributesSaved
  <2> QED BY <2>1, CallDropped
<1> SUFFICES ASSUME ~call.refused
             PROVE  AreaKept(state', server', calls')
  BY <1>0
<1> DEFINE t == [state EXCEPT !.changedAttrs = {}, !.droppedAttrs = {}]
<1>1. /\ call.what = "attributes" /\ call.todo = {} /\ server' = server
      /\ state' = t /\ calls' = calls \ {call}
      /\ AreaShown(state, server) /\ AreaCalls(calls)
      /\ state \in AreaStates
      /\ AreaSent(call, state, server, calls)
      /\ \A d \in calls : AreaSent(d, state, server, calls)
      /\ \A d \in calls \ {call} : d.what # "attributes"
      /\ \A d, e \in calls \ {call} : d = e
  BY AnswerSees DEF AttributesSaved, AreaTakes
<1>2. \A a \in Attributes : server.attrs[a] = state.attrs[a]
  BY <1>1 DEF AreaSent
<1>3. t \in AreaStates
  <2>1. {} \in SUBSET Attributes OBVIOUS
  <2> QED BY <1>1, <2>1 DEF AreaStates
<1>4. /\ t.items = state.items /\ t.heap = state.heap
      /\ t.dropped = state.dropped /\ t.attrs = state.attrs
      /\ t.changedAttrs = {} /\ t.droppedAttrs = {}
      /\ t.changed = state.changed
      /\ t.file = state.file /\ t.type = state.type
  BY <1>1 DEF AreaStates
<1> HIDE DEF t
<1>5. Marked(t) = Marked(state) BY <1>4 DEF Marked
<1>6. AttrsKnown(t, server) BY <1>2, <1>4 DEF AttrsKnown
<1>7. AreaShown(t, server) BY <1>1, <1>3, <1>4, <1>5, <1>6 DEF AreaShown
<1>8. \A d \in calls' : AreaSent(d, t, server, calls')
  <2> SUFFICES ASSUME NEW d \in calls \ {call}
               PROVE  AreaSent(d, t, server, calls')
    BY <1>1
  <2>1. AreaSent(d, state, server, calls) /\ d.what # "attributes" BY <1>1
  <2>2. d.what \notin {"save", "delete"} BY <2>1 DEF AreaSent
  <2>3. \A i : SpaceData(t, i) = SpaceData(state, i) BY <1>4 DEF SpaceData
  <2> QED BY <1>4, <1>5, <2>1, <2>2, <2>3 DEF AreaSent
<1>9. RowsKnown(t, server) BY <1>1, <1>4, AnswerSees, SameSpaces
<1>10. AreaCalls(calls') BY <1>1 DEF AreaCalls
<1> QED BY <1>1, <1>7, <1>8, <1>9, <1>10 DEF AreaKept

(* The spaces are loaded.                                                  *)
LEMMA SpacesAreLoaded ==
    ASSUME AreaInv, AreaNow, NEW call \in calls, SpacesLoaded(call)
    PROVE  AreaKept(state', server', calls')
<1> DEFINE items == Loaded(server.rows)
           heap == [o \in Ids |-> IF o \in DOMAIN items
                                  THEN server.rows[items[o].row].attr
                                  ELSE Unset]
           t == [state EXCEPT !.items = items, !.heap = heap]
           c == [call EXCEPT !.what = "rest"]
<1>1. /\ call.what = "load" /\ server' = server /\ state' = t
      /\ calls' = (calls \ {call}) \cup {c}
      /\ AreaShown(state, server) /\ AreaCalls(calls)
      /\ state \in AreaStates /\ server \in AreaServers
      /\ AreaSent(call, state, server, calls)
      /\ \A d \in calls : AreaSent(d, state, server, calls)
      /\ \A d \in calls \ {call} : d.what = "attributes"
      /\ \A d, e \in calls \ {call} : d = e
  BY AnswerSees DEF SpacesLoaded, AreaTakes
<1>2. /\ c.what = "rest" /\ c.form \in Int
      /\ c.type \in {"upload", "designed"} /\ c.scale \in 1 .. 2
      /\ {"what", "form", "type", "scale"} \subseteq DOMAIN c
  BY <1>1 DEF AreaCalls
<1>3. server.rows \in [Ids -> SpaceRows \cup {NoRow}] BY <1>1 DEF AreaServers
<1>4. /\ items \in Seq(AreaItems)
      /\ DOMAIN items \subseteq Ids
      /\ \A n \in DOMAIN items :
            /\ items[n].row \in Ids /\ server.rows[items[n].row] # NoRow
            /\ items[n].object = n /\ ~items[n].changed
            /\ items[n].place = server.rows[items[n].row].place
            /\ items[n].look = server.rows[items[n].row].look
      /\ \A m, n \in DOMAIN items : items[m].row = items[n].row => m = n
      /\ \A r \in Ids : server.rows[r] # NoRow =>
            \E n \in DOMAIN items : items[n].row = r
  BY <1>3, RowsLoaded
<1> HIDE DEF items
<1>5. /\ heap \in [Ids -> 0 .. 2]
      /\ \A n \in DOMAIN items :
            heap[n] = server.rows[items[n].row].attr
  <2>1. ASSUME NEW n \in DOMAIN items
        PROVE  server.rows[items[n].row].attr \in 0 .. 2
    <3>1. server.rows[items[n].row] \in SpaceRows BY <1>3, <1>4
    <3> QED BY <3>1 DEF SpaceRows
  <2> QED BY <1>4, <2>1 DEF Unset
<1> HIDE DEF heap
<1>6. t \in AreaStates BY <1>1, <1>4, <1>5 DEF AreaStates
<1>7. /\ t.items = items /\ t.heap = heap /\ t.dropped = state.dropped
      /\ t.attrs = state.attrs /\ t.changedAttrs = state.changedAttrs
      /\ t.droppedAttrs = state.droppedAttrs /\ t.changed = state.changed
  BY <1>1 DEF AreaStates
<1> HIDE DEF t, c
<1>8. /\ state.dropped = {} /\ state.changedAttrs = {}
      /\ state.droppedAttrs = {}
  BY <1>1 DEF AreaSent
<1>9. Marked(t) = {} BY <1>4, <1>7 DEF Marked
<1>10. RowsKnown(t, server)
  <2>1. ASSUME NEW n \in DOMAIN items
        PROVE  server.rows[items[n].row] = SpaceData(t, n)
    <3>1. server.rows[items[n].row] \in SpaceRows BY <1>3, <1>4
    <3>2. SpaceData(t, n) = Row(server.rows[items[n].row].place,
                                server.rows[items[n].row].look,
                                server.rows[items[n].row].attr)
      BY <1>4, <1>5, <1>7 DEF SpaceData
    <3> QED BY <3>1, <3>2 DEF Row, SpaceRows
  <2>2. \A n \in DOMAIN items : items[n].row # 0 BY <1>4 DEF Ids
  <2> QED BY <1>4, <1>7, <1>8, <2>1, <2>2 DEF RowsKnown
<1>11. AttrsKnown(t, server) BY <1>1, <1>7, SameAttrs DEF AreaShown
<1>12. AreaShown(t, server)
  BY <1>1, <1>6, <1>7, <1>8, <1>9, <1>11 DEF AreaShown
<1>13. AreaSent(c, t, server, calls')
  BY <1>2, <1>7, <1>8, <1>9 DEF AreaSent
<1>14. \A d \in calls \ {call} : AreaSent(d, t, server, calls')
  BY <1>1, <1>7, AttributesStay
<1>15. AreaCalls(calls') BY <1>1, <1>2 DEF AreaCalls
<1>16. \A d, e \in calls' :
          (d.what = "attributes" <=> e.what = "attributes") => d = e
  BY <1>1, <1>2
<1>17. \A d \in calls' : AreaSent(d, t, server, calls')
  BY <1>1, <1>13, <1>14
<1> QED BY <1>1, <1>10, <1>12, <1>15, <1>16, <1>17 DEF AreaKept

(* The rest of the area is loaded; no attribute was still to be saved.     *)
LEMMA AreaIsLoaded ==
    ASSUME AreaInv, AreaNow, NEW call \in calls, AreaLoaded(call)
    PROVE  AreaKept(state', server', calls')
<1> DEFINE design == IF call.type = "designed" THEN server.design ELSE 0
           t == [state EXCEPT !.form = call.form, !.type = call.type,
                              !.scale = call.scale,
                              !.scaleOnLoad = call.scale,
                              !.design = design, !.attrs = server.attrs,
                              !.loading = FALSE]
<1>1. /\ call.what = "rest" /\ server' = server /\ state' = t
      /\ calls' = calls \ {call}
      /\ AreaShown(state, server) /\ AreaCalls(calls)
      /\ RowsKnown(state, server)
      /\ state \in AreaStates /\ server \in AreaServers
      /\ AreaSent(call, state, server, calls)
      /\ \A d \in calls : AreaSent(d, state, server, calls)
      /\ \A d \in calls \ {call} : d.what = "attributes"
      /\ \A d, e \in calls \ {call} : d = e
  BY AnswerSees DEF AreaLoaded, AreaTakes
<1>2. /\ call.form \in Int /\ design \in Int
      /\ call.type \in {"upload", "designed"} /\ call.scale \in 1 .. 2
  BY <1>1 DEF AreaCalls, AreaServers
<1> HIDE DEF design
<1>3. t \in AreaStates
  <2> DEFINE u == [state EXCEPT !.form = call.form, !.type = call.type,
                                !.design = design]
             x == [u EXCEPT !.scale = call.scale, !.scaleOnLoad = call.scale]
  <2>1. u \in AreaStates BY <1>1, <1>2 DEF AreaStates
  <2>2. t = [x EXCEPT !.attrs = server.attrs, !.loading = FALSE] OBVIOUS
  <2>3. server.attrs \in [Attributes -> 0 .. 2] BY <1>1 DEF AreaServers
  <2> HIDE DEF t, u
  <2>4. x \in AreaStates BY <1>2, <2>1 DEF AreaStates
  <2> HIDE DEF x
  <2> QED BY <2>2, <2>3, <2>4 DEF AreaStates
<1>4. /\ t.items = state.items /\ t.heap = state.heap
      /\ t.dropped = state.dropped /\ t.attrs = server.attrs
      /\ t.changedAttrs = state.changedAttrs
      /\ t.droppedAttrs = state.droppedAttrs /\ t.changed = state.changed
  BY <1>1 DEF AreaStates
<1> HIDE DEF t
<1>5. state.changedAttrs = {} /\ state.droppedAttrs = {}
  BY <1>1 DEF AreaSent
<1>6. server.attrs = state.attrs
  <2>1. \A a \in Attributes : server.attrs[a] = state.attrs[a]
    BY <1>1, <1>5 DEF AreaShown, AttrsKnown
  <2>2. /\ server.attrs \in [Attributes -> 0 .. 2]
        /\ state.attrs \in [Attributes -> 0 .. 2]
    BY <1>1 DEF AreaServers, AreaStates
  <2> QED BY <2>1, <2>2
<1>7. AreaShown(t, server) /\ RowsKnown(t, server)
  BY <1>1, <1>3, <1>4, <1>6, FieldsEdited
<1>8. \A d \in calls' : AreaSent(d, t, server, calls')
  BY <1>1, <1>4, <1>6, AttributesStay
<1>9. AreaCalls(calls') BY <1>1 DEF AreaCalls
<1> QED BY <1>1, <1>7, <1>8, <1>9 DEF AreaKept

(* Every step of the page of an area keeps the invariant.                  *)
LEMMA AreaSteps ==
    ASSUME AreaInv, [AreaNext]_webVars
    PROVE  AreaInv'
<1>1. CASE page = "area" /\ AreaAdmin
  <2>1. /\ {"careful", "unstored"} \subseteq DOMAIN state'
        /\ state'.careful = state.careful /\ blocked' = blocked
        /\ ~state'.unstored => ~state.unstored
        /\ ~state.gone
    BY <1>1, CareStays
  <2>2. ASSUME AreaNow PROVE AreaKept(state', server', calls')
    <3>1. CASE \/ EditForm \/ ChooseFile \/ EditDesign
               \/ \E type \in {"upload", "designed"} : ChooseType(type)
               \/ \E i \in 0 .. Len(state.items) : SelectArea(i)
               \/ OpenDetails \/ CloseDetails
      BY <2>2, <3>1, FormEdited
    <3>2. CASE \/ \E a \in Attributes : DeleteAttribute(a)
               \/ \E a \in Attributes, value \in Values : SetAttribute(a, value)
      BY <2>2, <3>2, AttributeEdited
    <3>3. CASE GoBack \/ AskDelete \/ \E yes \in BOOLEAN : ConfirmDialog(yes)
      BY <2>2, <3>3, DialogAnswered
    <3>4. CASE SubmitArea BY <2>2, <3>4, AreaSubmitted
    <3>5. CASE \/ \E by \in {-1, 1} : MoveSpace(by)
               \/ EditSpace
               \/ \E value \in Values \cup {Unset} : EditSpaceAttribute(value)
      BY <2>2, <3>5, SpaceMoved
    <3>6. CASE AddSpace \/ CopySpace BY <2>2, <3>6, SpaceAdded
    <3>7. CASE DeleteSpace BY <2>2, <3>7, SpaceDeleted
    <3>8. CASE \E scale \in 1 .. 2 : SetMapScale(scale)
      BY <2>2, <3>8, PlanScaled
    <3> QED BY <1>1, <3>1, <3>2, <3>3, <3>4, <3>5, <3>6, <3>7, <3>8
            DEF AreaAdmin
  <2> QED BY <2>1, <2>2 DEF AreaInv, AreaNow
<1>2. CASE page = "area" /\ AreaAnswer
  <2>1. /\ {"careful", "unstored"} \subseteq DOMAIN state'
        /\ state'.careful = state.careful /\ blocked' = blocked
        /\ ~state'.unstored => ~state.unstored
        /\ ~state.gone
    BY <1>2, CareStays
  <2>2. PICK call \in calls :
        \/ AreaSaved(call) \/ SpacesSaved(call) \/ PlanSaved(call)
        \/ AttributeSaved(call) \/ AttributesSaved(call)
        \/ SpacesLoaded(call) \/ AreaLoaded(call) \/ AreaDeleted(call)
        \/ AreaCallRefused(call) \/ AttributeRefused(call)
    BY <1>2 DEF AreaAnswer
  <2>3. ASSUME AreaNow, ~AreaDeleted(call), ~state'.unstored
        PROVE  AreaKept(state', server', calls')
    BY <2>2, <2>3, AreaIsSaved, SpacesAreSaved, PlanIsSaved, AttributeIsSaved,
       AttributesAreSaved, SpacesAreLoaded, AreaIsLoaded, CallIsRefused,
       AttributeIsRefused
  <2>4. ASSUME AreaNow, AreaDeleted(call) PROVE state'.gone
    <3>1. state' = [state EXCEPT !.gone = TRUE] BY <2>4 DEF AreaDeleted
    <3>2. state \in AreaStates BY <2>4, AnswerSees
    <3> QED BY <3>1, <3>2 DEF AreaStates
  <2> QED BY <2>1, <2>3, <2>4 DEF AreaInv, AreaNow
<1>3. CASE AreaCallFails
  <2>1. blocked' /\ state' = state BY <1>3 DEF AreaCallFails, Blocks
  <2> QED BY <2>1 DEF AreaInv, AreaNow
<1>4. CASE UNCHANGED webVars
  BY <1>4 DEF webVars, AreaInv, AreaNow
<1> QED BY <1>1, <1>2, <1>3, <1>4 DEF AreaNext

(* For any floor plan, attributes and number of spaces, whatever the       *)
(* server has otherwise than the page of a careful admin is marked to be   *)
(* sent with the next save, and Back asks before spaces are lost, wherever *)
(* a chain of calls was when the page was left alone                       *)
(* (AreaEditor!NothingLost).                                               *)
THEOREM NothingIsLost == ClientSpec => []NothingLost
<1> DEFINE Inv == page = "area" => AreaInv
<1>1. ClientInit => Inv
  BY OnePage, AreaBegins
<1>2. Inv /\ [ClientNext]_webVars => Inv'
  <2> SUFFICES ASSUME Inv, [ClientNext]_webVars, page' = "area"
               PROVE  AreaInv'
    OBVIOUS
  <2>1. page = "area" /\ [AreaNext]_webVars
    BY OnePage
  <2> QED BY <2>1, AreaSteps
<1>3. Inv => NothingLost
  BY AreaIsEnough DEF NothingLost
<1> HIDE DEF Inv
<1> QED BY <1>1, <1>2, <1>3, PTL DEF ClientSpec
==============================================================================
