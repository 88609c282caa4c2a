---------------------------- MODULE SettingsPage -----------------------------
(***************************************************************************)
(* The page on which an admin changes the settings of the organization,    *)
(* its domains and the secret of the kiosk mode                            *)
(* (ui/src/pages/admin/settings/index.tsx).  The settings are sent         *)
(* together and stored one after the other (setAll in                      *)
(* server/router/settings-router.go); the domains are changed one by one   *)
(* (server/router/organization-router.go) and read again after each        *)
(* change.  Of the settings that are a plain field the model keeps none;   *)
(* it keeps the limit of concurrent bookings, which may be "unlimited" or  *)
(* an emptied field, and the durations, which are stored in hours and may  *)
(* be shown in days.                                                       *)
(***************************************************************************)
EXTENDS WebPage

CONSTANTS
    DomainNames,       \* numbers, for the alphabet they are listed in
    DayHours,          \* the hours of a day
    Lengths,           \* what is typed as a duration
    MaxSettingsEdits,  \* clicks on this page (bound)
    HastySettingsEdits \* those of an admin who is not careful (bound)

ASSUME SettingsAssumption ==
    DomainNames \subseteq Nat /\ DayHours \in Nat \ {0} /\ Lengths \subseteq Nat

Unlimited == 0
NotANumber == -1    \* what parseInt says of an emptied field

NoSecret == 0
Placeholder == -1   \* shown instead of a secret that is stored
OldSecret == -2     \* the one stored before the visit

NoDomain == [there |-> FALSE, active |-> FALSE, primary |-> FALSE]

NoDomains == [d \in DomainNames |-> NoDomain]

Present(domains) == {d \in DomainNames : domains[d].there}

(* An organization has at least one domain, of which those that are not    *)
(* active were added here; signup is the one it was founded with, if any,  *)
(* and cannot be removed.                                                  *)
FirstDomains == [d \in DomainNames |->
                    IF d = 1 THEN [there |-> TRUE, active |-> TRUE, primary |-> TRUE]
                    ELSE NoDomain]

(* What the page loads at once; the rest are the providers, the time zones *)
(* and the newest version.                                                 *)
Loads == {"settings", "domains", "rest"}

LoadCall(part) == [what |-> "load", part |-> part]

(* careful: waits for the answer of every click; undone: see               *)
(* SettingsLoaded.                                                         *)
SettingsInit ==
    /\ page = "settings" /\ blocked = FALSE /\ clicks = 0
    /\ \E daily, super, careful \in BOOLEAN, concurrent \in {Unlimited, 2},
          signup \in {0, 1}, secret \in {NoSecret, OldSecret} :
          /\ server = [daily |-> daily, concurrent |-> concurrent,
                       max |-> DayHours + 1, min |-> 1, secret |-> secret,
                       domains |-> FirstDomains, super |-> super]
          /\ state = [daily |-> FALSE, concurrent |-> Unlimited, last |-> 1,
                      max |-> 0, min |-> 0, secret |-> NoSecret,
                      generated |-> NoSecret, domains |-> NoDomains, undone |-> FALSE,
                      newDomain |-> 0, ask |-> "none", asked |-> 0,
                      alert |-> FALSE, saved |-> FALSE, gone |-> FALSE,
                      loading |-> TRUE, signup |-> signup, careful |-> careful]
    /\ calls = {LoadCall(part) : part \in Loads}

(* The page keeps durations in the unit it shows, the model in hours.      *)
Unit(daily) == IF daily THEN DayHours ELSE 1

RoundTo(unit, hours) == unit * ((2 * hours + unit) \div (2 * unit))

ShownMin(daily, hours) == RoundTo(Unit(daily), hours)

ShownMax(daily, hours) ==
    LET rounded == RoundTo(Unit(daily), hours) IN
    IF rounded < Unit(daily) THEN Unit(daily) ELSE rounded

(* An answer to one of the loads; the spinner ends with the last.          *)
Arrives(part, next) ==
    /\ Goes("settings") /\ LoadCall(part) \in calls
    /\ calls' = calls \ {LoadCall(part)}
    /\ state' = [next EXCEPT !.loading = calls' # {}]
    /\ UNCHANGED server

(* loadSettings writes all of this.state back, and so undoes the answer    *)
(* with the domains when that has come and is not yet rendered.            *)
SettingsLoaded(undoes) ==
    /\ undoes => LoadCall("domains") \notin calls
    /\ Arrives("settings",
               [state EXCEPT
                  !.daily = server.daily, !.concurrent = server.concurrent,
                  !.last = IF server.concurrent > 0 THEN server.concurrent ELSE @,
                  !.max = server.max, !.min = server.min,
                  !.secret = IF server.secret = NoSecret THEN NoSecret
                             ELSE Placeholder,
                  !.domains = IF undoes THEN NoDomains ELSE @,
                  !.undone = undoes])

DomainsLoaded ==
    Arrives("domains", [state EXCEPT !.domains = server.domains])

OthersLoaded == Arrives("rest", state)

-----------------------------------------------------------------------------
(* What the admin does.  A question, an alert and the note that a reload   *)
(* is needed are in front of the form.                                     *)
SettingsAdmin ==
    /\ Click("settings") /\ clicks < MaxSettingsEdits
    /\ ~state.loading /\ ~state.saved /\ ~state.gone
    /\ IF state.careful THEN calls = {} ELSE clicks < HastySettingsEdits
    /\ UNCHANGED server

OnSettings(next) ==
    /\ SettingsAdmin /\ state.ask = "none" /\ ~state.alert
    /\ state' = next /\ UNCHANGED calls

OnSettingsCall(call) ==
    /\ SettingsAdmin /\ state.ask = "none" /\ ~state.alert
    /\ calls' = calls \cup {call} /\ UNCHANGED state

(* The box next to the limit brings the last one back.                     *)
TickUnlimited ==
    OnSettings(IF state.concurrent = Unlimited
           THEN [state EXCEPT !.concurrent = state.last]
           ELSE [state EXCEPT !.concurrent = Unlimited,
                              !.last = IF state.concurrent > 0
                                       THEN state.concurrent ELSE @])

TypeConcurrent(n) ==
    /\ state.concurrent # Unlimited
    /\ OnSettings([state EXCEPT !.concurrent = n, !.last = IF n > 0 THEN n ELSE @])

TypeMaxDuration(n) == OnSettings([state EXCEPT !.max = n * Unit(state.daily)])
TypeMinDuration(n) == OnSettings([state EXCEPT !.min = n * Unit(state.daily)])

(* onDailyBasisBookingChange converts what was typed or loaded exactly.    *)
ToggleDaily == OnSettings([state EXCEPT !.daily = ~@])

(* generateKioskSecret and saveKioskSecret.                                *)
GenerateSecret ==
    OnSettings([state EXCEPT !.secret = clicks + 1, !.generated = clicks + 1])

(* The mutated form of SaveSecret: the button is not locked afterwards.    *)
SaveSecretAgain ==
    /\ state.secret # NoSecret
    /\ OnSettingsCall([what |-> "secret", secret |-> state.secret, n |-> clicks])

SaveSecret ==
    /\ state.secret \notin {NoSecret, Placeholder}
    /\ OnSettingsCall([what |-> "secret", secret |-> state.secret, n |-> clicks])

(* The browser lets an emptied limit pass, for the field is not required.  *)
SubmitSettings ==
    OnSettingsCall([what |-> "save", n |-> clicks, daily |-> state.daily,
                 concurrent |-> state.concurrent,
                 max |-> ShownMax(state.daily, state.max),
                 min |-> ShownMin(state.daily, state.min)])

TypeDomain(d) == d # state.newDomain /\ OnSettings([state EXCEPT !.newDomain = d])

AddDomain ==
    /\ state.newDomain # 0
    /\ OnSettingsCall([what |-> "add", domain |-> state.newDomain, n |-> clicks])

MakePrimary(d) ==
    /\ state.domains[d].active /\ ~state.domains[d].primary
    /\ OnSettingsCall([what |-> "primary", domain |-> d, n |-> clicks])

(* Questions are asked before a domain is removed or verified and, twice,  *)
(* before the organization is deleted.                                     *)
AskDomain(what, d) ==
    /\ state.domains[d].there
    /\ CASE what = "remove" -> d # state.signup /\ Cardinality(Present(state.domains)) > 1
         [] what = "verify" -> ~state.domains[d].active
    /\ OnSettings([state EXCEPT !.ask = what, !.asked = d])

AskDeleteOrg == OnSettings([state EXCEPT !.ask = "deleteOrg"])

AnswerQuestion(yes) ==
    LET ask == state.ask IN
    /\ SettingsAdmin /\ ask # "none" /\ ~state.alert
    /\ state' = [state EXCEPT !.ask = IF ask = "deleteOrg" /\ yes
                                      THEN "deleteOrgAgain" ELSE "none"]
    /\ calls' = CASE ~yes \/ ask = "deleteOrg" -> calls
                  [] yes /\ ask = "deleteOrgAgain" ->
                        calls \cup {[what |-> "deleteOrg", n |-> clicks]}
                  [] yes /\ ask \in {"remove", "verify"} ->
                        IF ~state.domains[state.asked].there THEN calls
                        ELSE calls \cup {[what |-> ask, domain |-> state.asked,
                                          n |-> clicks]}

CloseAlert ==
    /\ SettingsAdmin /\ state.alert
    /\ state' = [state EXCEPT !.alert = FALSE] /\ UNCHANGED calls

(* A row of the providers is a link to the page of the provider.           *)
ChooseAuthProvider == OnSettings([state EXCEPT !.gone = TRUE])

-----------------------------------------------------------------------------
(* The domains on the server.                                              *)
SetPrimaryDomain(domains, d) ==
    [e \in DomainNames |-> [domains[e] EXCEPT !.primary = e = d]]

(* The first active domain in alphabetical order, unless one is primary.   *)
ensureOrgHasPrimaryDomain(domains, favourite) ==
    LET active == {d \in Present(domains) : domains[d].active} IN
    CASE \E d \in Present(domains) : domains[d].primary -> domains
      [] (\A d \in Present(domains) : ~domains[d].primary) /\ favourite # 0 ->
            SetPrimaryDomain(domains, favourite)
      [] OTHER ->
            IF active = {} THEN domains
            ELSE SetPrimaryDomain(domains, CHOOSE d \in active :
                                               \A e \in active : d <= e)

(* addDomain: a super admin's domain needs no verification.                *)
DomainAdded(domains, d, super) ==
    ensureOrgHasPrimaryDomain(
        [domains EXCEPT ![d] = [there |-> TRUE, active |-> super, primary |-> FALSE]],
        d)

DomainRemoved(domains, d) ==
    ensureOrgHasPrimaryDomain([domains EXCEPT ![d] = NoDomain], 0)

-----------------------------------------------------------------------------
(* Answers.                                                                *)
SettingsTakes(call, what) ==
    Goes("settings") /\ call.what = what /\ ~state.gone

(* After a change the page asks for the list.                              *)
Lists(call) == calls' = (calls \ {call}) \cup {[what |-> "list", from |-> call]}

DomainChanged(call) ==
    LET domains == server.domains IN
    /\ Goes("settings") /\ ~state.gone
    /\ \/ /\ call.what = "add" /\ ~domains[call.domain].there
          /\ server' = [server EXCEPT
                          !.domains = DomainAdded(@, call.domain, server.super)]
       \/ /\ call.what = "verify" /\ domains[call.domain].there
          /\ server' = [server EXCEPT !.domains[call.domain].active = TRUE]
       \/ /\ call.what = "primary" /\ domains[call.domain].active
          /\ server' = [server EXCEPT !.domains = SetPrimaryDomain(@, call.domain)]
       \/ /\ call.what = "remove" /\ Cardinality(Present(domains)) > 1
          /\ server' = [server EXCEPT !.domains = DomainRemoved(@, call.domain)]
    /\ Lists(call) /\ UNCHANGED state

(* The record that proves the domain is not found: the page expects this   *)
(* error, and no other.                                                    *)
VerifyFails(call) ==
    /\ SettingsTakes(call, "verify") /\ ~server.domains[call.domain].active
    /\ state' = [state EXCEPT !.alert = TRUE]
    /\ calls' = calls \ {call} /\ UNCHANGED server

DomainsRead(call) ==
    /\ SettingsTakes(call, "list")
    /\ calls' = (calls \ {call}) \cup {[what |-> "listed", from |-> call.from,
                                       domains |-> server.domains]}
    /\ UNCHANGED <<state, server>>

DomainsListed(call) ==
    /\ SettingsTakes(call, "listed")
    /\ state' = [state EXCEPT !.domains = call.domains, !.undone = FALSE,
                              !.newDomain = IF call.from.what = "add" THEN 0 ELSE @]
    /\ calls' = calls \ {call} /\ UNCHANGED server

SecretSaved(call) ==
    /\ SettingsTakes(call, "secret")
    /\ server' = [server EXCEPT !.secret = call.secret]
    /\ state' = [state EXCEPT !.secret = Placeholder]
    /\ calls' = calls \ {call}

OrgDeletionMailed(call) ==
    /\ SettingsTakes(call, "deleteOrg")
    /\ state' = [state EXCEPT !.alert = TRUE]
    /\ calls' = calls \ {call} /\ UNCHANGED server

SettingsSaved(call) ==
    /\ SettingsTakes(call, "save") /\ call.concurrent # NotANumber
    /\ server' = [server EXCEPT !.daily = call.daily, !.concurrent = call.concurrent,
                                !.max = call.max, !.min = call.min]
    /\ state' = [state EXCEPT !.saved = TRUE]
    /\ calls' = calls \ {call}

(* setAll stops at the first setting that is not a number, is out of its   *)
(* range (days are sent as hours, which the browser does not check) or     *)
(* cannot be stored; those before it are stored.                           *)
SettingsRefused(call) ==
    /\ Blocks("settings") /\ call.what = "save"
    /\ \E n \in 0 .. 4 :
          /\ call.concurrent = NotANumber => n <= 1
          /\ server' = [server EXCEPT
                          !.daily = IF n >= 1 THEN call.daily ELSE @,
                          !.concurrent = IF n >= 2 THEN call.concurrent ELSE @,
                          !.max = IF n >= 3 THEN call.max ELSE @,
                          !.min = IF n >= 4 THEN call.min ELSE @]
    /\ calls' = {}

SettingsCallFails ==
    Blocks("settings") /\ calls # {} /\ calls' = {} /\ UNCHANGED server

SettingsNext ==
    /\ page = "settings"
    /\ \/ \E undoes \in BOOLEAN : SettingsLoaded(undoes)
       \/ DomainsLoaded \/ OthersLoaded \/ TickUnlimited \/ ToggleDaily \/ GenerateSecret
       \/ \E n \in {NotANumber, Unlimited, 2} : TypeConcurrent(n)
       \/ \E n \in Lengths : TypeMaxDuration(n) \/ TypeMinDuration(n)
       \/ SaveSecret \/ SubmitSettings \/ AddDomain \/ AskDeleteOrg
       \/ \E d \in DomainNames : \/ TypeDomain(d) \/ MakePrimary(d)
                                 \/ \E what \in {"remove", "verify"} :
                                       AskDomain(what, d)
       \/ \E yes \in BOOLEAN : AnswerQuestion(yes)
       \/ CloseAlert \/ ChooseAuthProvider
       \/ \E call \in calls :
             \/ DomainChanged(call) \/ VerifyFails(call) \/ DomainsRead(call)
             \/ DomainsListed(call) \/ SecretSaved(call) \/ OrgDeletionMailed(call)
             \/ SettingsSaved(call) \/ SettingsRefused(call)
       \/ SettingsCallFails

SettingsSpec == SettingsInit /\ [][SettingsNext]_webVars

-----------------------------------------------------------------------------
(* For a careful admin the domains are those of the server, unless the     *)
(* settings undid the first answer with them and no other has come; the    *)
(* placeholder stands for the secret that was generated last and copied to *)
(* the kiosks; and when the page says that the settings were saved, the    *)
(* reload it asks for shows the limit and the durations that were shown.   *)
SettingsAsShown ==
    page = "settings" /\ state.careful /\ calls = {} /\ ~blocked /\ ~state.loading
    =>
    /\ ~state.undone => state.domains = server.domains
    /\ state.secret = Placeholder /\ state.generated # NoSecret
       => server.secret = state.generated
    /\ state.saved =>
          /\ server.daily = state.daily /\ server.concurrent = state.concurrent
          /\ ShownMax(server.daily, server.max) = ShownMax(state.daily, state.max)
          /\ ShownMin(server.daily, server.min) = ShownMin(state.daily, state.min)
=============================================================================
