----------------------------- MODULE Preferences -----------------------------
(***************************************************************************)
(* The page with a user's preferences (ui/src/pages/preferences.tsx): the  *)
(* forms of its tabs, which share one flag for a call under way, and the   *)
(* calendar of another service (CalDAV) that bookings are written to.  The *)
(* server stores the preferences of a form one after the other (setAll in  *)
(* server/router/user-preferences-router.go).  The second factors and the  *)
(* sessions of the security tab are left out.                              *)
(***************************************************************************)
EXTENDS WebPage

CONSTANTS
    CalendarsOf,    \* CalendarsOf[a]: how many calendars account a has
    LastSlot,       \* the last time of a day
    SlotHour,           \* how many slots an hour has
    MaxChanges,     \* clicks on this page (bound)
    HastyChanges    \* those of a user who does not wait (bound)

ASSUME CalendarsAssumption == \A a \in DOMAIN CalendarsOf :
                                  a # 0 /\ CalendarsOf[a] \in Nat
ASSUME SlotAssumption == SlotHour \in 1 .. LastSlot /\ LastSlot \in Nat

(* An account is its URL, user and password together; 0: left empty.       *)
CalAccounts == DOMAIN CalendarsOf
Calendar(account, nr) == [of |-> account, nr |-> nr]
NoCalendar == Calendar(0, 0)

Tabs == {"booking", "style", "security", "integration"}
Workdays == {d \in [start : 0 .. LastSlot, end : 0 .. LastSlot] :
            d.end >= d.start + SlotHour}

(* What the user has stored before; waits: touches nothing while the       *)
(* buttons are locked.                                                     *)
PrefInit ==
    /\ page = "preferences" /\ blocked = FALSE /\ clicks = 0
    /\ \E day \in Workdays, tab \in Tabs, waits \in BOOLEAN,
          calendar \in {NoCalendar} \cup {Calendar(a, 1) : a \in CalAccounts} :
          /\ server = [day |-> day, rest |-> 0, colours |-> 0, password |-> FALSE,
                       account |-> calendar.of, calendar |-> calendar]
          /\ state = [day |-> day, rest |-> 0, colours |-> 0,
                      tick |-> FALSE, account |-> 0, calendar |-> NoCalendar,
                      listed |-> 0, listLoaded |-> FALSE,
                      tab |-> tab, submitting |-> FALSE, hint |-> "none",
                      modal |-> "none", loading |-> TRUE, waits |-> waits]
    /\ calls = {[what |-> "load"]}

(* componentDidMount, loadPreferences: unless nothing is stored.           *)
PrefLoaded ==
    /\ Goes("preferences") /\ [what |-> "load"] \in calls
    /\ state' = [state EXCEPT !.day = server.day, !.rest = server.rest,
                              !.colours = server.colours,
                              !.account = server.account,
                              !.calendar = server.calendar,
                              !.loading = FALSE]
    /\ calls' = {} /\ UNCHANGED server

-----------------------------------------------------------------------------
(* What the user does.                                                     *)
Changer(tab) ==
    /\ Click("preferences") /\ clicks < MaxChanges
    /\ ~state.loading /\ state.modal = "none"
    /\ tab # "any" => state.tab = tab
    /\ IF state.waits THEN ~state.submitting ELSE clicks < HastyChanges
    /\ UNCHANGED server

PrefEdit(tab, next) == Changer(tab) /\ state' = next /\ UNCHANGED calls

SelectTab(tab) ==
    /\ tab # state.tab
    /\ PrefEdit("any", [state EXCEPT !.tab = tab,
                                     !.hint = IF @ = "caldav" THEN @ ELSE "none"])

(* The working hours: an hour at least, to which the other end gives way.  *)
(* The picker offers no start in the last hour of the day.                 *)
PickWorkdayStart(start) ==
    /\ start <= LastSlot - SlotHour
    /\ PrefEdit("booking", [state EXCEPT !.day.start = start,
            !.day.end = IF @ >= start + SlotHour THEN @ ELSE start + SlotHour])

PickWorkdayEnd(end) ==
    /\ end >= state.day.start + SlotHour
    /\ PrefEdit("booking", [state EXCEPT !.day.end = end])

(* The other fields of the form: days, formats, mails, favourite area.     *)
EditBookingForm == PrefEdit("booking", [state EXCEPT !.rest = 1 - @])

EditColours == PrefEdit("style", [state EXCEPT !.colours = 1 - @])

TickPassword == PrefEdit("security", [state EXCEPT !.tick = ~@])

(* The mutated form of EditAccount: the calendars stay on offer.           *)
EditAccountOnly(account) ==
    /\ account # state.account
    /\ PrefEdit("integration", [state EXCEPT !.account = account])

(* The fields of the account; the calendars listed are those of another    *)
(* one now.                                                                *)
EditAccount(account) ==
    /\ account # state.account
    /\ PrefEdit("integration", [state EXCEPT !.account = account,
                                             !.listLoaded = FALSE])

ChooseCalendar(nr) ==
    /\ state.listLoaded
    /\ nr # state.calendar.nr
    /\ PrefEdit("integration",
                [state EXCEPT !.calendar = Calendar(state.listed, nr)])

(* The button of a form sends what the form shows.                         *)
Submits(tab, call, next) ==
    /\ Changer(tab) /\ ~state.submitting
    /\ state' = [next EXCEPT !.submitting = TRUE, !.hint = "none"]
    /\ calls' = calls \cup {call}

SubmitBookings ==
    Submits("booking",
            [what |-> "bookings", day |-> state.day, rest |-> state.rest], state)

SubmitColours ==
    Submits("style", [what |-> "colours", colours |-> state.colours], state)

SubmitSecurity ==
    state.tick /\ Submits("security", [what |-> "password"], state)

ConnectCalDav ==
    /\ state.account # 0
    /\ Submits("integration", [what |-> "list", account |-> state.account],
               [state EXCEPT !.listLoaded = FALSE])

(* Disconnecting stores empty fields.                                      *)
StoreCalDav(account, calendar, forget) ==
    [what |-> "caldav", account |-> account, calendar |-> calendar,
     forget |-> forget, stored |-> 0]

DisconnectCalDav ==
    /\ state.account # 0 /\ state.calendar # NoCalendar
    /\ Submits("integration", StoreCalDav(0, NoCalendar, TRUE),
               [state EXCEPT !.listLoaded = FALSE])

SaveCalDav ==
    /\ state.listLoaded /\ state.calendar # NoCalendar
    /\ Submits("integration", StoreCalDav(state.account, state.calendar, FALSE), state)

-----------------------------------------------------------------------------
(* Answers.                                                                *)
PrefTakes(call, what) ==
    Goes("preferences") /\ call.what = what /\ calls' = calls \ {call}

(* The page has to be loaded again to show what has been stored.           *)
BookingsStored(call) ==
    /\ PrefTakes(call, "bookings")
    /\ server' = [server EXCEPT !.day = call.day, !.rest = call.rest]
    /\ state' = [state EXCEPT !.submitting = FALSE, !.modal = "bookings"]

ColoursStored(call) ==
    /\ PrefTakes(call, "colours")
    /\ server' = [server EXCEPT !.colours = call.colours]
    /\ state' = [state EXCEPT !.submitting = FALSE, !.modal = "colours"]

PasswordStored(call) ==
    /\ PrefTakes(call, "password")
    /\ server' = [server EXCEPT !.password = TRUE]
    /\ state' = [state EXCEPT !.submitting = FALSE, !.modal = "password"]

(* The first of the calendars is chosen, whichever was before.             *)
CalendarsListed(call) ==
    /\ PrefTakes(call, "list")
    /\ state' = [state EXCEPT !.submitting = FALSE, !.listLoaded = TRUE,
            !.listed = call.account,
            !.calendar = IF CalendarsOf[call.account] = 0 THEN NoCalendar
                         ELSE Calendar(call.account, 1)]
    /\ UNCHANGED server

(* setAll, item by item: the account, then the calendar.                   *)
CalDavItemStored(call) ==
    /\ Goes("preferences") /\ call.what = "caldav" /\ call.stored < 2
    /\ server' = IF call.stored = 0
                 THEN [server EXCEPT !.account = call.account]
                 ELSE [server EXCEPT !.calendar = call.calendar]
    /\ calls' = (calls \ {call}) \cup {[call EXCEPT !.stored = @ + 1]}
    /\ UNCHANGED state

CalDavStored(call) ==
    LET s == [state EXCEPT !.submitting = FALSE, !.hint = "saved"] IN
    /\ PrefTakes(call, "caldav") /\ call.stored = 2
    /\ state' = IF ~call.forget THEN s
                ELSE [s EXCEPT !.account = 0, !.calendar = NoCalendar,
                               !.listed = 0]
    /\ UNCHANGED server

(* Errors come without application codes, so that those handlers never run *)
(* that would show a hint: Ajax.query has its dialogue.                    *)
PrefCallFails ==
    Blocks("preferences") /\ calls # {} /\ calls' = {} /\ UNCHANGED server

PrefNext ==
    /\ page = "preferences"
    /\ \/ PrefLoaded
       \/ \E tab \in Tabs : SelectTab(tab)
       \/ \E t \in 0 .. LastSlot : PickWorkdayStart(t) \/ PickWorkdayEnd(t)
       \/ EditBookingForm \/ EditColours \/ TickPassword
       \/ \E account \in CalAccounts \cup {0} : EditAccount(account)
       \/ /\ state.listed # 0
          /\ \E nr \in 1 .. CalendarsOf[state.listed] : ChooseCalendar(nr)
       \/ SubmitBookings \/ SubmitColours \/ SubmitSecurity
       \/ ConnectCalDav \/ DisconnectCalDav \/ SaveCalDav
       \/ \E call \in calls :
            \/ BookingsStored(call) \/ ColoursStored(call) \/ PasswordStored(call)
            \/ CalendarsListed(call) \/ CalDavItemStored(call) \/ CalDavStored(call)
       \/ PrefCallFails

PrefSpec == PrefInit /\ [][PrefNext]_webVars

-----------------------------------------------------------------------------
(* For a user who waits, bookings are written to a calendar of the account *)
(* they are written with, however often fields are edited, accounts        *)
(* connected and disconnected; and when the page asks to be loaded again,  *)
(* what it shows is what has been stored.  (A user who edits the account   *)
(* while its calendars are being listed can store a calendar of another.)  *)
PreferencesKept ==
    page = "preferences" /\ state.waits /\ ~blocked =>
        /\ ~state.submitting => server.calendar.of = server.account
        /\ state.modal = "bookings" =>
              server.day = state.day /\ server.rest = state.rest
        /\ state.modal = "colours" => server.colours = state.colours
=============================================================================
