---------------------------- MODULE BookingDialog ---------------------------
(***************************************************************************)
(* The dialogues of the search page (ui/src/pages/search.tsx) that book a  *)
(* space or cancel a booking, for a selection that stays as it is: confirm *)
(* with the options of a series and their precheck, who has booked, cancel,*)
(* the calendar of a space, success, error and alert.  Each can be closed  *)
(* while its call is under way; the answer then meets another dialogue.    *)
(*                                                                         *)
(* A space is held by nobody, by the user with a booking or with one of a  *)
(* series, or by another.  The options of a series are how often it is     *)
(* repeated (0: never); what a precheck says depends on them alone.        *)
(***************************************************************************)
EXTENDS WebPage

CONSTANTS
    Spaces,
    NoSpace,
    Options,    \* ways to repeat a booking, none of them 0
    Fits,       \* Fits[o]: how many bookings of the series succeed
    MaxDialogClicks \* clicks on these dialogues (bound)

ASSUME SpacesAssumption == NoSpace \notin Spaces
ASSUME OptionsAssumption ==
    0 \notin Options /\ \A o \in Options : Fits[o] \in Nat

Holders == {"nobody", "me", "series", "other"}
Mine == {"me", "series"}

(* The dialogues in front, the last on top, each once at most; "recurring" *)
(* is a pane of "confirm".                                                 *)
Dialogs == {"confirm", "names", "cancel", "calendar", "success", "error",
            "alert"}

Top(d) == state.open # <<>> /\ state.open[Len(state.open)] = d
Open(d) == \E i \in DOMAIN state.open : state.open[i] = d
Without(d) ==
    IF ~Open(d) THEN state.open
    ELSE RemovedAt(state.open, CHOOSE i \in DOMAIN state.open : state.open[i] = d)
With(d) == Append(Without(d), d)

NoRecurrence == [option |-> 0, final |-> 0, checked |-> FALSE, errors |-> FALSE,
                 loading |-> FALSE]

(* Calls: each is made once at a time but the calendar's.                  *)
Call(what, space, option) == [what |-> what, space |-> space, option |-> option]
Busy == {"save", "series", "delete"}

DialogInit ==
    /\ page = "booking" /\ blocked = FALSE /\ clicks = 0 /\ calls = {}
    /\ server \in {h \in [Spaces -> Holders] : \E s \in Spaces : h[s] = "nobody"}
    /\ \E waits \in BOOLEAN :
          state = [rows |-> server, space |-> NoSpace, holder |-> "nobody",
                   open |-> <<>>,
                   recurring |-> FALSE, recurrence |-> NoRecurrence,
                   confirming |-> FALSE, cancelSeries |-> FALSE,
                   created |-> Call("none", NoSpace, 0),
                   returnTo |-> "names", calendar |-> NoSpace,
                   calendarLoading |-> FALSE, outdated |-> FALSE,
                   loading |-> FALSE,
                   buddies |-> {}, waits |-> waits]

-----------------------------------------------------------------------------
(* What the user does; waits: not before a spinner is gone, be it that of  *)
(* the page, of a button or of the calendar.                               *)
Spinning == state.loading \/ state.confirming \/ state.calendarLoading
                \/ state.recurrence.loading

DialogUser ==
    /\ Click("booking") /\ clicks < MaxDialogClicks
    /\ state.waits => ~Spinning
    /\ UNCHANGED server

(* onSpaceSelect: the map lies below the spinner of the page.              *)
SelectSpace(s) ==
    /\ DialogUser /\ state.open = <<>> /\ ~state.loading
    /\ state' =
         IF state.rows[s] = "nobody"
         THEN [state EXCEPT !.space = s, !.holder = "nobody",
                            !.open = <<"confirm">>,
                            !.cancelSeries = FALSE, !.recurring = FALSE,
                            !.recurrence = NoRecurrence]
         ELSE [state EXCEPT !.space = s, !.holder = state.rows[s],
                            !.open = <<"names">>]
    /\ UNCHANGED calls

HideConfirm ==
    /\ DialogUser /\ Top("confirm")
    /\ state' = [state EXCEPT !.open = Without("confirm"), !.recurring = FALSE]
    /\ UNCHANGED calls

ShowRecurring ==
    /\ DialogUser /\ Top("confirm") /\ ~state.recurring /\ ~state.confirming
    /\ state' = [state EXCEPT !.recurring = TRUE]
    /\ UNCHANGED calls

(* The mutated form of ChooseOption: the results of the precheck stay.     *)
ChooseOptionKeepsResult(o) ==
    /\ DialogUser /\ Top("confirm") /\ state.recurring
    /\ o # state.recurrence.option
    /\ state' = [state EXCEPT !.recurrence.option = o]
    /\ UNCHANGED calls

(* The options can be changed during a precheck; its results are dropped.  *)
(* How many bookings there will be is not.                                 *)
ChooseOption(o) ==
    /\ DialogUser /\ Top("confirm") /\ state.recurring
    /\ o # state.recurrence.option
    /\ state' = [state EXCEPT !.recurrence.option = o,
                              !.recurrence.checked = FALSE,
                              !.recurrence.errors = FALSE]
    /\ UNCHANGED calls

ResetRecurrence ==
    /\ DialogUser /\ Top("confirm") /\ state.recurring
    /\ ~state.recurrence.loading
    /\ state' = [state EXCEPT !.recurring = FALSE, !.recurrence = NoRecurrence]
    /\ UNCHANGED calls

(* applyRecurrence: precheck, unless the results are on display already.   *)
ApplyRecurrence ==
    LET required == state.recurrence.option # 0 /\ ~state.recurrence.checked IN
    /\ DialogUser /\ Top("confirm") /\ state.recurring
    /\ ~state.recurrence.loading
    /\ state' = [state EXCEPT !.recurrence.loading = required,
                              !.recurrence.checked = FALSE,
                              !.recurrence.errors = FALSE,
                              !.recurring = required]
    /\ calls' = IF required
                THEN calls \cup {Call("precheck", state.space,
                                      state.recurrence.option)}
                ELSE calls

(* onConfirmBooking: the button, or Enter in a field, which asks no more   *)
(* than that the button is not locked.  The fields of the options are in   *)
(* the same form, and on display once the booking is repeated: Enter there *)
(* books without a precheck.                                               *)
ConfirmBooking ==
    /\ DialogUser /\ Top("confirm") /\ ~state.confirming
    /\ state.space # NoSpace
    /\ state.recurring => state.recurrence.option # 0
    /\ state.recurrence.option # 0 => state.recurrence.final > 0
    /\ state' = [state EXCEPT !.confirming = TRUE]
    /\ calls' = calls \cup {Call("save", state.space, state.recurrence.option)}

(* The dialogue with the bookings of a space.                              *)
HideNames ==
    /\ DialogUser /\ Top("names")
    /\ state' = [state EXCEPT !.open = Without("names")]
    /\ UNCHANGED calls

TickSeries ==
    /\ DialogUser /\ Top("names") /\ state.holder = "series"
    /\ state' = [state EXCEPT !.cancelSeries = ~@]
    /\ UNCHANGED calls

AskCancel ==
    /\ DialogUser /\ Top("names") /\ state.holder \in Mine
    /\ ~state.confirming
    /\ state' = [state EXCEPT !.open = With("cancel")]
    /\ UNCHANGED calls

DenyCancel ==
    /\ DialogUser /\ Top("cancel")
    /\ state' = [state EXCEPT !.open = Without("cancel")]
    /\ UNCHANGED calls

(* The mutated form of CancelBooking: the buttons are not locked.          *)
CancelBookingUnlocked ==
    LET series == state.cancelSeries /\ state.holder = "series" IN
    /\ DialogUser /\ Top("cancel")
    /\ state' = [state EXCEPT !.open = Without("cancel")]
    /\ calls' = calls \cup {Call(IF series THEN "series" ELSE "delete",
                                 state.space, 0)}

(* cancelBooking, up to its first call.                                    *)
CancelBooking ==
    LET series == state.cancelSeries /\ state.holder = "series" IN
    /\ DialogUser /\ Top("cancel")
    /\ state' = [state EXCEPT !.open = Without("cancel"), !.confirming = TRUE]
    /\ calls' = calls \cup {Call(IF series THEN "series" ELSE "delete",
                                 state.space, 0)}

AddBuddy ==
    /\ DialogUser /\ Top("names") /\ state.holder = "other"
    /\ state.space \notin state.buddies
    /\ state' = [state EXCEPT !.open = Without("names"), !.loading = TRUE]
    /\ calls' = calls \cup {Call("buddy", state.space, 0)}

(* openSpaceCalendar                                                       *)
OpenCalendar(from) ==
    /\ DialogUser /\ Top(from) /\ state.space # NoSpace
    /\ from = "confirm" => ~state.recurring /\ ~state.confirming
    /\ state' = [state EXCEPT !.open = Append(Without(from), "calendar"),
                              !.returnTo = from, !.calendarLoading = TRUE]
    /\ calls' = calls \cup {Call("calendar", state.space, 0)}

(* Another week: the calendar is there only when it is not loading.        *)
NavigateCalendar ==
    /\ DialogUser /\ Top("calendar") /\ ~state.calendarLoading
    /\ state.space # NoSpace
    /\ state' = [state EXCEPT !.calendarLoading = TRUE]
    /\ calls' = calls \cup {Call("calendar", state.space, 0)}

CloseCalendar ==
    /\ DialogUser /\ Top("calendar")
    /\ state' = [state EXCEPT !.open = Append(Without("calendar"), state.returnTo)]
    /\ UNCHANGED calls

(* refreshPage                                                             *)
CloseSuccess ==
    /\ DialogUser /\ Top("success")
    /\ state' = [state EXCEPT !.open = Without("success"), !.loading = TRUE]
    /\ calls' = calls \cup {Call("refresh", NoSpace, 0)}

CloseError ==
    /\ DialogUser
    /\ \E d \in {"error", "alert"} :
          Top(d) /\ state' = [state EXCEPT !.open = Without(d)]
    /\ UNCHANGED calls

-----------------------------------------------------------------------------
(* Answers.                                                                *)
DialogTakes(call) == Goes("booking") /\ call \in calls

(* The precheck: with errors the pane stays open and asks again.           *)
Prechecked(call) ==
    LET errors == Fits[call.option] < 2 IN
    /\ DialogTakes(call) /\ call.what = "precheck"
    /\ state' = [state EXCEPT !.recurring = errors,
                              !.recurrence.loading = FALSE,
                              !.recurrence.final = Fits[call.option],
                              !.recurrence.checked = TRUE,
                              !.recurrence.errors = errors]
    /\ calls' = calls \ {call}
    /\ UNCHANGED server

(* The booking is made, unless the space has been taken meanwhile.         *)
Saved(call) ==
    /\ DialogTakes(call) /\ call.what = "save" /\ server[call.space] = "nobody"
    /\ server' = [server EXCEPT ![call.space] =
                     IF call.option = 0 THEN "me" ELSE "series"]
    /\ state' = [state EXCEPT !.confirming = FALSE, !.created = call,
                              !.open = Append(Without("confirm"), "success")]
    /\ calls' = calls \ {call}

SaveRefused(call) ==
    /\ DialogTakes(call) /\ call.what = "save"
    /\ state' = [state EXCEPT !.confirming = FALSE,
                              !.open = IF Open("error") THEN Without("confirm")
                                       ELSE Append(Without("confirm"), "error")]
    /\ calls' = calls \ {call}
    /\ UNCHANGED server

(* The series is read first, then deleted.                                 *)
SeriesRead(call) ==
    /\ DialogTakes(call) /\ call.what = "series"
    /\ calls' = (calls \ {call}) \cup {[call EXCEPT !.what = "delete", !.option = 1]}
    /\ UNCHANGED <<state, server>>

(* Deleted, or refused with a reason: in both cases the page is refreshed. *)
Cancelled(call) ==
    /\ DialogTakes(call) /\ call.what = "delete"
    /\ calls' = (calls \ {call}) \cup {Call("refresh", NoSpace, 0)}
    /\ \/ /\ server' = [server EXCEPT ![call.space] = "nobody"]
          /\ state' = [state EXCEPT !.space = NoSpace, !.holder = "nobody",
                                    !.confirming = FALSE, !.loading = TRUE,
                                    !.open = Without("names")]
       \/ /\ state' = [state EXCEPT !.space = NoSpace, !.holder = "nobody",
                                    !.confirming = FALSE, !.loading = TRUE,
                                    !.open = Append(Without("names"), "alert")]
          /\ UNCHANGED server

BuddyAdded(call) ==
    /\ DialogTakes(call) /\ call.what = "buddy"
    /\ state' = [state EXCEPT !.buddies = @ \cup {call.space}, !.loading = FALSE]
    /\ calls' = calls \ {call}
    /\ UNCHANGED server

(* onAddBuddy's catch: an error with a code.                               *)
BuddyRefused(call) ==
    /\ DialogTakes(call) /\ call.what = "buddy"
    /\ state' = [state EXCEPT !.loading = FALSE, !.open = With("error")]
    /\ calls' = calls \ {call}
    /\ UNCHANGED server

CalendarLoaded(call) ==
    /\ DialogTakes(call) /\ call.what = "calendar"
    /\ state' = [state EXCEPT !.calendar = call.space, !.outdated = FALSE,
                              !.calendarLoading = FALSE]
    /\ calls' = calls \ {call}
    /\ UNCHANGED server

(* The catch of the load, for an answer cut off or with a code, tells      *)
(* nobody: the bookings shown before stay.                                 *)
CalendarFails(call) ==
    /\ DialogTakes(call) /\ call.what = "calendar"
    /\ state' = [state EXCEPT !.outdated = TRUE, !.calendarLoading = FALSE]
    /\ calls' = calls \ {call}
    /\ UNCHANGED server

Refreshed(call) ==
    /\ DialogTakes(call) /\ call.what = "refresh"
    /\ state' = [state EXCEPT !.rows = server, !.loading = FALSE]
    /\ calls' = calls \ {call}
    /\ UNCHANGED server

CallFails ==
    /\ Blocks("booking") /\ calls # {}
    /\ calls' = {}
    /\ UNCHANGED server

(* Another user books.                                                     *)
SpaceTaken(s) ==
    /\ page = "booking" /\ server[s] = "nobody" /\ clicks > 0
    /\ server' = [server EXCEPT ![s] = "other"]
    /\ UNCHANGED <<page, state, calls, blocked, clicks>>

DialogAnswer ==
    \E call \in calls :
        \/ Prechecked(call) \/ Saved(call) \/ SaveRefused(call)
        \/ SeriesRead(call) \/ Cancelled(call)
        \/ BuddyAdded(call) \/ BuddyRefused(call)
        \/ CalendarLoaded(call) \/ CalendarFails(call) \/ Refreshed(call)

DialogNext ==
    /\ page = "booking"
    /\ \/ \E s \in Spaces : SelectSpace(s) \/ SpaceTaken(s)
       \/ HideConfirm \/ ShowRecurring \/ ResetRecurrence \/ ApplyRecurrence
       \/ \E o \in Options \cup {0} : ChooseOption(o)
       \/ ConfirmBooking
       \/ HideNames \/ TickSeries \/ AskCancel \/ DenyCancel \/ CancelBooking
       \/ AddBuddy
       \/ \E d \in {"confirm", "names"} : OpenCalendar(d)
       \/ NavigateCalendar \/ CloseCalendar \/ CloseSuccess \/ CloseError
       \/ DialogAnswer \/ CallFails

DialogSpec == DialogInit /\ [][DialogNext]_webVars

-----------------------------------------------------------------------------
(* The buttons that book and cancel are locked exactly as long as such a   *)
(* call is under way, whatever dialogue is opened or closed meanwhile:     *)
(* there are never two of them, and none leaves the buttons locked.        *)
OneAtATime ==
    page = "booking" /\ ~blocked =>
        LET busy == {call \in calls : call.what \in Busy} IN
        /\ state.confirming <=> busy # {}
        /\ Cardinality(busy) <= 1

(* For a user who waits for its spinners the page says what happens: the   *)
(* number of bookings on the button is that of the options to be sent, the *)
(* success (and the calendar file it offers) is of the booking just made,  *)
(* the calendar is that of the space unless its load failed (outdated, a   *)
(* note of the model: the page keeps what it showed before).  One who does *)
(* not wait can be told of another: all of them are written when the       *)
(* answer comes.                                                           *)
SaysWhatHappens ==
    page = "booking" /\ state.waits /\ ~blocked =>
        /\ Top("confirm") /\ ~state.recurring /\ state.recurrence.option # 0
              /\ state.recurrence.final > 0
           => state.recurrence.final = Fits[state.recurrence.option]
        /\ Top("success") => /\ state.created.space = state.space
                             /\ state.created.option = state.recurrence.option
        /\ Top("calendar") /\ ~state.calendarLoading /\ ~state.outdated
           => state.calendar = state.space
=============================================================================
