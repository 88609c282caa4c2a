---------------------------- MODULE BookingEditor ----------------------------
(***************************************************************************)
(* The page on which an admin makes or changes the booking of a user       *)
(* (ui/src/pages/admin/bookings/[id].tsx).  A change of the times is       *)
(* applied a second after the last one, whichever end it was; then, and    *)
(* when another area is chosen, the spaces are listed anew.                *)
(*                                                                         *)
(* Times are numbers of slots since midnight; a space is a pair of its     *)
(* area and a number.                                                      *)
(***************************************************************************)
EXTENDS WebPage

CONSTANTS
    Locations,
    NoLocation,
    SpacesEach,         \* spaces of an area
    DaySlots,           \* slots of a day
    Times,              \* what the admin picks
    Now,
    MinLength,          \* of a booking
    MaxLength,
    Offset,             \* of the browser's time zone
    MaxBookingEdits,    \* clicks on this page (bound)
    HastyBookingEdits   \* those of an admin who does not wait (bound)

ASSUME LocationsAssumption == NoLocation \notin Locations /\ SpacesEach \in Nat
ASSUME TimesAssumption ==
    DaySlots \in Nat \ {0} /\ Times \subseteq Nat /\ Now \in Nat /\ Offset \in Int

Hour == 1
DayStart(t) == t - (t % DaySlots)
DayEnd(t) == DayStart(t) + DaySlots - 1

NoChoice == <<NoLocation, 0>>
Nobody == "nobody"

Listing(location, enter, leave) ==
    [location |-> location, enter |-> enter, leave |-> leave]

ListCall(n, listing) == [what |-> "list", n |-> n, of |-> listing]

(* A new booking, or one that is over already or not.                      *)
EditorInit ==
    /\ page = "adminBooking" /\ blocked = FALSE /\ clicks = 0
    /\ \E new, daily, past, unrestricted, waits \in BOOLEAN, l \in Locations :
          /\ new => ~past
          /\ server = [space |-> IF new THEN NoChoice ELSE <<l, 1>>,
                       enter |-> IF daily THEN 0 ELSE Now,
                       leave |-> IF daily THEN DaySlots - 1 ELSE Now + Hour,
                       user |-> "other", subject |-> 0, others |-> 0]
          /\ state = [new |-> new, daily |-> daily, past |-> past,
                      unrestricted |-> unrestricted,
                      enter |-> 0, leave |-> 0, location |-> NoLocation,
                      space |-> NoChoice, user |-> Nobody, subject |-> 0,
                      listed |-> Listing(NoLocation, 0, 0), fresh |-> TRUE,
                      spaceLocked |-> TRUE, timer |-> <<>>, hint |-> FALSE,
                      saved |-> FALSE, error |-> FALSE, asking |-> FALSE,
                      gone |-> FALSE, loading |-> TRUE, edited |-> FALSE,
                      waits |-> waits]
    /\ calls = {[what |-> "data"]}

-----------------------------------------------------------------------------
(* loadData: the times on display are converted, those the first list is   *)
(* asked for are not.                                                      *)
BookingLoaded ==
    /\ Goes("adminBooking") /\ [what |-> "data"] \in calls
    /\ state' = IF state.new THEN [state EXCEPT !.spaceLocked = FALSE]
                ELSE [state EXCEPT !.enter = server.enter, !.leave = server.leave,
                        !.location = server.space[1], !.space = server.space,
                        !.user = server.user, !.subject = server.subject,
                        !.spaceLocked = FALSE]
    /\ calls' = {[what |-> "settings"]} \cup
                IF state.new THEN {}
                ELSE {ListCall(0, Listing(server.space[1], server.enter + Offset,
                                          server.leave + Offset))}
    /\ UNCHANGED server

(* Settings, preferences and areas are there as well: initDates suggests   *)
(* times for a new booking.                                                *)
EditorReady ==
    /\ Goes("adminBooking") /\ [what |-> "settings"] \in calls
    /\ LET enter == IF state.daily THEN DayStart(Now) ELSE Now
           leave == IF state.daily THEN DayEnd(Now) ELSE Now + Hour IN
       state' = IF state.new THEN [state EXCEPT !.enter = enter, !.leave = leave,
                                                !.loading = FALSE]
                ELSE [state EXCEPT !.loading = FALSE]
    /\ calls' = calls \ {[what |-> "settings"]} /\ UNCHANGED server

SpacesListed(call) ==
    /\ Goes("adminBooking") /\ call.what = "list" /\ ~state.gone
    /\ state' = [state EXCEPT !.listed = call.of, !.spaceLocked = FALSE,
                              !.fresh = @ /\ call.n = 0]
    /\ calls' = calls \ {call} /\ UNCHANGED server

-----------------------------------------------------------------------------
(* The admin does something; only with a booking that is not over.  waits: *)
(* for answers, and for the second after which changed times are applied.  *)
BookingAdmin ==
    /\ Click("adminBooking") /\ clicks < MaxBookingEdits
    /\ ~state.gone /\ ~state.loading /\ ~state.past /\ ~state.asking
    /\ IF state.waits THEN calls = {} /\ state.timer = <<>>
       ELSE clicks < HastyBookingEdits
    /\ UNCHANGED server

BookingEdit(next) == BookingAdmin /\ state' = [next EXCEPT !.edited = TRUE]

(* setEnterDate and setLeaveDate: one timer for both.                      *)
PickEnter(t) ==
    BookingEdit([state EXCEPT !.timer = <<"enter", t>>]) /\ UNCHANGED calls

PickLeave(t) ==
    BookingEdit([state EXCEPT !.timer = <<"leave", t>>]) /\ UNCHANGED calls

ChooseUser(user) ==
    user # state.user /\ BookingEdit([state EXCEPT !.user = user])
        /\ UNCHANGED calls

(* The mutated form of ChooseLocation: the space of the old area stays.    *)
ChooseLocationOnly(l) ==
    /\ l # state.location
    /\ BookingEdit([state EXCEPT !.location = l, !.spaceLocked = FALSE])
    /\ calls' = calls \cup {ListCall(clicks + 1, Listing(l, state.enter,
                                                                state.leave))}

ChooseLocation(l) ==
    /\ l # state.location
    /\ BookingEdit([state EXCEPT !.location = l, !.space = NoChoice,
                                 !.spaceLocked = FALSE])
    /\ calls' = calls \cup {ListCall(clicks + 1, Listing(l, state.enter,
                                                                state.leave))}

(* One of the list, which is the old one while the new one is loaded.      *)
ChooseSpace(nr) ==
    /\ ~state.spaceLocked /\ state.listed.location # NoLocation
    /\ <<state.listed.location, nr>> # state.space
    /\ BookingEdit([state EXCEPT !.space = <<state.listed.location, nr>>])
    /\ UNCHANGED calls

EditSubject ==
    BookingEdit([state EXCEPT !.subject = 1 - @]) /\ UNCHANGED calls

(* onSubmit, which does not wait for the timer and may be clicked again.   *)
(* Area and space are required, but the choice of a space is not validated *)
(* while it is disabled.                                                   *)
SubmitBooking ==
    LET enter == IF state.daily THEN DayStart(state.enter) ELSE state.enter
        leave == IF state.daily THEN DayEnd(state.leave) ELSE state.leave
        user == IF state.user = Nobody THEN "self" ELSE state.user
        s == [state EXCEPT !.saved = FALSE, !.error = FALSE, !.hint = FALSE,
                           !.enter = enter, !.leave = leave]
    IN
    /\ BookingAdmin /\ state.location # NoLocation
    /\ state.space # NoChoice \/ state.spaceLocked
    /\ IF ~state.new /\ state.user = Nobody
       THEN state' = [s EXCEPT !.hint = TRUE] /\ UNCHANGED calls
       ELSE /\ state' = [s EXCEPT !.edited = FALSE]
            /\ calls' = calls \cup
                 {[what |-> "save", n |-> clicks, new |-> state.new,
                   space |-> state.space, enter |-> enter, leave |-> leave,
                   user |-> user, subject |-> state.subject]}

AskDeleteBooking ==
    /\ BookingAdmin /\ ~state.new
    /\ state' = [state EXCEPT !.asking = TRUE] /\ UNCHANGED calls

ConfirmDeleteBooking(yes) ==
    /\ Click("adminBooking") /\ state.asking
    /\ state' = [state EXCEPT !.asking = FALSE]
    /\ calls' = IF yes THEN calls \cup {[what |-> "delete"]} ELSE calls
    /\ UNCHANGED server

-----------------------------------------------------------------------------
(* updateCanSearch: what is wrong with the times is shown as a hint; it    *)
(* keeps nobody from saving.                                               *)
CanSearch(s) ==
    /\ DayEnd(s.enter) >= DayStart(Now)
    /\ s.leave > s.enter /\ s.leave >= Now
    /\ s.unrestricted \/ s.leave - s.enter \in MinLength .. MaxLength

(* performChange: the end follows the start by an hour.                    *)
Applied(s, which, t) ==
    IF which = "enter"
    THEN [s EXCEPT !.enter = IF s.daily THEN DayStart(t) ELSE t,
                   !.leave = IF s.daily THEN DayEnd(t + Hour) ELSE t + Hour]
    ELSE [s EXCEPT !.leave = IF s.daily THEN DayEnd(t) ELSE t]

TimerEnds ==
    LET s == Applied(state, state.timer[1], state.timer[2]) IN
    /\ Goes("adminBooking") /\ state.timer # <<>> /\ ~state.gone
    /\ state' = [s EXCEPT !.timer = <<>>, !.spaceLocked = TRUE,
                          !.hint = ~CanSearch(s)]
    /\ calls' = IF s.location = NoLocation THEN calls
                ELSE calls \cup {ListCall(clicks, Listing(s.location, s.enter,
                                                          s.leave))}
    /\ UNCHANGED server

(* isValidBookingRequest lets a range that is reversed pass for an         *)
(* unrestricted admin, and for whole days, which it only counts.           *)
Storable(call) ==
    /\ call.space # NoChoice
    /\ call.enter <= call.leave \/ state.unrestricted \/ state.daily

(* The booking is stored; a second click on "save" may have made another.  *)
BookingStored(call) ==
    /\ Goes("adminBooking") /\ call.what = "save" /\ Storable(call)
    /\ server' = [space |-> call.space, enter |-> call.enter,
                  leave |-> call.leave, user |-> call.user,
                  subject |-> call.subject,
                  others |-> server.others +
                             IF call.new /\ ~state.new THEN 1 ELSE 0]
    /\ state' = [state EXCEPT !.new = FALSE, !.saved = TRUE,
                              !.user = IF call.new THEN call.user ELSE @,
                              !.spaceLocked = @ /\ ~call.new]
    /\ calls' = calls \ {call}

(* Refused: the error has an application code, the page shows it.          *)
BookingRefused(call) ==
    /\ Goes("adminBooking") /\ call.what = "save"
    /\ state' = [state EXCEPT !.error = TRUE, !.saved = FALSE]
    /\ calls' = calls \ {call} /\ UNCHANGED server

BookingRemoved ==
    /\ Goes("adminBooking") /\ [what |-> "delete"] \in calls
    /\ server' = [server EXCEPT !.space = NoChoice]
    /\ state' = [state EXCEPT !.gone = TRUE] /\ calls' = {}

EditorCallFails ==
    Blocks("adminBooking") /\ calls # {} /\ calls' = {} /\ UNCHANGED server

EditorNext ==
    /\ page = "adminBooking"
    /\ \/ BookingLoaded \/ EditorReady
       \/ \E t \in Times : PickEnter(t) \/ PickLeave(t)
       \/ \E user \in {"self", "other", Nobody} : ChooseUser(user)
       \/ \E l \in Locations : ChooseLocation(l)
       \/ \E nr \in 1 .. SpacesEach : ChooseSpace(nr)
       \/ EditSubject \/ SubmitBooking \/ AskDeleteBooking
       \/ \E yes \in BOOLEAN : ConfirmDeleteBooking(yes)
       \/ TimerEnds \/ BookingRemoved \/ EditorCallFails
       \/ \E call \in calls : \/ SpacesListed(call) \/ BookingStored(call)
                              \/ BookingRefused(call)

EditorSpec == EditorInit /\ [][EditorNext]_webVars

-----------------------------------------------------------------------------
(* For an admin who waits, the spaces on offer are those of the area and   *)
(* times on display (but for the first list of a booking that is opened),  *)
(* the space chosen is one of that area, and a booking that is said to be  *)
(* saved is stored as it is shown.                                         *)
BookingAsShown ==
    page = "adminBooking" /\ state.waits /\ calls = {} /\ ~blocked
        /\ state.timer = <<>> /\ ~state.gone /\ ~state.loading
    =>
    /\ state.location # NoLocation /\ ~state.fresh
       => state.listed = Listing(state.location, state.enter, state.leave)
    /\ state.space # NoChoice => state.space[1] = state.location
    /\ state.saved /\ ~state.edited
       => /\ server.space = state.space /\ server.user = state.user
          /\ server.enter = state.enter /\ server.leave = state.leave
          /\ server.subject = state.subject
=============================================================================
