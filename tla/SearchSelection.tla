--------------------------- MODULE SearchSelection --------------------------
(***************************************************************************)
(* The search page (ui/src/pages/search.tsx): which area and which time    *)
(* are selected, the chains of calls that load what is shown for them, and *)
(* the URL the selection is kept in.  A chain goes on with whatever the    *)
(* state is when an answer comes; the panel with the controls lies above   *)
(* the spinner, so that chains overlap.                                    *)
(*                                                                         *)
(* An instant is a day, counted from today, and a slot of it; the last     *)
(* slot stands for 23:59:59.999.  Areas that cannot be booked cannot be    *)
(* selected either and are left out.                                       *)
(***************************************************************************)
EXTENDS WebPage

CONSTANTS
    Areas,          \* the areas of the organisation
    NoArea,
    PrefArea,       \* prefLocationId
    SlotsPerDay,
    WorkStart,      \* prefWorkdayStart and prefWorkdayEnd
    WorkEnd,
    Days,           \* the days the user picks from the calendar
    MaxSelections,  \* clicks on this page (bound)
    MaxOverlaps,    \* those of a user who does not wait, after the first (bound)
    Chains          \* chains of calls under way at the same time (bound)

ASSUME AreasAssumption == NoArea \notin Areas /\ PrefArea \in Areas
ASSUME SlotsAssumption ==
    /\ SlotsPerDay \in Nat \ {0}
    /\ WorkStart \in 0 .. SlotsPerDay - 1 /\ WorkEnd \in 0 .. SlotsPerDay - 1
ASSUME DaysAssumption == Days \subseteq Nat
ASSUME ChainsAssumption == Chains \subseteq Nat /\ 1 \in Chains

Instants == [day : Nat, slot : 0 .. SlotsPerDay - 1]

Today == [day |-> 0, slot |-> 0]

-----------------------------------------------------------------------------
(* util/DateUtil.ts                                                        *)
SameDay(a, b) == a.day = b.day
SameTime(a, b) == a.slot = b.slot

HoursToMin(t) == [t EXCEPT !.slot = 0]
HoursToMax(t) == [t EXCEPT !.slot = SlotsPerDay - 1]

(* setTimeFromMinutes: 24:00 is midnight of the day after.                 *)
SetTime(t, slot) ==
    IF slot = SlotsPerDay THEN [day |-> t.day + 1, slot |-> 0]
    ELSE [t EXCEPT !.slot = slot]

CopyDate(source, target) == [target EXCEPT !.day = source.day]
CopyTime(source, target) == [target EXCEPT !.slot = source.slot]

(* By the same duration after t as leave is after enter.                   *)
SameDuration(t, enter, leave) ==
    LET day == t.day + leave.day - enter.day
        slot == t.slot + leave.slot - enter.slot
    IN  CASE slot < 0 -> [day |-> day - 1, slot |-> slot + SlotsPerDay]
          [] slot \in 0 .. SlotsPerDay - 1 -> [day |-> day, slot |-> slot]
          [] slot >= SlotsPerDay -> [day |-> day + 1, slot |-> slot - SlotsPerDay]

(* getNextPreferredEnterAndLeaveTime, for a user who starts now or on the  *)
(* next day; hour is the slot of the next full hour.                       *)
PreferredTimes(mode, hour, daily) ==
    LET now == SetTime(Today, hour)
        enter ==
            CASE mode = "nextDay" -> [day |-> 1, slot |-> WorkStart]
              [] mode = "now" /\ now.slot >= WorkEnd ->
                    [day |-> now.day + 1, slot |-> WorkStart]
              [] mode = "now" /\ now.slot < WorkEnd ->
                    IF now.slot < WorkStart THEN [now EXCEPT !.slot = WorkStart]
                    ELSE now
        leave == [enter EXCEPT !.slot = WorkEnd]
    IN  IF daily THEN [enter |-> HoursToMin(enter), leave |-> HoursToMax(leave)]
        ELSE [enter |-> enter, leave |-> leave]

-----------------------------------------------------------------------------
(* The mutated form of NewLeave: the day of the end is not looked at.      *)
NewLeaveKept(s, enter, leave, moved) ==
    IF "leave" \in moved THEN leave ELSE SameDuration(enter, s.enter, s.leave)

(* SearchUtil.calculateNewEnterAndLeave: the user moved one end or both.   *)
NewLeave(s, enter, leave, moved) ==
    LET kept == SameDuration(enter, s.enter, s.leave) IN
    IF "leave" \in moved THEN leave
    ELSE IF s.multiDay \/ SameDay(kept, enter) THEN kept ELSE HoursToMax(enter)

OnlyDayMoved(s, enter, moved) ==
    "enter" \in moved /\ SameTime(enter, s.enter) /\ ~SameDay(enter, s.enter)

NewEnter(s, enter, moved) ==
    CASE "enter" \notin moved -> s.enter
      [] "enter" \in moved /\ s.daily -> HoursToMin(enter)
      [] "enter" \in moved /\ ~s.daily ->
            IF ~s.auto \/ ~OnlyDayMoved(s, enter, moved) THEN enter
            ELSE IF enter.day > 0 \/ WorkStart >= s.hour
                 THEN SetTime(enter, WorkStart) ELSE SetTime(enter, s.hour)

StaysAuto(s, enter, leave, moved) ==
    \/ s.daily \/ OnlyDayMoved(s, enter, moved)
    \/ /\ "enter" \in moved => SameTime(enter, s.enter)
       /\ SameTime(leave, s.leave)

Moves(s, enter, leave, moved) ==
    \/ "enter" \in moved /\ enter # s.enter
    \/ "leave" \in moved /\ leave # s.leave

(* The mutated form of Url: the area is not put into it.                   *)
UrlWithoutArea(s) == [area |-> NoArea, enter |-> s.enter, leave |-> s.leave,
                      allDay |-> s.allDay, multiDay |-> s.multiDay]

(* updateUrlParams: what the URL says from now on.                         *)
Url(s) == [area |-> s.area, enter |-> s.enter, leave |-> s.leave,
           allDay |-> s.allDay, multiDay |-> s.multiDay]

(* updateEnterAndLeaveDate, up to the calls it makes.                      *)
WithTimes(s, enter, leave, moved) ==
    LET newLeave == NewLeave(s, enter, leave, moved) IN
    IF ~Moves(s, enter, leave, moved) THEN s
    ELSE [s EXCEPT !.enter = NewEnter(s, enter, moved),
                   !.leave = IF s.daily THEN HoursToMax(newLeave) ELSE newLeave,
                   !.auto = @ /\ StaysAuto(s, enter, newLeave, moved)]

(* initDates: what the page selects when it is opened with URL u.          *)
InitialTimes(s, u) ==
    LET allDay == u.allDay /\ ~s.daily
        enter == IF allDay THEN HoursToMin(u.enter) ELSE u.enter
        leave == IF allDay THEN HoursToMax(u.leave) ELSE u.leave
    IN  [s EXCEPT !.enter = enter,
                  !.leave = IF u.multiDay \/ SameDay(enter, leave) THEN leave
                            ELSE HoursToMax(enter),
                  !.allDay = allDay,
                  !.multiDay = u.multiDay]

(* getPreferredLocationId: the areas that may come out of it.              *)
PreferredAreas(areas, wanted) ==
    CASE wanted \in areas -> {wanted}
      [] wanted \notin areas /\ PrefArea \in areas -> {PrefArea}
      [] OTHER -> IF areas = {} THEN {NoArea} ELSE areas

-----------------------------------------------------------------------------
(* A chain: the calls still to be answered, the first of them under way,   *)
(* and what they were or will be made with.                                *)
Steps == {"items", "search", "attributes", "location", "spaces", "map"}

NoChain == [kind |-> "none", todo |-> <<>>, area |-> NoArea, enter |-> Today,
            leave |-> Today]

Chain(kind, s) ==
    [NoChain EXCEPT
        !.kind = kind, !.area = s.area, !.enter = s.enter, !.leave = s.leave,
        !.todo = CASE kind = "mount" -> <<"items", "attributes", "location",
                                          "spaces", "map">>
                   [] kind = "area" -> <<"attributes", "location", "spaces",
                                         "map">>
                   [] kind = "times" -> <<"spaces">>
                   [] kind = "search" -> <<"search", "location", "spaces",
                                           "map", "attributes">>
                   [] kind = "refresh" -> <<"location", "spaces", "map">>]

Free(c) == calls[c].todo = <<>> /\ \A d \in Chains : d < c => calls[d].todo # <<>>

Start(kind, s) == \E c \in Chains : Free(c) /\ calls' = [calls EXCEPT ![c] = Chain(kind, s)]

(* The page is opened with the preferred times, or with a URL that has     *)
(* kept the choice of several days.  waits: the user does nothing while    *)
(* the spinner turns.  searched, which the page does not have: a search    *)
(* has selected another area since the URL was last written, and it does   *)
(* not write it.                                                           *)
SearchInit ==
    /\ page = "search" /\ blocked = FALSE /\ clicks = 0 /\ server = <<>>
    /\ \E waits, daily, multi \in BOOLEAN, mode \in {"now", "nextDay"},
          hour \in {1, SlotsPerDay} :
          LET t == PreferredTimes(mode, hour, daily) IN
          state = [area |-> NoArea, enter |-> t.enter, leave |-> t.leave,
                   multiDay |-> FALSE, allDay |-> FALSE,
                   resetEnter |-> t.enter, resetLeave |-> t.leave,
                   auto |-> TRUE, daily |-> daily, hour |-> hour,
                   areas |-> {}, filtered |-> FALSE, loading |-> TRUE,
                   spaces |-> [area |-> NoArea, enter |-> Today, leave |-> Today],
                   map |-> NoArea,
                   url |-> [area |-> NoArea, enter |-> t.enter,
                            leave |-> t.leave, allDay |-> FALSE,
                            multiDay |-> multi],
                   searched |-> FALSE, waits |-> waits]
    /\ calls = [c \in Chains |-> IF c = 1 THEN Chain("mount", state) ELSE NoChain]

-----------------------------------------------------------------------------
(* Answers.                                                                *)

(* The state once the first call of a chain is answered; found: the areas  *)
(* the server knows, or the search has found.                              *)
Arrived(call, s, found, area) ==
    CASE Head(call.todo) = "items" ->
            [InitialTimes(s, s.url) EXCEPT
                !.areas = found, !.area = IF @ = NoArea THEN area ELSE @]
      [] Head(call.todo) = "search" ->
            [s EXCEPT !.areas = found, !.area = area,
                      !.searched = @ \/ area # s.area]
      [] Head(call.todo) = "spaces" ->
            [s EXCEPT !.spaces = [area |-> call.area, enter |-> call.enter,
                                  leave |-> call.leave]]
      [] Head(call.todo) = "map" -> [s EXCEPT !.map = call.area]
      [] Head(call.todo) \in {"attributes", "location"} -> s

(* The chain ends early if no area was found, if one has been selected     *)
(* while the page was loading or, after a search, if another search has    *)
(* emptied the list meanwhile.                                             *)
SpinnerStops(call, before, after) ==
    \/ Len(call.todo) = 1
    \/ Head(call.todo) \in {"items", "search"} /\ after.area = NoArea
    \/ Head(call.todo) = "items" /\ before.area # NoArea
    \/ /\ call.kind = "search" /\ Head(call.todo) = "map"
       /\ after.area \notin after.areas

(* The mutated form of StillLoading: no early end stops the spinner.       *)
StillLoadingUnlessLast(call, s) == s.loading /\ Len(call.todo) > 1

(* Where a chain ends: one of the ways out leaves the spinner to the       *)
(* search that has emptied the list.                                       *)
StillLoading(call, s) ==
    s.loading /\ Head(call.todo) = "map" /\ call.kind = "search"

(* loadMap and loadSpaces read the state when they are called, and show    *)
(* the spinner again.                                                      *)
Next1(call, s) ==
    LET todo == Tail(call.todo) IN
    CASE Head(todo) = "location" ->
            [call EXCEPT !.todo = todo,
                         !.area = IF call.kind \in {"mount", "search"}
                                  THEN s.area ELSE @]
      [] Head(todo) = "spaces" ->
            [call EXCEPT !.todo = todo, !.enter = s.enter, !.leave = s.leave]
      [] OTHER -> [call EXCEPT !.todo = todo]

Answer(c) ==
    LET call == calls[c] IN
    /\ Goes("search") /\ call.todo # <<>>
    /\ \E found \in IF Head(call.todo) = "search" /\ state.filtered
                    THEN SUBSET Areas ELSE {Areas} :
       \E area \in PreferredAreas(found, IF Head(call.todo) = "items"
                                         THEN state.url.area ELSE state.area) :
          LET s == Arrived(call, state, found, area) IN
          IF SpinnerStops(call, state, s)
          THEN /\ calls' = [calls EXCEPT ![c] = NoChain]
               /\ state' = [s EXCEPT
                    !.loading = StillLoading(call, s),
                    !.url = IF call.kind = "mount" THEN Url(s) ELSE @,
                    !.searched = @ /\ call.kind # "mount"]
          ELSE /\ calls' = [calls EXCEPT ![c] = Next1(call, s)]
               /\ state' = [s EXCEPT
                    !.loading = @ \/ calls'[c].todo[1] \in {"location", "spaces"}]
    /\ UNCHANGED server

(* The rest goes on behind the dialogue, where nobody sees it.             *)
Fail(c) ==
    /\ Blocks("search") /\ calls[c].todo # <<>>
    /\ calls' = [d \in Chains |-> NoChain]
    /\ UNCHANGED server

-----------------------------------------------------------------------------
(* What the user does.                                                     *)
User ==
    /\ Click("search") /\ clicks < MaxSelections
    /\ IF state.waits THEN ~state.loading ELSE clicks <= MaxOverlaps
    /\ UNCHANGED server

(* updateEnterAndLeaveDate with what follows once the state is set.        *)
Move(enter, leave, moved) ==
    LET s == WithTimes(state, enter, leave, moved) IN
    /\ Moves(state, enter, leave, moved)
    /\ state' = [s EXCEPT !.loading = TRUE, !.url = Url(s), !.searched = FALSE]
    /\ Start("times", s)

(* The date pickers: that of the end is there for several days only.       *)
PickDate(day) ==
    /\ User /\ state.area # NoArea
    /\ \/ Move(CopyDate([day |-> day, slot |-> 0], state.enter), state.leave,
               {"enter"})
       \/ /\ state.multiDay
          /\ Move(state.enter, CopyDate([day |-> day, slot |-> 0], state.leave),
                  {"leave"})

(* The time pickers.                                                       *)
PickTime(slot) ==
    /\ User /\ state.area # NoArea /\ ~state.allDay /\ ~state.daily
    /\ \/ Move(CopyTime([day |-> 0, slot |-> slot], state.enter), state.leave,
               {"enter"})
       \/ Move(state.enter, CopyTime([day |-> 0, slot |-> slot], state.leave),
               {"leave"})

(* The arrow keys and the buttons beside the date.                         *)
StepDay(by) ==
    /\ User /\ state.area # NoArea
    /\ by = -1 => ~SameDay(state.enter, Today)
    /\ Move([state.enter EXCEPT !.day = @ + by],
            [state.leave EXCEPT !.day = @ + by], {"enter", "leave"})

ToggleMultiDay ==
    LET day == CopyDate(state.enter, state.leave)
        leave == IF day.slot < state.enter.slot THEN HoursToMax(day) ELSE day
        s == IF state.multiDay
             THEN WithTimes(state, state.enter, leave, {"leave"}) ELSE state
        flipped == [s EXCEPT !.multiDay = ~@]
    IN
    /\ User /\ state.area # NoArea
    /\ state' = [flipped EXCEPT !.url = Url(flipped), !.searched = FALSE,
                                !.loading = @ \/ s # state]
    /\ IF s = state THEN UNCHANGED calls ELSE Start("times", s)

(* Back to the times from before, the days among them.                     *)
ToggleAllDay ==
    LET s == IF state.allDay
             THEN WithTimes(state, state.resetEnter, state.resetLeave,
                            {"enter", "leave"})
             ELSE WithTimes([state EXCEPT !.resetEnter = state.enter,
                                          !.resetLeave = state.leave],
                            HoursToMin(state.enter), HoursToMax(state.leave),
                            {"enter", "leave"})
        flipped == [s EXCEPT !.allDay = ~@]
        moved == s.enter # state.enter \/ s.leave # state.leave
    IN
    /\ User /\ state.area # NoArea /\ ~state.daily
    /\ state' = [flipped EXCEPT !.url = Url(flipped), !.searched = FALSE,
                                !.loading = @ \/ moved]
    /\ IF moved THEN Start("times", s) ELSE UNCHANGED calls

(* The mutated form of ChangeArea: only the spaces are loaded anew.        *)
ChangeAreaSpacesOnly(area) ==
    LET s == [state EXCEPT !.area = area, !.loading = TRUE] IN
    /\ User /\ area \in state.areas \ {state.area}
    /\ state' = [s EXCEPT !.url = Url(s), !.searched = FALSE]
    /\ Start("times", s)

(* changeLocation, from the list or with the arrow keys.                   *)
ChangeArea(area) ==
    LET s == [state EXCEPT !.area = area, !.loading = TRUE] IN
    /\ User /\ area \in state.areas \ {state.area}
    /\ state' = [s EXCEPT !.url = Url(s), !.searched = FALSE]
    /\ Start("area", s)

(* The dialogue with the filters, which changes them as they are edited.   *)
EditFilters ==
    /\ User
    /\ state' = [state EXCEPT !.filtered = ~@]
    /\ UNCHANGED calls

ApplySearch ==
    /\ User
    /\ state' = [state EXCEPT !.loading = TRUE]
    /\ Start("search", state)

ResetSearch ==
    /\ User
    /\ state' = [state EXCEPT !.loading = TRUE, !.filtered = FALSE]
    /\ Start("search", state)

(* refreshPage, after a booking was made or cancelled.                     *)
RefreshPage ==
    /\ User /\ state.area # NoArea
    /\ state' = [state EXCEPT !.loading = TRUE]
    /\ Start("refresh", state)

SearchUser ==
    \/ \E day \in Days : PickDate(day)
    \/ \E slot \in 0 .. SlotsPerDay - 1 : PickTime(slot)
    \/ \E by \in {-1, 1} : StepDay(by)
    \/ ToggleMultiDay \/ ToggleAllDay
    \/ \E area \in Areas : ChangeArea(area)
    \/ EditFilters \/ ApplySearch \/ ResetSearch \/ RefreshPage

SearchNext ==
    /\ page = "search"
    /\ SearchUser \/ \E c \in Chains : Answer(c) \/ Fail(c)

SearchSpec == SearchInit /\ [][SearchNext]_webVars

SearchFairness == \A c \in Chains : WF_webVars(Answer(c))

-----------------------------------------------------------------------------
(* Once the spinner is gone, the map and the list are of the selected area *)
(* and time: every handler that changes the selection loads them anew, for *)
(* a user who waits for each load to end.  (For one who does not, the last *)
(* answer wins, whatever it was for.)                                      *)
ShownAsSelected ==
    page = "search" /\ state.waits /\ ~state.loading /\ ~blocked
        /\ state.area # NoArea
    => /\ state.spaces = [area |-> state.area, enter |-> state.enter,
                          leave |-> state.leave]
       /\ state.map = state.area

Mounted == \A c \in Chains : calls[c].todo = <<>> \/ Head(calls[c].todo) # "items"

(* Unless several days are selected, the booking ends on the day it begins. *)
(* Two cases excepted: the times from before "all day" are put back with   *)
(* their days, and after 23 o'clock the next full hour is tomorrow.        *)
SingleDay ==
    page = "search" /\ ~state.multiDay
        /\ SameDay(state.resetEnter, state.resetLeave)
        /\ state.hour < SlotsPerDay
    => SameDay(state.enter, state.leave)

(* A working day from 0:00 to 23:59 is "all day" already.                  *)
RoundTheClock == WorkStart = 0 /\ WorkEnd = SlotsPerDay - 1

(* Loading the page again gives the same times, unless they are some the   *)
(* page would not let the user make, and the same area, unless a search    *)
(* has selected it: applySearch is the one handler that does not write the *)
(* URL.  One case more is excepted: for who works round the clock "all     *)
(* day" changes no time, so that the page goes on moving the start to the  *)
(* next full hour, with "all day" still on.                                *)
UrlRestores ==
    page = "search" /\ Mounted /\ ~blocked
        /\ state.hour < SlotsPerDay /\ ~RoundTheClock
        /\ (state.multiDay \/ SameDay(state.enter, state.leave))
    => /\ Url(InitialTimes(state, state.url)) = Url(state)
       /\ ~state.searched /\ state.area # NoArea
          => PreferredAreas(Areas, state.url.area) = {state.area}

(* The spinner goes away, or the dialogue of a failed call comes.          *)
Waiting == IF page = "search" THEN state.waits /\ state.loading ELSE FALSE

SpinnerEnds == Waiting ~> blocked \/ ~Waiting
=============================================================================
