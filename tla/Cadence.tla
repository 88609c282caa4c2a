------------------------------- MODULE Cadence -------------------------------
(***************************************************************************)
(* The days a recurring booking falls on: CreateBookings and               *)
(* getNextBookingTime of repository/recurring-booking-repository.go, loop  *)
(* for loop.  A time is the number of its day, day 0 being a Sunday: the   *)
(* code moves from one occurrence to the next with AddDate, which keeps    *)
(* the time of day.                                                        *)
(***************************************************************************)
EXTENDS Integers, Sequences, FiniteSets

CONSTANTS
    Requests,               \* what clients send, after validation
    MaxRecurringBookings    \* occurrences a series may have at most

(* CreateRecurringBookingRequest, with enter and end as days; occurrences  *)
(* before end are wanted.  The validator bounds every field but does not   *)
(* ask for an order of the weekdays.                                       *)
Request == [cadence : {"daily", "weekly"}, cycle : Nat \ {0},
            weekdays : Seq(0 .. 6), enter : Nat, end : Nat]

ASSUME RequestsAssumption == Requests \subseteq Request
ASSUME LimitAssumption == MaxRecurringBookings \in Nat

VARIABLES
    req,    \* the request at hand
    cur,    \* cur of CreateBookings
    res,    \* res of CreateBookings
    at      \* "start", "align", "loop", "done" or "error"

vars == <<req, cur, res, at>>

Weekday(day) == day % 7
Elements(s) == {s[k] : k \in DOMAIN s}

Init ==
    /\ req \in Requests
    /\ cur = req.enter
    /\ res = <<>>
    /\ at = "start"

-----------------------------------------------------------------------------
(* Mutated forms.                                                          *)

(* The step to the next week that is to be booked, one cycle too far.      *)
NextDayOneWeekMore(r, day) ==
    LET w == r.weekdays
        idx == CHOOSE k \in DOMAIN w : w[k] = Weekday(day)
    IN  IF r.cadence = "daily" THEN day + r.cycle
        ELSE IF idx = Len(w) THEN day + 7 - w[idx] + w[1] + 7 * r.cycle
        ELSE day + w[idx + 1] - w[idx]

(* The step to the next week that goes to its Sunday instead of the first  *)
(* weekday of the list.                                                    *)
NextDayToSunday(r, day) ==
    LET w == r.weekdays
        after == {k \in DOMAIN w : k > 1 /\ w[k - 1] = Weekday(day)}
    IN  IF r.cadence = "daily" THEN day + r.cycle
        ELSE IF after = {} THEN day + 7 * r.cycle - Weekday(day)
        ELSE day + w[CHOOSE k \in after : TRUE] - Weekday(day)

(* A loop that goes on to the end of the last day.                         *)
TurnEndIncluded ==
    /\ at = "loop" /\ cur <= req.end /\ Len(res) < MaxRecurringBookings
    /\ res' = Append(res, cur)
    /\ cur' = cur + IF req.cadence = "daily" THEN req.cycle ELSE 7 * req.cycle
    /\ UNCHANGED <<req, at>>

(* A limit that lets one occurrence more pass.                             *)
FullOffByOne == Len(res) > MaxRecurringBookings

(* The search for the first weekday that forgets to move on.               *)
AlignNoAdvance ==
    /\ at = "align"
    /\ Weekday(cur) \in Elements(req.weekdays)
    /\ at' = "loop"
    /\ UNCHANGED <<req, cur, res>>

-----------------------------------------------------------------------------
(* getNextBookingTime: from the last weekday of the list to the first one  *)
(* of the next week that counts, from any other to the one after it in the *)
(* list.  slices.Index finds the first match.                              *)
NextDay(r, day) ==
    LET w == r.weekdays
        idx == CHOOSE k \in DOMAIN w :
                  /\ w[k] = Weekday(day)
                  /\ \A j \in 1 .. k - 1 : w[j] # Weekday(day)
    IN  IF r.cadence = "daily" THEN day + r.cycle
        ELSE IF idx = Len(w)
        THEN day + (7 - w[idx] + w[1]) + 7 * (r.cycle - 1)
        ELSE day + (w[idx + 1] - w[idx])

(* A weekly series without weekdays is empty.                              *)
Start ==
    /\ at = "start"
    /\ at' = IF req.cadence = "daily" THEN "loop"
             ELSE IF req.weekdays = <<>> THEN "done"
             ELSE "align"
    /\ UNCHANGED <<req, cur, res>>

(* The start date is moved to one of the weekdays.                         *)
Align ==
    /\ at = "align"
    /\ IF Weekday(cur) \in Elements(req.weekdays)
       THEN at' = "loop" /\ UNCHANGED cur
       ELSE cur' = cur + 1 /\ UNCHANGED at
    /\ UNCHANGED <<req, res>>

(* len(res) >= MaxRecurringBookings.                                       *)
Full == Len(res) >= MaxRecurringBookings

(* One turn of the loop ...                                                *)
Turn ==
    /\ at = "loop" /\ cur < req.end /\ ~Full
    /\ res' = Append(res, cur)
    /\ cur' = NextDay(req, cur)
    /\ UNCHANGED <<req, at>>

(* ... unless there are too many: nil and an error.                        *)
TurnLimit ==
    /\ at = "loop" /\ cur < req.end /\ Full
    /\ at' = "error" /\ res' = <<>>
    /\ UNCHANGED <<req, cur>>

End ==
    /\ at = "loop" /\ cur >= req.end
    /\ at' = "done"
    /\ UNCHANGED <<req, cur, res>>

Next == Start \/ Align \/ Turn \/ TurnLimit \/ End

Spec == Init /\ [][Next]_vars

(* The loops are plain code: nothing stops them but their conditions.      *)
FairSpec == Spec /\ WF_vars(Next)

-----------------------------------------------------------------------------
(* Properties.                                                             *)

TypeOK ==
    /\ req \in Request
    /\ cur \in Int
    /\ res \in Seq(Int)
    /\ at \in {"start", "align", "loop", "done", "error"}

(* What the client asks for, without any loop: every day from the first    *)
(* that fits and before the end, on one of the weekdays of every cycle-th  *)
(* week (weeks begin on Sunday), or every cycle-th day.                    *)
Wanted ==
    LET Fits(d) == Weekday(d) \in Elements(req.weekdays)
        starts == {d \in req.enter .. req.enter + 6 : Fits(d)}
        first == CHOOSE d \in starts : \A e \in starts : d <= e
        days == req.enter .. req.end - 1
    IN  IF req.cadence = "daily"
        THEN {d \in days : (d - req.enter) % req.cycle = 0}
        ELSE {d \in days : /\ Fits(d)
                           /\ ((d \div 7) - (first \div 7)) % req.cycle = 0}

(* Once the loop is over the occurrences are the days asked for, in order, *)
(* none missing, none twice and none before the start.                     *)
ExactlyTheDays ==
    at = "done" =>
        /\ Elements(res) = Wanted
        /\ \A k \in 1 .. Len(res) - 1 : res[k] < res[k + 1]

(* In whatever order the weekdays come, and whatever the cycle: no weekly  *)
(* occurrence falls on a weekday that was not asked for.                   *)
OnWeekdaysOnly ==
    req.cadence = "weekly" =>
        \A k \in DOMAIN res : Weekday(res[k]) \in Elements(req.weekdays)

(* The occurrences follow one another, from the start to before the end.   *)
InOrderFromStart ==
    /\ \A k \in DOMAIN res : req.enter <= res[k] /\ res[k] < req.end
    /\ \A j, k \in DOMAIN res : j < k => res[j] < res[k]

(* A series is refused exactly when it has more occurrences than allowed.  *)
RefusedWhenTooLong ==
    /\ at = "error" => Cardinality(Wanted) > MaxRecurringBookings
    /\ at = "done" => Cardinality(Wanted) <= MaxRecurringBookings

(* Both loops end, for every request the validator lets through.           *)
Terminates == <>(at \in {"done", "error"})
=============================================================================
