------------------------------- MODULE Series -------------------------------
(***************************************************************************)
(* Recurring bookings: the recurring_bookings table, the bookings that     *)
(* name one of its rows in recurring_id, and everybody who breaks or keeps *)
(* that link: the handlers of router/recurring-booking-router.go, the      *)
(* single-booking handlers that delete, move or approve an occurrence, the *)
(* goroutines that put occurrences into a calendar or remove them, and the *)
(* retention job that purges old bookings.  Every SQL statement is a step. *)
(*                                                                         *)
(* Abstracted: all bookings are of one user in one space and last within   *)
(* a day, so that an occurrence is refused exactly when its day is over or *)
(* taken; the check and the INSERT of an occurrence are one step (Bookings *)
(* shows what can happen in between).                                      *)
(***************************************************************************)
EXTENDS Integers, Sequences, FiniteSets

CONSTANTS
    Ids,            \* booking ids the database can hand out (bound)
    SeriesIds,      \* ids of recurring_bookings rows (bound)
    Plans,          \* occurrences clients ask for, sequences of days
    MaxRecurring,   \* MaxRecurringBookings
    LastDay,        \* how far time goes (bound)
    Retention,      \* days after which old bookings are purged
    Kinds,          \* requests clients send, of KindsOfRequests
    Purges,         \* whether the retention job is enabled
    Handlers,       \* requests in progress at the same time (bound)
    Workers,        \* goroutines in progress at the same time (bound)
    MaxFaults,      \* failed statements (bound)
    None

KindsOfRequests == {"create", "deleteSeries", "deleteOne", "move", "approve"}

Days == 0 .. LastDay

ASSUME PlansAssumption == \A p \in Plans : p \in Seq(Nat)
ASSUME KindsAssumption == Kinds \subseteq KindsOfRequests
ASSUME BoundsAssumption ==
    /\ {MaxRecurring, LastDay, Retention, MaxFaults} \subseteq Nat
    /\ Purges \in BOOLEAN

VARIABLES
    series,     \* ids of the rows of recurring_bookings
    opened,     \* ids ever given to a series
    bookings,   \* bookings[id]: the row, or None
    issued,     \* <<id, series>> for every occurrence ever inserted
    now,        \* today
    handlers,   \* handlers[h]: where a request is, and what it has read
    jobs,       \* jobs[w]: what a goroutine still has to do
    purge,      \* where the retention job is
    calendar,   \* external: ids with an event on the user's CalDAV server
    faults

vars == <<series, opened, bookings, issued, now, handlers, jobs, purge,
          calendar, faults>>

Booking == [series : SeriesIds \cup {None}, day : Nat, approved : BOOLEAN,
            caldav : BOOLEAN]

ASSUME NoneAssumption == None \notin Ids \cup SeriesIds /\ None \notin Booking

(* A booking some goroutine holds a copy of; an occurrence that was        *)
(* refused is among those handed to it, without an id.                     *)
Copy == [id : Ids \cup {None}, row : Booking]

Steps == {"idle", "occur", "future", "detach", "series", "row", "parent",
          "write"}

Idle  == [step |-> "idle"]
NoJob == [step |-> "idle"]

Live == {i \in Ids : bookings[i] # None}
Used == {p[1] : p \in issued}
Of(sid) == {i \in Live : bookings[i].series = sid}

Init ==
    /\ series = {} /\ opened = {}
    /\ bookings = [i \in Ids |-> None] /\ issued = {}
    /\ now = 0
    /\ handlers = [h \in Handlers |-> Idle]
    /\ jobs = [w \in Workers |-> NoJob]
    /\ purge = "idle"
    /\ calendar = {}
    /\ faults = 0

Become(h, r) == handlers' = [handlers EXCEPT ![h] = r]
Finish(h) == Become(h, Idle)
Request(h, kind) == kind \in Kinds /\ handlers[h] = Idle

(* A goroutine without anything to do, or on a server without workers in   *)
(* the model (nobody has configured a calendar), leaves no trace.          *)
Go(job) ==
    IF Workers = {} THEN UNCHANGED jobs
    ELSE \E w \in Workers : jobs[w] = NoJob /\ jobs' = [jobs EXCEPT ![w] = job]

-----------------------------------------------------------------------------
(* Mutated forms.                                                          *)

(* RecurringBookingRepository.Delete that removes the row of the series    *)
(* before it takes care of the bookings.                                   *)
DeleteFutureRowFirst(h) ==
    /\ handlers[h].step = "future"
    /\ series' = series \ {handlers[h].series}
    /\ Become(h, [handlers[h] EXCEPT !.step = "detach"])
    /\ UNCHANGED <<opened, bookings, issued, now, jobs, purge, calendar,
                   faults>>

(* BookingStore.Delete without its second statement.                       *)
DeleteRowOnly(h) ==
    /\ handlers[h].step = "row"
    /\ bookings' = [bookings EXCEPT ![handlers[h].id] = None]
    /\ Finish(h)
    /\ UNCHANGED <<series, opened, issued, now, jobs, purge, calendar, faults>>

(* An UPDATE that inserts when no row matches.                             *)
UpdateRowUpsert(id, row) ==
    bookings' = IF id \in Ids THEN [bookings EXCEPT ![id] = row] ELSE bookings

(* An UPDATE that loses the day of the booking.                            *)
UpdateRowNoDay(id, row) ==
    bookings' = IF id \in Live
                THEN [bookings EXCEPT ![id] = [row EXCEPT !.day = None]]
                ELSE bookings

-----------------------------------------------------------------------------
(* create: the row of the series first, then CreateBookings, which refuses *)
(* a series that is too long when its row is already there.                *)
BeginCreate(h) ==
    /\ Request(h, "create")
    /\ \E sid \in SeriesIds \ opened, plan \in Plans, approved \in BOOLEAN :
          /\ series' = series \cup {sid}
          /\ opened' = opened \cup {sid}
          /\ IF Len(plan) > MaxRecurring THEN UNCHANGED handlers
             ELSE Become(h, [step |-> "occur", series |-> sid, todo |-> plan,
                             approved |-> approved, made |-> <<>>])
    /\ UNCHANGED <<bookings, issued, now, jobs, purge, calendar, faults>>

(* One turn of the loop: the occurrence is checked and inserted.           *)
Occur(h) ==
    LET r == handlers[h]
        refused == \/ Head(r.todo) < now
                   \/ \E i \in Live : bookings[i].day = Head(r.todo)
        row == [series |-> r.series, day |-> Head(r.todo),
                approved |-> r.approved /\ ~refused, caldav |-> FALSE]
        next(id) == [r EXCEPT !.todo = Tail(@),
                              !.made = Append(@, [id |-> id, row |-> row])]
    IN
    /\ r.step = "occur" /\ r.todo # <<>>
    /\ IF refused
       THEN Become(h, next(None)) /\ UNCHANGED <<bookings, issued>>
       ELSE \E id \in Ids \ Used :
               /\ bookings' = [bookings EXCEPT ![id] = row]
               /\ issued' = issued \cup {<<id, r.series>>}
               /\ Become(h, next(id))
    /\ UNCHANGED <<series, opened, now, jobs, purge, calendar, faults>>

(* The loop is over: go onBookingCreated with every occurrence, refused or *)
(* not.                                                                    *)
EndCreate(h) ==
    LET r == handlers[h] IN
    /\ r.step = "occur" /\ r.todo = <<>>
    /\ IF r.made # <<>> /\ r.approved
       THEN Go([step |-> "put", copies |-> r.made])
       ELSE UNCHANGED jobs
    /\ Finish(h)
    /\ UNCHANGED <<series, opened, bookings, issued, now, purge, calendar,
                   faults>>

-----------------------------------------------------------------------------
(* delete of a series: the goroutine starts before the first statement.    *)
BeginDeleteSeries(h) ==
    /\ Request(h, "deleteSeries")
    /\ \E sid \in series :
          /\ Go([step |-> "sweep", series |-> sid])
          /\ Become(h, [step |-> "future", series |-> sid])
    /\ UNCHANGED <<series, opened, bookings, issued, now, purge, calendar,
                   faults>>

(* RecurringBookingRepository.Delete, its three statements.                *)
DeleteFuture(h) ==
    /\ handlers[h].step = "future"
    /\ bookings' = [i \in Ids |->
          IF i \in Of(handlers[h].series) /\ bookings[i].day > now
          THEN None ELSE bookings[i]]
    /\ Become(h, [handlers[h] EXCEPT !.step = "detach"])
    /\ UNCHANGED <<series, opened, issued, now, jobs, purge, calendar, faults>>

Detach(h) ==
    /\ handlers[h].step = "detach"
    /\ bookings' = [i \in Ids |->
          IF i \in Of(handlers[h].series)
          THEN [bookings[i] EXCEPT !.series = None] ELSE bookings[i]]
    /\ Become(h, [handlers[h] EXCEPT !.step = "series"])
    /\ UNCHANGED <<series, opened, issued, now, jobs, purge, calendar, faults>>

DeleteSeriesRow(h) ==
    /\ handlers[h].step = "series"
    /\ series' = series \ {handlers[h].series}
    /\ Finish(h)
    /\ UNCHANGED <<opened, bookings, issued, now, jobs, purge, calendar,
                   faults>>

-----------------------------------------------------------------------------
(* delete of one booking, with the series it named when it was read.       *)
BeginDeleteOne(h) ==
    /\ Request(h, "deleteOne")
    /\ \E i \in Live :
          /\ bookings[i].day >= now
          /\ IF bookings[i].caldav THEN Go([step |-> "remove", ids |-> {i}])
                                   ELSE UNCHANGED jobs
          /\ Become(h, [step |-> "row", id |-> i,
                        series |-> bookings[i].series])
    /\ UNCHANGED <<series, opened, bookings, issued, now, purge, calendar,
                   faults>>

(* BookingStore.Delete, its two statements.                                *)
DeleteRow(h) ==
    /\ handlers[h].step = "row"
    /\ bookings' = [bookings EXCEPT ![handlers[h].id] = None]
    /\ IF handlers[h].series = None THEN Finish(h)
       ELSE Become(h, [handlers[h] EXCEPT !.step = "parent"])
    /\ UNCHANGED <<series, opened, issued, now, jobs, purge, calendar, faults>>

DeleteParent(h) ==
    /\ handlers[h].step = "parent"
    /\ series' = IF Of(handlers[h].series) = {}
                 THEN series \ {handlers[h].series} ELSE series
    /\ Finish(h)
    /\ UNCHANGED <<opened, bookings, issued, now, jobs, purge, calendar,
                   faults>>

-----------------------------------------------------------------------------
(* update of one booking builds a row without a series; approveBooking     *)
(* writes the row it read.  Its other branch, the decline, takes the row   *)
(* away with the statements of a delete (Bookings has it as an action).    *)
BeginMove(h) ==
    /\ Request(h, "move")
    /\ \E i \in Live, day \in {d \in Days : d >= now} :
          /\ ~\E j \in Live \ {i} : bookings[j].day = day
          /\ Become(h, [step |-> "write", id |-> i,
                        row |-> [bookings[i] EXCEPT !.series = None,
                                                    !.day = day]])
    /\ UNCHANGED <<series, opened, bookings, issued, now, jobs, purge,
                   calendar,
                   faults>>

BeginApprove(h) ==
    /\ Request(h, "approve")
    /\ \E i \in Live :
          /\ ~bookings[i].approved /\ bookings[i].day >= now - 1
          /\ Become(h, [step |-> "write", id |-> i,
                        row |-> [bookings[i] EXCEPT !.approved = TRUE]])
    /\ UNCHANGED <<series, opened, bookings, issued, now, jobs, purge,
                   calendar,
                   faults>>

(* UPDATE ... WHERE id.                                                    *)
UpdateRow(id, row) ==
    bookings' = IF id \in Live THEN [bookings EXCEPT ![id] = row]
                               ELSE bookings

WriteOne(h) ==
    LET r == handlers[h] IN
    /\ r.step = "write"
    /\ UpdateRow(r.id, r.row)
    /\ Go([step |-> "put", copies |-> <<[id |-> r.id, row |-> r.row]>>])
    /\ Finish(h)
    /\ UNCHANGED <<series, opened, issued, now, purge, calendar, faults>>

(* A statement fails: the request ends with 500 where it is.               *)
StatementFails(h) ==
    /\ handlers[h] # Idle /\ faults < MaxFaults
    /\ handlers[h].step = "occur" => handlers[h].todo # <<>>
    /\ faults' = faults + 1
    /\ Finish(h)
    /\ UNCHANGED <<series, opened, bookings, issued, now, jobs, purge,
                   calendar>>

-----------------------------------------------------------------------------
(* Goroutines.                                                             *)

(* A copy is done with: the loop goes on with the next one.                *)
NextCopy(w) ==
    LET rest == Tail(jobs[w].copies) IN
    jobs' = [jobs EXCEPT ![w] = IF rest = <<>> THEN NoJob
                                ELSE [step |-> "put", copies |-> rest]]

(* createCalDavEvent and updateCalDavEvent for the first copy: PUT ...     *)
PutEvent(w) ==
    LET c == Head(jobs[w].copies) IN
    /\ jobs[w].step = "put"
    /\ calendar' = calendar \cup {c.id}
    /\ jobs' = [jobs EXCEPT ![w].step = "save"]
    /\ UNCHANGED <<series, opened, bookings, issued, now, handlers, purge,
                   faults>>

(* ... or no calendar is configured, or it does not take the event: nothing*)
(* is written back for this copy ...                                       *)
PutFails(w) ==
    /\ jobs[w].step = "put"
    /\ NextCopy(w)
    /\ UNCHANGED <<series, opened, bookings, issued, now, handlers, purge,
                   calendar, faults>>

(* ... and UPDATE of the whole row, which fails for a copy without an id;  *)
(* then the next copy.                                                     *)
SaveEvent(w) ==
    LET c == Head(jobs[w].copies) IN
    /\ jobs[w].step = "save"
    /\ UpdateRow(c.id, [c.row EXCEPT !.caldav = TRUE])
    /\ NextCopy(w)
    /\ UNCHANGED <<series, opened, issued, now, handlers, purge, calendar,
                   faults>>

(* onBookingDeleted of a series: the bookings it finds when it gets to     *)
(* look, the ones to come only.                                            *)
Sweep(w) ==
    /\ jobs[w].step = "sweep"
    /\ jobs' = [jobs EXCEPT ![w] =
          [step |-> "remove",
           ids |-> {i \in Of(jobs[w].series) :
                       bookings[i].day > now /\ bookings[i].caldav}]]
    /\ UNCHANGED <<series, opened, bookings, issued, now, handlers, purge,
                   calendar, faults>>

(* Each DELETE of an event may fail, which is only logged.                 *)
RemoveEvents(w) ==
    /\ jobs[w].step = "remove"
    /\ \E gone \in SUBSET jobs[w].ids : calendar' = calendar \ gone
    /\ jobs' = [jobs EXCEPT ![w] = NoJob]
    /\ UNCHANGED <<series, opened, bookings, issued, now, handlers, purge,
                   faults>>

-----------------------------------------------------------------------------
(* PurgeOldBookings: only when the first statement found something does    *)
(* the second remove every series without bookings.  The batch is larger   *)
(* than the number of bookings here.                                       *)
Old == {i \in Live : bookings[i].day + Retention < now}

PurgeBookings ==
    /\ Purges /\ purge = "idle" /\ Old # {}
    /\ bookings' = [i \in Ids |-> IF i \in Old THEN None ELSE bookings[i]]
    /\ purge' = "orphans"
    /\ UNCHANGED <<series, opened, issued, now, handlers, jobs, calendar,
                   faults>>

PurgeSeries ==
    /\ purge = "orphans"
    /\ series' = {sid \in series : Of(sid) # {}}
    /\ purge' = "idle"
    /\ UNCHANGED <<opened, bookings, issued, now, handlers, jobs, calendar,
                   faults>>

Tick ==
    /\ now < LastDay
    /\ now' = now + 1
    /\ UNCHANGED <<series, opened, bookings, issued, handlers, jobs, purge,
                   calendar, faults>>

Handle(h) ==
    \/ BeginCreate(h) \/ Occur(h) \/ EndCreate(h)
    \/ BeginDeleteSeries(h)
    \/ DeleteFuture(h) \/ Detach(h) \/ DeleteSeriesRow(h)
    \/ BeginDeleteOne(h) \/ DeleteRow(h) \/ DeleteParent(h)
    \/ BeginMove(h) \/ BeginApprove(h) \/ WriteOne(h)
    \/ StatementFails(h)

Work(w) ==
    \/ PutEvent(w) \/ PutFails(w) \/ SaveEvent(w)
    \/ Sweep(w) \/ RemoveEvents(w)

Next ==
    \/ \E h \in Handlers : Handle(h)
    \/ \E w \in Workers : Work(w)
    \/ PurgeBookings \/ PurgeSeries
    \/ Tick

Spec == Init /\ [][Next]_vars

-----------------------------------------------------------------------------
(* Properties.                                                             *)

TypeOK ==
    /\ series \subseteq opened /\ opened \subseteq SeriesIds
    /\ bookings \in [Ids -> Booking \cup {None}]
    /\ issued \subseteq Ids \X SeriesIds /\ Live \subseteq Used
    /\ now \in Days
    /\ \A h \in Handlers : handlers[h].step \in Steps
    /\ \A w \in Workers :
          /\ jobs[w].step \in {"idle", "put", "save", "sweep", "remove"}
          /\ jobs[w].step \in {"put", "save"} => jobs[w].copies \in Seq(Copy)
    /\ purge \in {"idle", "orphans"}
    /\ calendar \subseteq Ids \cup {None}
    /\ faults \in 0 .. MaxFaults

(* A booking never names a series that does not exist.  Without foreign    *)
(* keys this rests on the order of the statements of create and of Delete, *)
(* whichever of them fails.                                                *)
SeriesHasRow == \A i \in Live : bookings[i].series \in series \cup {None}

Quiet ==
    /\ \A h \in Handlers : handlers[h] = Idle
    /\ \A w \in Workers : jobs[w] = NoJob
    /\ purge = "idle"

(* The last booking of a series takes the series with it, also when the    *)
(* last two are deleted at the same time, the series and its bookings are, *)
(* or the retention job steps in.  A series of which no occurrence could   *)
(* be booked keeps its row; so does one whose bookings were all moved,     *)
(* which Kinds of the run leaves out.                                      *)
LastBookingTakesSeries ==
    Quiet => \A sid \in series :
        (\E id \in Ids : <<id, sid>> \in issued) => Of(sid) # {}

(* Deleting or purging bookings while a goroutine is still noting their    *)
(* calendar events does not bring them back.                               *)
DeletedStaysDeleted ==
    [][\A i \in Used : bookings[i] = None => bookings'[i] = None]_vars

(* What the API documents: once a series is deleted, so are its bookings   *)
(* to come.                                                                *)
FutureBookingsGone ==
    \A sid \in opened \ series : \A i \in Of(sid) : bookings[i].day <= now
=============================================================================
