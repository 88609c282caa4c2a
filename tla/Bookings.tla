------------------------------ MODULE Bookings ------------------------------
(***************************************************************************)
(* The bookings table and everything that writes to it for one booking:    *)
(* the HTTP handlers create, update, approve/decline and delete of         *)
(* router/booking-router.go, and the goroutines they leave behind          *)
(* (onBookingCreated, onBookingUpdated, onBookingDeclinedOrApproved,       *)
(* onBookingDeleted), which talk to the user's CalDAV server and then      *)
(* write the whole row again.                                              *)
(*                                                                         *)
(* No statement runs in a transaction, so every SQL statement is a step of *)
(* its own and requests interleave between any two of them.  What a        *)
(* handler has read so far is its local state.  Times are integers, one    *)
(* tick per sample of the capacity sweep (one minute).                     *)
(*                                                                         *)
(* Abstracted: a request whose time range fails the duration, advance,     *)
(* weekday or allowed-booker checks is refused without touching anything   *)
(* (Slots holds the ranges that pass), mails and plugin calls write        *)
(* nothing here, and all bookings are upcoming and in one location.        *)
(***************************************************************************)
EXTENDS Intervals

CONSTANTS
    Ids,                  \* booking ids the database can hand out (bound)
    Spaces,               \* spaces of one location
    ApprovalSpaces,       \* the ones with approver groups
    Users,
    Admins,               \* users with the space-admin role
    CalendarUsers,        \* users with a complete CalDAV configuration
    NoAdminRestrictions,  \* the setting of that name
    MaxPerUser,           \* max_concurrent_bookings_per_user, 0 = no limit
    MaxUpcoming,          \* max_bookings_per_user
    MaxConcurrent,        \* locations.max_concurrent_bookings, 0 = no limit
    Slots,                \* ranges requested, pairs <<enter, leave>>
    Handlers,             \* requests in progress at the same time (bound)
    Workers,              \* goroutines in progress at the same time (bound)
    MaxFaults,            \* failed writes, failed PUTs and restarts (bound)
    None

(* A row of the bookings table, as far as it matters here; caldav says     *)
(* whether it names a calendar event (whose id is the booking's).          *)
Booking == [user : Users, space : Spaces, enter : Int, leave : Int,
            approved : BOOLEAN, caldav : BOOLEAN]

ASSUME SlotsAssumption == Slots \subseteq Int \X Int
ASSUME SubsetsAssumption ==
    /\ ApprovalSpaces \subseteq Spaces
    /\ Admins \subseteq Users
    /\ CalendarUsers \subseteq Users
ASSUME LimitsAssumption ==
    /\ NoAdminRestrictions \in BOOLEAN
    /\ {MaxPerUser, MaxUpcoming, MaxConcurrent, MaxFaults} \subseteq Nat
ASSUME NoneAssumption == None \notin Ids /\ None \notin Booking
ASSUME ActorsAssumption ==
    /\ IsFiniteSet(Handlers)
    /\ IsFiniteSet(Workers)
    /\ Handlers \cap Workers = {}

VARIABLES
    bookings,   \* bookings[id]: the row, or None when there is none
    issued,     \* ids of all rows ever inserted (uuids are never reused)
    handlers,   \* handlers[h]: what a request has read and will write
    jobs,       \* jobs[w]: the snapshot a goroutine works with
    calendar,   \* external: <<user, id>> for every event on a CalDAV server
    faults      \* how often something failed so far

vars == <<bookings, issued, handlers, jobs, calendar, faults>>

Ops   == {"none", "create", "update", "approve", "decline", "delete"}
Steps == {"idle", "user", "upcoming", "location", "conflicts", "write"}

Request == [op : Ops, step : Steps, by : Users \cup {None},
            id : Ids \cup {None}, row : Booking \cup {None}]
Job     == [step : {"idle", "put", "save", "remove"},
            id : Ids \cup {None}, row : Booking \cup {None}]

Idle   == [op |-> "none", step |-> "idle", by |-> None, id |-> None,
           row |-> None]
NoJob  == [step |-> "idle", id |-> None, row |-> None]

Live == {i \in Ids : bookings[i] # None}

Unrestricted(u) == NoAdminRestrictions /\ u \in Admins

(* Ids a running create has taken: the database picks the id when the row  *)
(* is inserted; choosing it when the request starts shows nowhere earlier. *)
Reserved == {handlers[h].id : h \in Handlers}

Init ==
    /\ bookings = [i \in Ids |-> None]
    /\ issued = {}
    /\ handlers = [h \in Handlers |-> Idle]
    /\ jobs = [w \in Workers |-> NoJob]
    /\ calendar = {}
    /\ faults = 0

Finish(h) == handlers' = [handlers EXCEPT ![h] = Idle]
Advance(h, step) == handlers' = [handlers EXCEPT ![h].step = step]

-----------------------------------------------------------------------------
(* Mutated forms: what a plausible slip in the code would make of an       *)
(* operator defined further down.                                          *)

(* GetConflicts that overlooks bookings still waiting for approval.        *)
ConflictFreeApprovedOnly(h) ==
    LET r == handlers[h] IN
    \A i \in Live \ {r.id} :
        ~(/\ bookings[i].space = r.row.space
          /\ bookings[i].approved
          /\ ConflictsWith(bookings[i], r.row.enter, r.row.leave))

(* The capacity test with <= for <.                                        *)
RoomForOffByOne(r) ==
    \/ MaxConcurrent = 0
    \/ \A t \in r.row.enter .. r.row.leave :
          Cardinality({i \in Live \ {r.id} : ActiveAt(bookings[i], t)})
              <= MaxConcurrent

(* The per-user test with <= for <.                                        *)
UserLimitOffByOne(r) ==
    \/ Unrestricted(r.by)
    \/ MaxPerUser = 0
    \/ Cardinality({i \in Live \ {r.id} :
                     /\ bookings[i].user = r.by
                     /\ OverlapsForUser(bookings[i], r.row.enter, r.row.leave)})
           <= MaxPerUser

(* An UPDATE that inserts when no row matches.                             *)
UpdateRowUpsert(id, row) == bookings' = [bookings EXCEPT ![id] = row]

(* An UPDATE that loses the owner of the booking.                          *)
UpdateRowNoUser(id, row) ==
    bookings' = IF id \in Live
                THEN [bookings EXCEPT ![id] = [row EXCEPT !.user = None]]
                ELSE bookings

(* update() that takes approved from the configuration of the new space,   *)
(* as create() does, instead of keeping it.                                *)
MovedResetsApproval(e, owner, s, slot) ==
    [e EXCEPT !.user = owner, !.space = s, !.enter = slot[1],
              !.leave = slot[2], !.approved = s \notin ApprovalSpaces]

(* delete() that answers before it has deleted: the goroutine is started   *)
(* and the row stays.                                                      *)
DeleteRowNothing(id) == UNCHANGED bookings

(* An update whose goroutine is started for approved bookings only, as it  *)
(* is after a create.                                                      *)
NotifyRemoveOnly(step, id, row) ==
    IF row.user \in CalendarUsers /\ step = "remove"
    THEN \E w \in Workers :
            /\ jobs[w] = NoJob
            /\ jobs' = [jobs EXCEPT ![w] =
                           [step |-> step, id |-> id, row |-> row]]
    ELSE UNCHANGED jobs

-----------------------------------------------------------------------------
(* The checks of checkBookingCreateUpdate and GetConflicts, each evaluated *)
(* on the table as it is when its statement runs.                          *)

(* isValidMaxConcurrentBookingsForUser: counted for the user who sends the *)
(* request, whoever the booking is for.                                    *)
UserLimit(r) ==
    \/ Unrestricted(r.by)
    \/ MaxPerUser = 0
    \/ Cardinality({i \in Live \ {r.id} :
                     /\ bookings[i].user = r.by
                     /\ OverlapsForUser(bookings[i], r.row.enter, r.row.leave)})
           < MaxPerUser

(* IsValidMaxUpcomingBookings, asked on create only.                       *)
UpcomingLimit(r) ==
    \/ r.op = "update"
    \/ Unrestricted(r.by)
    \/ Cardinality({i \in Live : bookings[i].user = r.by}) < MaxUpcoming

(* isValidConcurrent over GetConcurrent: the largest number of other       *)
(* bookings active at a sample of the range must leave room for one more.  *)
RoomFor(r) ==
    \/ MaxConcurrent = 0
    \/ \A t \in r.row.enter .. r.row.leave :
          Cardinality({i \in Live \ {r.id} : ActiveAt(bookings[i], t)})
              < MaxConcurrent

(* GetConflicts returns nothing.                                           *)
ConflictFree(h) ==
    LET r == handlers[h] IN
    \A i \in Live \ {r.id} :
        ~(/\ bookings[i].space = r.row.space
          /\ ConflictsWith(bookings[i], r.row.enter, r.row.leave))

-----------------------------------------------------------------------------
(* Background goroutines.                                                  *)

(* go router.onBooking...: without a CalDAV configuration of the booking's *)
(* user the goroutine writes nothing and is left out.                      *)
Notify(step, id, row) ==
    IF row.user \in CalendarUsers
    THEN \E w \in Workers :
            /\ jobs[w] = NoJob
            /\ jobs' = [jobs EXCEPT ![w] =
                           [step |-> step, id |-> id, row |-> row]]
    ELSE UNCHANGED jobs

(* onBookingDeleted removes the event only if its snapshot knows of one.   *)
NotifyDeleted(id, row) ==
    IF row.caldav THEN Notify("remove", id, row) ELSE UNCHANGED jobs

(* BookingStore.Update: the full row, and nothing if the id is gone.       *)
UpdateRow(id, row) ==
    bookings' = IF id \in Live THEN [bookings EXCEPT ![id] = row]
                               ELSE bookings

(* BookingStore.Delete of a single booking.                                *)
DeleteRow(id) == bookings' = [bookings EXCEPT ![id] = None]

(* createCalDavEvent and updateCalDavEvent, first half: PUT the event under*)
(* the booking's id in the calendar of the user in the snapshot.           *)
JobPut(w) ==
    /\ jobs[w].step = "put"
    /\ calendar' = calendar \cup {<<jobs[w].row.user, jobs[w].id>>}
    /\ jobs' = [jobs EXCEPT ![w].step = "save"]
    /\ UNCHANGED <<bookings, issued, handlers, faults>>

(* Second half: note the event id by writing the whole snapshot back.      *)
JobSave(w) ==
    /\ jobs[w].step = "save"
    /\ UpdateRow(jobs[w].id, [jobs[w].row EXCEPT !.caldav = TRUE])
    /\ jobs' = [jobs EXCEPT ![w] = NoJob]
    /\ UNCHANGED <<issued, handlers, calendar, faults>>

(* onBookingDeleted: remove the event of the snapshot.                     *)
JobRemove(w) ==
    /\ jobs[w].step = "remove"
    /\ calendar' = calendar \ {<<jobs[w].row.user, jobs[w].id>>}
    /\ jobs' = [jobs EXCEPT ![w] = NoJob]
    /\ UNCHANGED <<bookings, issued, handlers, faults>>

(* The CalDAV server refuses or cannot be reached: nothing is written.     *)
JobFails(w) ==
    /\ jobs[w] # NoJob
    /\ faults < MaxFaults
    /\ faults' = faults + 1
    /\ jobs' = [jobs EXCEPT ![w] = NoJob]
    /\ UNCHANGED <<bookings, issued, handlers, calendar>>

-----------------------------------------------------------------------------
(* Requests.                                                               *)

(* create, up to the checks: the requested row; booking for somebody else  *)
(* needs the space-admin role; approved follows from the space.            *)
BeginCreate(h) ==
    /\ handlers[h] = Idle
    /\ \E by \in Users, owner \in Users, s \in Spaces, slot \in Slots,
          id \in Ids \ (issued \cup Reserved) :
          /\ owner = by \/ by \in Admins
          /\ handlers' = [handlers EXCEPT ![h] =
                [op |-> "create", step |-> "user", by |-> by, id |-> id,
                 row |-> [user |-> owner, space |-> s, enter |-> slot[1],
                          leave |-> slot[2],
                          approved |-> s \notin ApprovalSpaces,
                          caldav |-> FALSE]]]
    /\ UNCHANGED <<bookings, issued, jobs, calendar, faults>>

(* eNew of update: id, calendar id and approval are kept from the row that *)
(* was read, the rest comes from the request.                              *)
Moved(e, owner, s, slot) ==
    [e EXCEPT !.user = owner, !.space = s, !.enter = slot[1],
              !.leave = slot[2]]

(* update, up to the checks: GetOne and the owner-or-admin rule.           *)
BeginUpdate(h) ==
    /\ handlers[h] = Idle
    /\ \E id \in Live, by \in Users, owner \in Users, s \in Spaces,
          slot \in Slots :
          /\ bookings[id].user = by \/ by \in Admins
          /\ owner = bookings[id].user \/ by \in Admins
          /\ handlers' = [handlers EXCEPT ![h] =
                [op |-> "update", step |-> "user", by |-> by, id |-> id,
                 row |-> Moved(bookings[id], owner, s, slot)]]
    /\ UNCHANGED <<bookings, issued, jobs, calendar, faults>>

(* isValidBookingRequest: the two limits of the requesting user, who is    *)
(* not asked for any more afterwards.                                      *)
CheckUser(h) ==
    /\ handlers[h].step = "user"
    /\ IF UserLimit(handlers[h]) THEN Advance(h, "upcoming") ELSE Finish(h)
    /\ UNCHANGED <<bookings, issued, jobs, calendar, faults>>

CheckUpcoming(h) ==
    /\ handlers[h].step = "upcoming"
    /\ IF UpcomingLimit(handlers[h])
       THEN handlers' = [handlers EXCEPT ![h].step = "location",
                                         ![h].by = None]
       ELSE Finish(h)
    /\ UNCHANGED <<bookings, issued, jobs, calendar, faults>>

(* isValidConcurrent: the capacity of the location.                        *)
CheckLocation(h) ==
    /\ handlers[h].step = "location"
    /\ IF RoomFor(handlers[h]) THEN Advance(h, "conflicts") ELSE Finish(h)
    /\ UNCHANGED <<bookings, issued, jobs, calendar, faults>>

(* GetConflicts: 409 unless the space is free.                             *)
CheckConflicts(h) ==
    /\ handlers[h].step = "conflicts"
    /\ IF ConflictFree(h) THEN Advance(h, "write") ELSE Finish(h)
    /\ UNCHANGED <<bookings, issued, jobs, calendar, faults>>

(* create: INSERT, then onBookingCreated.                                  *)
WriteCreate(h) ==
    LET r == handlers[h] IN
    /\ r.op = "create" /\ r.step = "write"
    /\ bookings' = [bookings EXCEPT ![r.id] = r.row]
    /\ issued' = issued \cup {r.id}
    /\ IF r.row.approved THEN Notify("put", r.id, r.row)
                         ELSE UNCHANGED jobs
    /\ Finish(h)
    /\ UNCHANGED <<calendar, faults>>

(* update, and approveBooking with approved = true: UPDATE, then the       *)
(* goroutine that PUTs the event.                                          *)
WriteUpdate(h) ==
    LET r == handlers[h] IN
    /\ r.op \in {"update", "approve"} /\ r.step = "write"
    /\ UpdateRow(r.id, r.row)
    /\ Notify("put", r.id, r.row)
    /\ Finish(h)
    /\ UNCHANGED <<issued, calendar, faults>>

(* approveBooking, up to its write: only a booking that is not approved    *)
(* when it is read goes on; the row read is the row written.               *)
BeginDecide(h) ==
    /\ handlers[h] = Idle
    /\ \E id \in Live, op \in {"approve", "decline"} :
          /\ ~bookings[id].approved
          /\ handlers' = [handlers EXCEPT ![h] =
                [op |-> op, step |-> "write", by |-> None, id |-> id,
                 row |-> [bookings[id] EXCEPT !.approved = (op = "approve")]]]
    /\ UNCHANGED <<bookings, issued, jobs, calendar, faults>>

(* approveBooking with approved = false: DELETE, then the goroutine.       *)
WriteDecline(h) ==
    LET r == handlers[h] IN
    /\ r.op = "decline" /\ r.step = "write"
    /\ DeleteRow(r.id)
    /\ NotifyDeleted(r.id, r.row)
    /\ Finish(h)
    /\ UNCHANGED <<issued, calendar, faults>>

(* delete, up to its write: the goroutine starts before the DELETE.        *)
BeginDelete(h) ==
    /\ handlers[h] = Idle
    /\ \E id \in Live :
          /\ NotifyDeleted(id, bookings[id])
          /\ handlers' = [handlers EXCEPT ![h] =
                [op |-> "delete", step |-> "write", by |-> None, id |-> id,
                 row |-> None]]
    /\ UNCHANGED <<bookings, issued, calendar, faults>>

WriteDelete(h) ==
    LET r == handlers[h] IN
    /\ r.op = "delete" /\ r.step = "write"
    /\ DeleteRow(r.id)
    /\ Finish(h)
    /\ UNCHANGED <<issued, jobs, calendar, faults>>

(* The statement fails: 500, and neither the table nor a goroutine.        *)
WriteFails(h) ==
    /\ handlers[h].step = "write"
    /\ faults < MaxFaults
    /\ faults' = faults + 1
    /\ Finish(h)
    /\ UNCHANGED <<bookings, issued, jobs, calendar>>

(* The process restarts: requests and goroutines are gone, nothing of them *)
(* is kept anywhere.                                                       *)
Restart ==
    /\ faults < MaxFaults
    /\ faults' = faults + 1
    /\ handlers' = [h \in Handlers |-> Idle]
    /\ jobs' = [w \in Workers |-> NoJob]
    /\ UNCHANGED <<bookings, issued, calendar>>

Handle(h) ==
    \/ BeginCreate(h) \/ BeginUpdate(h) \/ BeginDecide(h) \/ BeginDelete(h)
    \/ CheckUser(h) \/ CheckUpcoming(h) \/ CheckLocation(h) \/ CheckConflicts(h)
    \/ WriteCreate(h) \/ WriteUpdate(h) \/ WriteDecline(h) \/ WriteDelete(h)
    \/ WriteFails(h)

Work(w) == JobPut(w) \/ JobSave(w) \/ JobRemove(w) \/ JobFails(w)

Next ==
    \/ \E h \in Handlers : Handle(h)
    \/ \E w \in Workers : Work(w)
    \/ Restart

Spec == Init /\ [][Next]_vars

(* A goroutine goes on once the calendar has answered, and a request that  *)
(* was accepted runs to its end: the Go scheduler starves nobody.  The     *)
(* calls of the calendar are not fair: http.DefaultClient has no timeout   *)
(* and the context no deadline, so that one may never return.  Whether a   *)
(* client sends a request at all is up to the client.                      *)
Fairness ==
    /\ \A w \in Workers : WF_vars(JobSave(w))
    /\ \A h \in Handlers : WF_vars(WriteDelete(h))

FairSpec == Spec /\ Fairness

-----------------------------------------------------------------------------
(* Properties.                                                             *)

(* Whoever is not idle works on a booking, and has a row unless the row is *)
(* to be deleted.                                                          *)
WellFormed ==
    /\ \A h \in Handlers : handlers[h].step # "idle" =>
          /\ handlers[h].id \in Ids
          /\ handlers[h].op # "delete" => handlers[h].row \in Booking
    /\ \A w \in Workers : jobs[w].step # "idle" =>
          jobs[w].id \in Ids /\ jobs[w].row \in Booking

TypeOK ==
    /\ bookings \in [Ids -> Booking \cup {None}]
    /\ issued \subseteq Ids
    /\ handlers \in [Handlers -> Request]
    /\ jobs \in [Workers -> Job]
    /\ calendar \subseteq Users \X Ids
    /\ faults \in 0 .. MaxFaults
    /\ WellFormed

(* The bookings that hold an instant of a space.                           *)
Holding(s, t) == {i \in Live : bookings[i].space = s /\ Covers(bookings[i], t)}

Actors == Handlers \cup Workers

(* The instants anybody books.                                             *)
Instants == UNION {slot[1] .. slot[2] : slot \in Slots}

(* A space is never handed out more often than there are requests and      *)
(* goroutines running side by side: check-then-insert without a            *)
(* transaction loses at most one seat per competitor, and never adds up    *)
(* over time.                                                              *)
OverlapBound ==
    \A s \in Spaces, t \in Instants :
        Cardinality(Holding(s, t)) <= Cardinality(Actors)

(* Same for the capacity of the location: the excess over the limit stays  *)
(* below the number of requests and goroutines in progress.                *)
CapacityBound ==
    MaxConcurrent # 0 =>
        \A t \in Instants :
            Cardinality({i \in Live : ActiveAt(bookings[i], t)})
                < MaxConcurrent + Cardinality(Actors)

(* The limit itself, for the minute that follows each sample: a booking is *)
(* there from the minute it starts to the one it ends.  GetConcurrent asks *)
(* for bookings strictly around its samples and does not see it there.     *)
CapacityAtAnyTime ==
    MaxConcurrent # 0 =>
        \A t \in Instants :
            Cardinality({i \in Live : /\ bookings[i].enter <= t
                                      /\ t < bookings[i].leave})
                <= MaxConcurrent

(* What the API documents: one booking per space and instant.              *)
NoDoubleBooking ==
    \A i, j \in Live :
        (i # j /\ bookings[i].space = bookings[j].space) =>
            ~ShareInstant(bookings[i], bookings[j].enter, bookings[j].leave)

(* A user who books only for himself passes the limit on simultaneous      *)
(* bookings by at most the requests he has in flight.                      *)
UserBound ==
    (Admins = {} /\ MaxPerUser # 0) =>
        \A u \in Users, t \in Instants :
            Cardinality({i \in Live : /\ bookings[i].user = u
                                      /\ bookings[i].enter <= t
                                      /\ t < bookings[i].leave})
                < MaxPerUser + Cardinality(Actors)

(* A removed booking stays removed, however late the goroutine that still  *)
(* holds its snapshot writes it back.                                      *)
GoneStaysGone ==
    [][\A i \in issued : i \notin Live => bookings'[i] = None]_vars

(* While nothing fails, a row that names a calendar event has one, or is   *)
(* about to be deleted.                                                    *)
RecordedEventExists ==
    faults = 0 =>
        \A i \in Live :
            bookings[i].caldav =>
                \/ \E u \in Users : <<u, i>> \in calendar
                \/ \E h \in Handlers :
                      handlers[h].op = "delete" /\ handlers[h].id = i

(* Requests one at a time: approval is never taken back while the booking  *)
(* lives.                                                                  *)
ApprovalIsKept ==
    [][\A i \in Live : bookings[i].approved =>
          bookings'[i] = None \/ bookings'[i].approved]_vars

(* An approved booking of a user with a calendar reaches that calendar,    *)
(* unless it is deleted, moved to another user or sent back first, or a    *)
(* fault intervenes: nothing is retried.  On one condition: every call of  *)
(* the calendar returns.  Nothing in the code sees to it; a call that hangs*)
(* keeps its goroutine for good and the event is never there.              *)
CalendarReturns ==
    \A w \in Workers : []<>(jobs[w].step \notin {"put", "remove"})

WantsEvent(i, u) ==
    i \in Live /\ bookings[i].user = u /\ bookings[i].approved
ReachesCalendar ==
    CalendarReturns =>
        \A i \in Ids, u \in CalendarUsers :
            WantsEvent(i, u) ~>
                (~WantsEvent(i, u) \/ <<u, i>> \in calendar \/ faults > 0)

-----------------------------------------------------------------------------
(* The inductive invariant behind the two bounds: besides the rows of the  *)
(* table, count what the requests past their check and the goroutines may  *)
(* still write.  A check that passes leaves nothing but the pending writes *)
(* of the other actors, and no other step adds a claim.                    *)

RowWriters == {"create", "update", "approve"}

(* Rows that may yet be written: <<actor's booking id, row>> as sets of    *)
(* actors, once past the conflict check and once past the capacity check.  *)
PastConflicts == {h \in Handlers : /\ handlers[h].step = "write"
                                   /\ handlers[h].op \in RowWriters}
PastLocation  == {h \in Handlers :
                     /\ handlers[h].step \in {"conflicts", "write"}
                     /\ handlers[h].op \in RowWriters}
Saving        == {w \in Workers : jobs[w].step \in {"put", "save"}}

HoldsAt(row, s, t) == row.space = s /\ Covers(row, t)

Claims(s, t) ==
    Holding(s, t)
      \cup {handlers[h].id : h \in {g \in PastConflicts :
                                       HoldsAt(handlers[g].row, s, t)}}
      \cup {jobs[w].id : w \in {v \in Saving : HoldsAt(jobs[v].row, s, t)}}

ActiveClaims(t) ==
    {i \in Live : ActiveAt(bookings[i], t)}
      \cup {handlers[h].id : h \in {g \in PastLocation :
                                       ActiveAt(handlers[g].row, t)}}
      \cup {jobs[w].id : w \in {v \in Saving : ActiveAt(jobs[v].row, t)}}

(* No more bookings claim an instant of a space than there are actors.     *)
ClaimBound ==
    \A s \in Spaces, t \in Instants :
        /\ IsFiniteSet(Claims(s, t))
        /\ Cardinality(Claims(s, t)) <= Cardinality(Actors)

(* Nor do the claims on an instant of the location pass its capacity by    *)
(* as many.                                                                *)
ActiveClaimBound ==
    MaxConcurrent # 0 =>
        \A t \in Instants :
            /\ IsFiniteSet(ActiveClaims(t))
            /\ Cardinality(ActiveClaims(t))
                  < MaxConcurrent + Cardinality(Actors)
=============================================================================
