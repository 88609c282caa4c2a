---------------------------- MODULE Ledger_proofs ----------------------------
(***************************************************************************)
(* More proofs about Bookings, for every value of its constants: requests  *)
(* that come one at a time, where nobody has a calendar, keep the promise  *)
(* of Ledger and never take an approval back; and however many requests    *)
(* and goroutines there are, a booking that names a calendar event has     *)
(* one.  The typing, the fresh ids and the removals are those of           *)
(* Bookings_proofs.                                                        *)
(***************************************************************************)
EXTENDS MCBookings, Bookings_proofs

-----------------------------------------------------------------------------
(* Ids.                                                                    *)

(* Only inserted rows are in the table, and only they are worked on, but   *)
(* for the creates.                                                        *)
IssuedIds ==
  /\ Live \subseteq issued
  /\ \A h \in Handlers : handlers[h].op \notin {"none", "create"} =>
                            handlers[h].id \in issued
  /\ \A w \in Workers : jobs[w].step # "idle" => jobs[w].id \in issued

LEMMA InitIssued == Init => IssuedIds
  BY DEF Init, IssuedIds, Live, Idle, NoJob

(* A goroutine gets the id it is started for.                              *)
LEMMA NotifyIssued ==
  ASSUME TypeOK, IssuedIds, NEW step, NEW id, NEW row,
         \/ NotifyDeleted(id, row) \/ Notify(step, id, row) \/ UNCHANGED jobs,
         issued \subseteq issued', id \in issued'
  PROVE  \A w \in Workers : jobs'[w].step # "idle" => jobs'[w].id \in issued'
  BY DEF IssuedIds, NotifyDeleted, Notify, TypeOK

(* Requests take their id from the table, goroutines from requests, and    *)
(* rows are written under the id of either.                                *)
LEMMA StepIssued == TypeOK /\ IssuedIds /\ [Next]_vars => IssuedIds'
  <1> SUFFICES ASSUME TypeOK, IssuedIds, [Next]_vars
               PROVE  IssuedIds'
    OBVIOUS
  <1>1. issued \subseteq issued'
    BY DEF Next, Handle, Work, vars, BeginCreate, BeginUpdate, BeginDecide,
           BeginDelete, CheckUser, CheckUpcoming, CheckLocation,
           CheckConflicts, WriteCreate, WriteUpdate, WriteDecline, WriteDelete,
           WriteFails, JobPut, JobSave, JobRemove, JobFails, Restart
  <1>2. Live' \subseteq issued'
    <2>1. CASE UNCHANGED bookings
      BY <1>1, <2>1 DEF IssuedIds, Live
    <2>2. ASSUME NEW h \in Handlers, WriteCreate(h)
          PROVE  Live' \subseteq issued'
      BY <1>1, <2>2 DEF IssuedIds, Live, WriteCreate, TypeOK
    <2>3. ASSUME NEW h \in Handlers,
                 WriteUpdate(h) \/ WriteDecline(h) \/ WriteDelete(h)
          PROVE  Live' \subseteq issued'
      BY <1>1, <2>3 DEF IssuedIds, Live, WriteUpdate, WriteDecline,
                        WriteDelete, UpdateRow, DeleteRow, TypeOK
    <2>4. ASSUME NEW w \in Workers, JobSave(w)
          PROVE  Live' \subseteq issued'
      BY <1>1, <2>4 DEF IssuedIds, Live, JobSave, UpdateRow, TypeOK
    <2> QED
      BY <2>1, <2>2, <2>3, <2>4
         DEF Next, Handle, Work, vars, BeginCreate, BeginUpdate, BeginDecide,
             BeginDelete, CheckUser, CheckUpcoming, CheckLocation,
             CheckConflicts, WriteFails, JobPut, JobRemove, JobFails, Restart
  <1>3. ASSUME NEW g \in Handlers, handlers'[g].op \notin {"none", "create"}
        PROVE  handlers'[g].id \in issued'
    <2>1. CASE /\ handlers'[g].op = handlers[g].op
               /\ handlers'[g].id = handlers[g].id
      BY <1>1, <1>3, <2>1 DEF IssuedIds
    <2>2. ASSUME NEW h \in Handlers,
                 BeginUpdate(h) \/ BeginDecide(h) \/ BeginDelete(h)
          PROVE  \/ handlers'[g] = handlers[g] \/ handlers'[g].id \in Live
      BY <2>2 DEF BeginUpdate, BeginDecide, BeginDelete, TypeOK
    <2>3. ASSUME NEW h \in Handlers, BeginCreate(h)
          PROVE  handlers'[g] = handlers[g]
      BY <1>3, <2>3 DEF BeginCreate, TypeOK
    <2>4. ASSUME NEW h \in Handlers,
                 \/ CheckUser(h) \/ CheckUpcoming(h)
                 \/ CheckLocation(h) \/ CheckConflicts(h)
                 \/ WriteCreate(h) \/ WriteUpdate(h) \/ WriteDecline(h)
                 \/ WriteDelete(h) \/ WriteFails(h)
          PROVE  /\ handlers'[g].op = handlers[g].op
                 /\ handlers'[g].id = handlers[g].id
      BY <1>3, <2>4 DEF CheckUser, CheckUpcoming, CheckLocation, CheckConflicts,
                 WriteCreate, WriteUpdate, WriteDecline, WriteDelete,
                 WriteFails, Advance, Finish, Idle, TypeOK, Request
    <2>5. CASE UNCHANGED handlers
      BY <2>1, <2>5
    <2>6. ~Restart
      BY <1>3 DEF Restart, Idle
    <2>7. ASSUME NEW w \in Workers, Work(w)
          PROVE  UNCHANGED handlers
      BY <2>7 DEF Work, JobPut, JobSave, JobRemove, JobFails
    <2> QED
      BY <1>1, <2>1, <2>2, <2>3, <2>4, <2>5, <2>6, <2>7
         DEF Next, Handle, vars, IssuedIds
  <1>4. \A w \in Workers : jobs'[w].step # "idle" => jobs'[w].id \in issued'
    <2>1. CASE UNCHANGED jobs
      BY <1>1, <2>1 DEF IssuedIds
    <2>2. ASSUME NEW h \in Handlers, WriteCreate(h)
          PROVE  \A w \in Workers : jobs'[w].step # "idle" =>
                                       jobs'[w].id \in issued'
      BY <1>1, <2>2, NotifyIssued DEF WriteCreate
    <2>3. ASSUME NEW h \in Handlers, WriteUpdate(h) \/ WriteDecline(h)
          PROVE  \A w \in Workers : jobs'[w].step # "idle" =>
                                       jobs'[w].id \in issued'
      <3>1. handlers[h].id \in issued'
        BY <1>1, <2>3 DEF WriteUpdate, WriteDecline, IssuedIds
      <3> QED
        BY <1>1, <2>3, <3>1, NotifyIssued DEF WriteUpdate, WriteDecline
    <2>4. ASSUME NEW h \in Handlers, BeginDelete(h)
          PROVE  \A w \in Workers : jobs'[w].step # "idle" =>
                                       jobs'[w].id \in issued'
      <3>1. PICK id \in Live : NotifyDeleted(id, bookings[id])
        BY <2>4 DEF BeginDelete
      <3>2. id \in issued'
        BY <1>1 DEF IssuedIds
      <3> QED
        BY <1>1, <3>1, <3>2, NotifyIssued
    <2>5. ASSUME NEW w \in Workers, Work(w)
          PROVE  \A v \in Workers : jobs'[v].step # "idle" =>
                                       jobs'[v].id \in issued'
      BY <1>1, <2>5 DEF Work, JobPut, JobSave, JobRemove, JobFails, NoJob,
                        IssuedIds, TypeOK, Job
    <2>6. CASE Restart
      BY <2>6 DEF Restart, NoJob
    <2> QED
      BY <2>1, <2>2, <2>3, <2>4, <2>5, <2>6
         DEF Next, Handle, vars, BeginCreate, BeginUpdate, BeginDecide,
             CheckUser, CheckUpcoming, CheckLocation, CheckConflicts,
             WriteDelete, WriteFails
  <1> QED
    BY <1>2, <1>3, <1>4 DEF IssuedIds

-----------------------------------------------------------------------------
(* One request at a time.                                                  *)

NobodyAtWork == \A w \in Workers : jobs[w] = NoJob

(* What request h knows when no other writes: the checks it has passed     *)
(* still hold, and its copy of a row is the row, but for what it changes.  *)
StillTrue(h) ==
  LET r == handlers[h] IN
  /\ r.op = "create" => r.id \notin issued
  /\ r.op \notin {"none", "create"} => r.id \in Live
  /\ r.op = "update" => r.row.approved = bookings[r.id].approved
  /\ r.op = "approve" => r.row = [bookings[r.id] EXCEPT !.approved = TRUE]
  /\ r.op \in {"create", "update"} => <<r.row.enter, r.row.leave>> \in Slots
  /\ (r.op \in {"create", "update"} /\ r.step \in {"conflicts", "write"}) =>
        RoomFor(r)
  /\ (r.op \in {"create", "update"} /\ r.step = "write") => ConflictFree(h)

LEMMA InitAlone ==
  ASSUME NEW h \in Handlers
  PROVE  Init => NobodyAtWork /\ StillTrue(h)
  BY DEF Init, NobodyAtWork, StillTrue, Idle

LEMMA NobodyWorks == NobodyAtWork => ~\E w \in Workers : Work(w)
  <1>1. ASSUME NobodyAtWork, NEW w \in Workers, Work(w)
        PROVE  FALSE
    BY <1>1 DEF Work, JobPut, JobSave, JobRemove, JobFails, NobodyAtWork, NoJob
  <1> QED
    BY <1>1

(* A goroutine has work only where somebody has a calendar.                *)
LEMMA NobodyStarts ==
  ASSUME CalendarUsers = {}, TypeOK, NobodyAtWork, [Next]_vars
  PROVE  NobodyAtWork'
  <1>1. ASSUME NEW h \in Handlers, Handle(h)
        PROVE  UNCHANGED jobs
    BY <1>1 DEF Handle, Notify, NotifyDeleted, BeginCreate, BeginUpdate,
                BeginDecide, BeginDelete, CheckUser, CheckUpcoming,
                CheckLocation, CheckConflicts, WriteCreate, WriteUpdate,
                WriteDecline, WriteDelete, WriteFails
  <1>2. ~\E w \in Workers : Work(w)
    BY NobodyWorks
  <1>3. CASE Restart
    BY <1>3 DEF Restart, NobodyAtWork
  <1>4. CASE UNCHANGED jobs
    BY <1>4 DEF NobodyAtWork, NoJob
  <1> QED
    BY <1>1, <1>2, <1>3, <1>4 DEF Next, vars

(* The two checks see the table and the request's row, nothing else.       *)
LEMMA ChecksStay ==
  ASSUME NEW h, bookings' = bookings,
         handlers'[h].id = handlers[h].id, handlers'[h].row = handlers[h].row
  PROVE  /\ RoomFor(handlers[h])' <=> RoomFor(handlers[h])
         /\ ConflictFree(h)' <=> ConflictFree(h)
  <1>1. Live' = Live
    BY DEF Live
  <1> QED
    BY <1>1 DEF RoomFor, ConflictFree

(* Only the request itself writes, and it ends with its write; until then  *)
(* the table is the one its checks have seen.                              *)
LEMMA StepStillTrue ==
  ASSUME NEW h, Handlers = {h}, TypeOK, NobodyAtWork, StillTrue(h), [Next]_vars
  PROVE  StillTrue(h)'
  <1> DEFINE r == handlers[h]
  <1>0. r \in Request
    BY DEF TypeOK
  <1>1. CASE handlers'[h] = Idle
    BY <1>1 DEF StillTrue, Idle
  <1>2. ASSUME bookings' = bookings, issued' = issued,
               handlers'[h].op = r.op, handlers'[h].id = r.id,
               handlers'[h].row = r.row,
               (r.op \in {"create", "update"}
                  /\ handlers'[h].step \in {"conflicts", "write"}) =>
                   RoomFor(r),
               (r.op \in {"create", "update"} /\ handlers'[h].step = "write")
                  => ConflictFree(h)
        PROVE  StillTrue(h)'
    <2>1. Live' = Live
      BY <1>2 DEF Live
    <2>2. /\ RoomFor(handlers[h])' <=> RoomFor(handlers[h])
          /\ ConflictFree(h)' <=> ConflictFree(h)
      BY <1>2, ChecksStay
    <2> QED
      BY <1>2, <2>1, <2>2 DEF StillTrue
  <1>3. CASE UNCHANGED <<bookings, issued, handlers>>
    BY <1>2, <1>3 DEF StillTrue
  <1>4. CASE BeginCreate(h)
    <2>1. PICK by \in Users, owner \in Users, s \in Spaces, slot \in Slots,
               id \in Ids \ (issued \cup Reserved) :
            handlers' = [handlers EXCEPT ![h] =
                [op |-> "create", step |-> "user", by |-> by, id |-> id,
                 row |-> [user |-> owner, space |-> s, enter |-> slot[1],
                          leave |-> slot[2],
                          approved |-> s \notin ApprovalSpaces,
                          caldav |-> FALSE]]]
      BY <1>4 DEF BeginCreate
    <2>2. /\ handlers'[h].op = "create" /\ handlers'[h].step = "user"
          /\ handlers'[h].id \notin issued'
          /\ handlers'[h].row.enter = slot[1]
          /\ handlers'[h].row.leave = slot[2]
      BY <1>4, <2>1 DEF TypeOK, BeginCreate
    <2>3. <<slot[1], slot[2]>> \in Slots
      BY SlotsAssumption
    <2> QED
      BY <2>2, <2>3 DEF StillTrue
  <1>5. CASE BeginUpdate(h)
    <2>1. PICK id \in Live, by \in Users, owner \in Users, s \in Spaces,
               slot \in Slots :
            /\ bookings[id].user = by \/ by \in Admins
            /\ owner = bookings[id].user \/ by \in Admins
            /\ handlers' = [handlers EXCEPT ![h] =
                  [op |-> "update", step |-> "user", by |-> by, id |-> id,
                   row |-> Moved(bookings[id], owner, s, slot)]]
      BY <1>5 DEF BeginUpdate
    <2>2. /\ handlers'[h].op = "update" /\ handlers'[h].step = "user"
          /\ handlers'[h].id = id
          /\ handlers'[h].row = Moved(bookings[id], owner, s, slot)
      BY <2>1 DEF TypeOK
    <2>3. /\ Moved(bookings[id], owner, s, slot).enter = slot[1]
          /\ Moved(bookings[id], owner, s, slot).leave = slot[2]
          /\ Moved(bookings[id], owner, s, slot).approved
               = bookings[id].approved
      BY LiveRow DEF Moved, Booking
    <2>4. bookings' = bookings /\ Live' = Live
      BY <1>5 DEF BeginUpdate, Live
    <2>5. <<slot[1], slot[2]>> \in Slots
      BY SlotsAssumption
    <2> QED
      BY <2>2, <2>3, <2>4, <2>5 DEF StillTrue
  <1>6. CASE BeginDecide(h)
    <2>1. PICK id \in Live, op \in {"approve", "decline"} :
            handlers' = [handlers EXCEPT ![h] =
                [op |-> op, step |-> "write", by |-> None, id |-> id,
                 row |-> [bookings[id] EXCEPT !.approved = (op = "approve")]]]
      BY <1>6 DEF BeginDecide
    <2>2. /\ handlers'[h].op = op /\ handlers'[h].id = id
          /\ handlers'[h].row
               = [bookings[id] EXCEPT !.approved = (op = "approve")]
      BY <2>1 DEF TypeOK
    <2>3. bookings' = bookings /\ Live' = Live
      BY <1>6 DEF BeginDecide, Live
    <2>4. op = "approve" =>
             handlers'[h].row = [bookings[id] EXCEPT !.approved = TRUE]
      BY <2>2
    <2> QED
      BY <2>2, <2>3, <2>4 DEF StillTrue
  <1>7. CASE BeginDelete(h)
    <2>1. PICK id \in Live :
            handlers' = [handlers EXCEPT ![h] =
                [op |-> "delete", step |-> "write", by |-> None, id |-> id,
                 row |-> None]]
      BY <1>7 DEF BeginDelete
    <2>2. handlers'[h].op = "delete" /\ handlers'[h].id = id
      BY <2>1 DEF TypeOK
    <2>3. Live' = Live
      BY <1>7 DEF BeginDelete, Live
    <2> QED
      BY <2>2, <2>3 DEF StillTrue
  <1>8. CASE /\ \/ CheckUser(h) \/ CheckUpcoming(h)
                \/ CheckLocation(h) \/ CheckConflicts(h)
             /\ handlers'[h] # Idle
    <2>1. bookings' = bookings /\ issued' = issued
      BY <1>8 DEF CheckUser, CheckUpcoming, CheckLocation, CheckConflicts
    <2>2. /\ handlers'[h].op = r.op /\ handlers'[h].id = r.id
          /\ handlers'[h].row = r.row
          /\ \/ handlers'[h].step \in {"upcoming", "location"}
             \/ handlers'[h].step = "conflicts" /\ RoomFor(r)
             \/ handlers'[h].step = "write" /\ r.step = "conflicts"
                  /\ ConflictFree(h)
      BY <1>0, <1>8 DEF CheckUser, CheckUpcoming, CheckLocation, CheckConflicts,
                  Advance, Finish, TypeOK, Request
    <2> QED
      BY <2>1, <2>2, <1>2 DEF StillTrue
  <1>9. CASE \/ WriteCreate(h) \/ WriteUpdate(h) \/ WriteDecline(h)
             \/ WriteDelete(h) \/ WriteFails(h) \/ Restart
    BY <1>1, <1>9 DEF WriteCreate, WriteUpdate, WriteDecline, WriteDelete,
                      WriteFails, Restart, Finish, TypeOK
  <1>10. ~\E w \in Workers : Work(w)
    BY NobodyWorks
  <1> QED
    BY <1>1, <1>3, <1>4, <1>5, <1>6, <1>7, <1>8, <1>9, <1>10
       DEF Next, Handle, vars

-----------------------------------------------------------------------------
(* The ledger.                                                             *)

(* Ledger counts with an instance of FiniteSets of its own.                *)
LEMMA SameCount ==
  ASSUME NEW S
  PROVE  Promise!Cardinality(S) = Cardinality(S)
  BY DEF Promise!Cardinality, Cardinality

(* A row without its calendar id is an entry of the ledger.                *)
LEMMA ForgetRow ==
  ASSUME NEW row \in Booking
  PROVE  /\ Forget(row) \in Promise!Entry /\ Forget(row) # None
         /\ Forget(row).user = row.user /\ Forget(row).space = row.space
         /\ Forget(row).enter = row.enter /\ Forget(row).leave = row.leave
         /\ Forget(row).approved = row.approved
  BY ForgetAssumption DEF Forget, Booking, Promise!Entry

LEMMA TableRows ==
  ASSUME TypeOK
  PROVE  /\ Promise!Held = Live
         /\ \A i \in Live : Table[i] = Forget(bookings[i])
         /\ \A i \in Ids \ Live : Table[i] = None
  BY LiveRow, ForgetRow DEF Table, Promise!Held, Live, TypeOK

LEMMA TableWrite ==
  ASSUME TypeOK, NEW id \in Ids, NEW row \in Booking,
         bookings' = [bookings EXCEPT ![id] = row]
  PROVE  Table' = [Table EXCEPT ![id] = Forget(row)]
  <1>1. row # None
    BY NoneAssumption
  <1> QED
    BY <1>1 DEF Table, TypeOK

LEMMA TableDelete ==
  ASSUME TypeOK, NEW id \in Ids, bookings' = [bookings EXCEPT ![id] = None]
  PROVE  Table' = [Table EXCEPT ![id] = None]
  BY DEF Table, TypeOK

(* The conflict clause and the sweep of the code find no less than what    *)
(* the ledger forbids.                                                     *)
LEMMA ChecksKeepPromise ==
  ASSUME TypeOK, NEW h \in Handlers, handlers[h].row \in Booking,
         RoomFor(handlers[h]), ConflictFree(h)
  PROVE  /\ Promise!SeatFree(handlers[h].id, Forget(handlers[h].row))
         /\ Promise!RoomLeft(handlers[h].id, Forget(handlers[h].row))
  <1> DEFINE r == handlers[h]
             e == Forget(r.row)
  <1>1. /\ e.space = r.row.space /\ e.enter = r.row.enter
        /\ e.leave = r.row.leave /\ e.enter \in Int /\ e.leave \in Int
    BY ForgetRow DEF Booking
  <1>2. ASSUME NEW i \in Live
        PROVE  /\ bookings[i] \in Booking
               /\ Table[i].space = bookings[i].space
               /\ Table[i].enter = bookings[i].enter
               /\ Table[i].leave = bookings[i].leave
    BY LiveRow, ForgetRow, TableRows
  <1>3. Promise!SeatFree(r.id, e)
    <2> SUFFICES ASSUME NEW i \in Live \ {r.id}, Table[i].space = e.space,
                        Promise!ShareInstant(Table[i], e.enter, e.leave)
                 PROVE  FALSE
      BY TableRows DEF Promise!SeatFree
    <2>1. PICK t \in {bookings[i].enter, r.row.enter} :
            Covers(bookings[i], t) /\ r.row.enter <= t /\ t <= r.row.leave
      BY <1>1, <1>2 DEF Promise!ShareInstant, Promise!Covers, Covers
    <2>2. /\ bookings[i].enter \in Int /\ bookings[i].leave \in Int
          /\ r.row.enter \in Int /\ r.row.leave \in Int /\ t \in Int
      BY <1>1, <1>2 DEF Booking
    <2>3. ConflictsWith(bookings[i], r.row.enter, r.row.leave)
      BY <2>1, <2>2, ConflictSeesSharedInstant
    <2> QED
      BY <1>1, <1>2, <2>3 DEF ConflictFree
  <1>4. Promise!RoomLeft(r.id, e)
    <2> SUFFICES ASSUME MaxConcurrent # 0, NEW t \in e.enter .. e.leave
                 PROVE  Cardinality({i \in Promise!Held \ {r.id} :
                                       Promise!ActiveAt(Table[i], t)})
                          < MaxConcurrent
      BY SameCount DEF Promise!RoomLeft
    <2>1. {i \in Promise!Held \ {r.id} : Promise!ActiveAt(Table[i], t)}
            = {i \in Live \ {r.id} : ActiveAt(bookings[i], t)}
      BY <1>2, TableRows DEF Promise!ActiveAt, ActiveAt
    <2>2. t \in r.row.enter .. r.row.leave
      BY <1>1
    <2> QED
      BY <2>1, <2>2 DEF RoomFor
  <1> QED
    BY <1>3, <1>4

(* An INSERT books, an UPDATE moves or approves, a DELETE removes, and     *)
(* nothing else shows in the ledger.                                       *)
LEMMA PromiseStep ==
  ASSUME NEW h, Handlers = {h}, TypeOK, NobodyAtWork, StillTrue(h), FreshIds,
         [Next]_vars
  PROVE  [Promise!LedgerNext]_(Promise!ledgerVars)
  <1> DEFINE r == handlers[h]
  <1>1. CASE UNCHANGED <<bookings, issued>>
    BY <1>1 DEF Promise!ledgerVars, Table
  <1>2. CASE WriteCreate(h)
    <2>1. /\ r.id \in Ids /\ r.row \in Booking /\ r.id \notin issued
          /\ RoomFor(r) /\ ConflictFree(h)
          /\ <<r.row.enter, r.row.leave>> \in Slots
      BY <1>2 DEF WriteCreate, TypeOK, WellFormed, StillTrue
    <2>2. /\ Promise!SeatFree(r.id, Forget(r.row))
          /\ Promise!RoomLeft(r.id, Forget(r.row))
      BY <2>1, ChecksKeepPromise
    <2>3. /\ Table' = [Table EXCEPT ![r.id] = Forget(r.row)]
          /\ issued' = issued \cup {r.id}
      BY <1>2, <2>1, TableWrite DEF WriteCreate
    <2>4. Promise!Book(r.id, Forget(r.row))
      BY <2>1, <2>2, <2>3 DEF Promise!Book
    <2>5. PICK slot \in Slots : slot = <<r.row.enter, r.row.leave>>
      BY <2>1
    <2>6. /\ r.row.user \in Users /\ r.row.space \in Spaces
          /\ r.row.approved \in BOOLEAN
          /\ slot[1] = r.row.enter /\ slot[2] = r.row.leave
      BY <2>1, <2>5 DEF Booking
    <2>7. Promise!LedgerNext
      BY <2>1, <2>4, <2>6 DEF Promise!LedgerNext, Forget
    <2> QED
      BY <2>7
  <1>3. CASE WriteUpdate(h) /\ r.op = "update"
    <2>1. /\ r.id \in Live /\ r.row \in Booking /\ r.id \in Ids
          /\ RoomFor(r) /\ ConflictFree(h)
          /\ <<r.row.enter, r.row.leave>> \in Slots
          /\ r.row.approved = bookings[r.id].approved
      BY <1>3 DEF WriteUpdate, TypeOK, WellFormed, StillTrue
    <2>2. /\ Promise!SeatFree(r.id, Forget(r.row))
          /\ Promise!RoomLeft(r.id, Forget(r.row))
      BY <2>1, ChecksKeepPromise
    <2>3. /\ Table' = [Table EXCEPT ![r.id] = Forget(r.row)]
          /\ issued' = issued
      BY <1>3, <2>1, TableWrite DEF WriteUpdate, UpdateRow
    <2>4. Forget(r.row).approved = Table[r.id].approved
      BY <2>1, TableRows, LiveRow, ForgetRow
    <2>5. Promise!Move(r.id, Forget(r.row))
      BY <2>1, <2>2, <2>3, <2>4, TableRows DEF Promise!Move
    <2>6. PICK slot \in Slots : slot = <<r.row.enter, r.row.leave>>
      BY <2>1
    <2>7. /\ r.row.user \in Users /\ r.row.space \in Spaces
          /\ r.row.approved \in BOOLEAN
          /\ slot[1] = r.row.enter /\ slot[2] = r.row.leave
      BY <2>1, <2>6 DEF Booking
    <2>8. Promise!LedgerNext
      BY <2>1, <2>5, <2>7 DEF Promise!LedgerNext, Forget
    <2> QED
      BY <2>8
  <1>4. CASE WriteUpdate(h) /\ r.op # "update"
    <2>1. /\ r.id \in Live /\ r.row \in Booking /\ r.id \in Ids
          /\ r.row = [bookings[r.id] EXCEPT !.approved = TRUE]
      BY <1>4 DEF WriteUpdate, TypeOK, WellFormed, StillTrue
    <2>2. /\ Table' = [Table EXCEPT ![r.id] = Forget(r.row)]
          /\ issued' = issued
      BY <1>4, <2>1, TableWrite DEF WriteUpdate, UpdateRow
    <2>3. Forget(r.row) = [Table[r.id] EXCEPT !.approved = TRUE]
      <3> DEFINE b == bookings[r.id]
                 e == [Table[r.id] EXCEPT !.approved = TRUE]
      <3>1. b \in Booking /\ Table[r.id] = Forget(b)
        BY <2>1, TableRows, LiveRow
      <3>2. /\ r.row.user = b.user /\ r.row.space = b.space
            /\ r.row.enter = b.enter /\ r.row.leave = b.leave
            /\ r.row.approved = TRUE
        BY <2>1, <3>1 DEF Booking
      <3>3. Forget(b) \in Promise!Entry /\ Forget(r.row) \in Promise!Entry
        BY <2>1, <3>1, ForgetRow
      <3>4. /\ e \in Promise!Entry /\ e.approved = TRUE
            /\ e.user = Forget(b).user /\ e.space = Forget(b).space
            /\ e.enter = Forget(b).enter /\ e.leave = Forget(b).leave
        BY <3>1, <3>3 DEF Promise!Entry
      <3> HIDE DEF e
      <3>5. /\ Forget(r.row).user = e.user /\ Forget(r.row).space = e.space
            /\ Forget(r.row).enter = e.enter
            /\ Forget(r.row).leave = e.leave
            /\ Forget(r.row).approved = e.approved
        BY <2>1, <3>1, <3>2, <3>4, ForgetRow
      <3>6. Forget(r.row) = e
        BY <3>3, <3>4, <3>5 DEF Promise!Entry
      <3> QED
        BY <3>6 DEF e
    <2>4. Table' = [Table EXCEPT ![r.id].approved = TRUE]
      BY <2>2, <2>3 DEF Table
    <2>5. Promise!Approve(r.id)
      BY <2>1, <2>2, <2>4, TableRows DEF Promise!Approve
    <2> QED
      BY <2>1, <2>5 DEF Promise!LedgerNext
  <1>5. CASE WriteDecline(h) \/ WriteDelete(h)
    <2>1. r.id \in Live /\ r.id \in Ids
      BY <1>5 DEF WriteDecline, WriteDelete, StillTrue, Live
    <2>2. Table' = [Table EXCEPT ![r.id] = None] /\ issued' = issued
      BY <1>5, <2>1, TableDelete DEF WriteDecline, WriteDelete, DeleteRow
    <2>3. Promise!Remove(r.id)
      BY <2>1, <2>2, TableRows DEF Promise!Remove
    <2> QED
      BY <2>1, <2>3 DEF Promise!LedgerNext
  <1>6. ~\E w \in Workers : Work(w)
    BY NobodyWorks
  <1> QED
    BY <1>1, <1>2, <1>3, <1>4, <1>5, <1>6
       DEF Next, Handle, vars, BeginCreate, BeginUpdate, BeginDecide,
           BeginDelete, CheckUser, CheckUpcoming, CheckLocation,
           CheckConflicts, WriteFails, Restart

LEMMA PromiseInit == Init => Promise!LedgerInit
  BY DEF Init, Promise!LedgerInit, Table

(* The refinement: with one request at a time and nobody who uses a        *)
(* calendar, create, update, approveBooking and delete behave as the       *)
(* indivisible operations of the ledger, whatever fails or restarts.       *)
THEOREM OneAtATimeKeepsThePromise ==
  ASSUME NEW h, Handlers = {h}, CalendarUsers = {}
  PROVE  Spec => KeepsThePromise
  <1> DEFINE J == NobodyAtWork /\ StillTrue(h)
  <1>1. Init => J
    BY InitAlone
  <1>2. TypeOK /\ J /\ [Next]_vars => J'
    BY NobodyStarts, StepStillTrue
  <1>3. TypeOK /\ FreshIds /\ J /\ [Next]_vars =>
           [Promise!LedgerNext]_(Promise!ledgerVars)
    BY PromiseStep
  <1> HIDE DEF J
  <1> QED
    BY <1>1, <1>2, <1>3, InitTyped, StepTyped, InitFresh, StepFresh,
       PromiseInit, PTL DEF Spec, KeepsThePromise, Promise!LedgerSpec

(* A create writes a new row, an update the approval of the old one.       *)
LEMMA ApprovalStep ==
  ASSUME NEW h, Handlers = {h}, TypeOK, NobodyAtWork, StillTrue(h), IssuedIds,
         [Next]_vars, NEW i \in Live, bookings[i].approved
  PROVE  bookings'[i] = None \/ bookings'[i].approved
  <1> DEFINE r == handlers[h]
  <1>1. i \in Ids /\ bookings[i] \in Booking
    BY LiveRow
  <1>2. CASE UNCHANGED bookings
    BY <1>2
  <1>3. CASE WriteCreate(h)
    <2>1. r.id # i
      BY <1>3 DEF WriteCreate, StillTrue, IssuedIds
    <2> QED
      BY <1>1, <1>3, <2>1 DEF WriteCreate, TypeOK
  <1>4. CASE WriteUpdate(h)
    <2>1. /\ r.id \in Live
          /\ r.row.approved \/ r.row.approved = bookings[r.id].approved
      BY <1>4, LiveRow DEF WriteUpdate, StillTrue, Booking
    <2> QED
      BY <1>1, <1>4, <2>1 DEF WriteUpdate, UpdateRow, TypeOK
  <1>5. CASE WriteDecline(h) \/ WriteDelete(h)
    BY <1>1, <1>5 DEF WriteDecline, WriteDelete, DeleteRow, TypeOK
  <1>6. ~\E w \in Workers : Work(w)
    BY NobodyWorks
  <1> QED
    BY <1>2, <1>3, <1>4, <1>5, <1>6
       DEF Next, Handle, vars, BeginCreate, BeginUpdate, BeginDecide,
           BeginDelete, CheckUser, CheckUpcoming, CheckLocation,
           CheckConflicts, WriteFails, Restart

(* Under the same condition no write takes an approval back: update writes *)
(* the approval it has read, and it is still the one in the table.         *)
THEOREM OneAtATimeKeepsApproval ==
  ASSUME NEW h, Handlers = {h}, CalendarUsers = {}
  PROVE  Spec => ApprovalIsKept
  <1> DEFINE J == NobodyAtWork /\ StillTrue(h)
  <1>1. Init => J
    BY InitAlone
  <1>2. TypeOK /\ J /\ [Next]_vars => J'
    BY NobodyStarts, StepStillTrue
  <1>3. TypeOK /\ IssuedIds /\ J /\ [Next]_vars =>
           [\A i \in Live : bookings[i].approved =>
               bookings'[i] = None \/ bookings'[i].approved]_vars
    BY ApprovalStep
  <1> HIDE DEF J
  <1> QED
    BY <1>1, <1>2, <1>3, InitTyped, StepTyped, InitIssued, StepIssued, PTL
       DEF Spec, ApprovalIsKept

-----------------------------------------------------------------------------
(* Calendar events.                                                        *)

EventThere(i) == \E u \in Users : <<u, i>> \in calendar

(* Booking i is gone, or a delete is about to see to that.                 *)
Leaving(i) ==
  \/ i \notin Live
  \/ \E h \in Handlers : handlers[h].op = "delete" /\ handlers[h].id = i

Accounted(i) == EventThere(i) \/ Leaving(i)

(* What a request is up to fits its operation: only creates and updates    *)
(* are checked, and a create knows of no event.                            *)
KnownSteps ==
  \A h \in Handlers :
    /\ handlers[h].op \in {"approve", "decline", "delete"} =>
          handlers[h].step = "write"
    /\ handlers[h].op = "create" => ~handlers[h].row.caldav

(* Whoever has a copy that names an event, the table included, and whoever *)
(* has sent one, can point at it, unless its booking is on its way out; an *)
(* event is taken away only then.                                          *)
EventsAccounted ==
  /\ \A i \in Live : bookings[i].caldav => Accounted(i)
  /\ \A h \in Handlers :
        /\ handlers[h].op \in {"update", "approve", "decline"}
        /\ handlers[h].row.caldav
        => Accounted(handlers[h].id)
  /\ \A w \in Workers :
        /\ (jobs[w].step = "put" /\ jobs[w].row.caldav) =>
              Accounted(jobs[w].id)
        /\ jobs[w].step = "save" => Accounted(jobs[w].id)
        /\ jobs[w].step = "remove" => Leaving(jobs[w].id)

LEMMA InitKnownSteps == Init => KnownSteps
  BY DEF Init, KnownSteps, Idle

LEMMA StepKnownSteps == TypeOK /\ KnownSteps /\ [Next]_vars => KnownSteps'
  <1> SUFFICES ASSUME TypeOK, KnownSteps, [Next]_vars, NEW g \in Handlers
               PROVE  /\ handlers'[g].op \in {"approve", "decline", "delete"}
                            => handlers'[g].step = "write"
                      /\ handlers'[g].op = "create" => ~handlers'[g].row.caldav
    BY DEF KnownSteps
  <1>1. CASE handlers'[g] = handlers[g]
    BY <1>1 DEF KnownSteps
  <1>2. ASSUME NEW h \in Handlers, BeginCreate(h)
        PROVE  \/ handlers'[g] = handlers[g]
               \/ handlers'[g].op = "create" /\ ~handlers'[g].row.caldav
    BY <1>2 DEF BeginCreate, TypeOK
  <1>3. ASSUME NEW h \in Handlers,
               BeginUpdate(h) \/ BeginDecide(h) \/ BeginDelete(h)
        PROVE  \/ handlers'[g] = handlers[g]
               \/ handlers'[g].op = "update"
               \/ handlers'[g].op # "create" /\ handlers'[g].step = "write"
    BY <1>3 DEF BeginUpdate, BeginDecide, BeginDelete, TypeOK
  <1>4. ASSUME NEW h \in Handlers,
               \/ CheckUser(h) \/ CheckUpcoming(h)
               \/ CheckLocation(h) \/ CheckConflicts(h)
        PROVE  \/ handlers'[g] = handlers[g] \/ handlers'[g].op = "none"
               \/ /\ handlers'[g].op = handlers[g].op
                  /\ handlers'[g].row = handlers[g].row
                  /\ handlers[g].step # "write"
    BY <1>4 DEF CheckUser, CheckUpcoming, CheckLocation, CheckConflicts,
                Advance, Finish, Idle, TypeOK, Request
  <1>5. ASSUME NEW h \in Handlers,
               \/ WriteCreate(h) \/ WriteUpdate(h) \/ WriteDecline(h)
               \/ WriteDelete(h) \/ WriteFails(h)
        PROVE  handlers'[g] = handlers[g] \/ handlers'[g].op = "none"
    BY <1>5 DEF WriteCreate, WriteUpdate, WriteDecline, WriteDelete,
                WriteFails, Finish, Idle, TypeOK
  <1>6. CASE Restart
    BY <1>6 DEF Restart, Idle
  <1>7. ASSUME NEW w \in Workers, Work(w)
        PROVE  handlers' = handlers
    BY <1>7 DEF Work, JobPut, JobSave, JobRemove, JobFails
  <1>8. ASSUME NEW h \in Handlers, Handle(h)
        PROVE  \/ handlers'[g] = handlers[g] \/ handlers'[g].op = "none"
               \/ handlers'[g].op = "create" /\ ~handlers'[g].row.caldav
               \/ handlers'[g].op = "update"
               \/ handlers'[g].op # "create" /\ handlers'[g].step = "write"
               \/ /\ handlers'[g].op = handlers[g].op
                  /\ handlers'[g].row = handlers[g].row
                  /\ handlers[g].step # "write"
    BY <1>2, <1>3, <1>4, <1>5, <1>8 DEF Handle
  <1> QED
    BY <1>1, <1>6, <1>7, <1>8 DEF Next, vars, KnownSteps

(* Without a failure, a booking that leaves does so in the end, and an     *)
(* event disappears only after its booking.                                *)
LEMMA AccountedStays ==
  ASSUME TypeOK, FreshIds, KnownSteps, EventsAccounted, [Next]_vars,
         faults' = 0, NEW i \in issued
  PROVE  /\ Leaving(i) => Leaving(i)'
         /\ Accounted(i) => Accounted(i)'
  <1>0. faults \in Nat
    BY DEF TypeOK
  <1>1. ~Restart /\ (\A h \in Handlers : ~WriteFails(h))
        /\ (\A w \in Workers : ~JobFails(w))
    BY <1>0 DEF Restart, WriteFails, JobFails
  <1>2. ASSUME Leaving(i) PROVE Leaving(i)'
    <2>1. CASE i \notin Live
      BY <2>1, GoneStep DEF Leaving, Live
    <2>2. CASE i \in Live
      <3>1. PICK h \in Handlers :
              handlers[h].op = "delete" /\ handlers[h].id = i
        BY <1>2, <2>2 DEF Leaving
      <3>2. handlers[h].step = "write" /\ i \in Ids
        BY <3>1 DEF KnownSteps, TypeOK
      <3>3. CASE handlers'[h] = handlers[h]
        BY <3>1, <3>3 DEF Leaving
      <3>4. CASE WriteDelete(h)
        <4>1. bookings'[i] = None
          BY <3>1, <3>2, <3>4 DEF WriteDelete, DeleteRow, TypeOK
        <4> QED
          BY <4>1 DEF Leaving, Live
      <3>5. ASSUME NEW g \in Handlers, Handle(g), ~WriteDelete(g)
            PROVE  handlers'[h] = handlers[h]
        BY <1>1, <3>1, <3>2, <3>5
           DEF Handle, BeginCreate, BeginUpdate, BeginDecide, BeginDelete,
               CheckUser, CheckUpcoming, CheckLocation, CheckConflicts,
               WriteCreate, WriteUpdate, WriteDecline, Advance, Finish, Idle,
               TypeOK
      <3>6. ASSUME NEW g \in Handlers, WriteDelete(g), g # h
            PROVE  handlers'[h] = handlers[h]
        BY <3>6 DEF WriteDelete, Finish, TypeOK
      <3>7. ASSUME NEW w \in Workers, Work(w)
            PROVE  handlers'[h] = handlers[h]
        BY <3>7 DEF Work, JobPut, JobSave, JobRemove, JobFails
      <3> QED
        BY <1>1, <3>3, <3>4, <3>5, <3>6, <3>7 DEF Next, vars
    <2> QED
      BY <2>1, <2>2
  <1>3. ASSUME EventThere(i) PROVE EventThere(i)' \/ Leaving(i)
    <2>1. CASE calendar \subseteq calendar'
      BY <1>3, <2>1 DEF EventThere
    <2>2. ASSUME NEW w \in Workers, JobRemove(w)
          PROVE  EventThere(i)' \/ Leaving(i)
      <3>1. CASE jobs[w].id = i
        BY <2>2, <3>1 DEF JobRemove, EventsAccounted
      <3>2. CASE jobs[w].id # i
        BY <1>3, <2>2, <3>2 DEF JobRemove, EventThere
      <3> QED
        BY <3>1, <3>2
    <2> QED
      BY <2>1, <2>2
         DEF Next, Handle, Work, vars, BeginCreate, BeginUpdate, BeginDecide,
             BeginDelete, CheckUser, CheckUpcoming, CheckLocation,
             CheckConflicts, WriteCreate, WriteUpdate, WriteDecline,
             WriteDelete, WriteFails, JobPut, JobSave, JobFails, Restart
  <1> QED
    BY <1>2, <1>3 DEF Accounted

(* The three parts of a step, one for each place a copy can be: first the  *)
(* table, which gets its rows from requests and goroutines.                *)
LEMMA RowsAccounted ==
  ASSUME TypeOK, FreshIds, IssuedIds, KnownSteps, EventsAccounted,
         [Next]_vars, faults' = 0, NEW i \in Live', bookings'[i].caldav
  PROVE  Accounted(i)'
  <1>1. CASE i \in Live /\ bookings'[i] = bookings[i]
    BY <1>1, AccountedStays DEF EventsAccounted, IssuedIds
  <1>2. ASSUME NEW h \in Handlers, WriteCreate(h)
        PROVE  i \in Live /\ bookings'[i] = bookings[i]
    BY <1>2 DEF WriteCreate, KnownSteps, Live, TypeOK
  <1>3. ASSUME NEW h \in Handlers, WriteUpdate(h)
        PROVE  \/ i \in Live /\ bookings'[i] = bookings[i]
               \/ Accounted(i)'
    <2>1. CASE handlers[h].id = i /\ i \in Live
      <3>1. handlers[h].op \in {"update", "approve"} /\ handlers[h].row.caldav
        BY <1>3, <2>1 DEF WriteUpdate, UpdateRow, TypeOK, Live
      <3> QED
        BY <2>1, <3>1, AccountedStays DEF EventsAccounted, IssuedIds
    <2> QED
      BY <1>3, <2>1 DEF WriteUpdate, UpdateRow, Live, TypeOK
  <1>4. ASSUME NEW h \in Handlers, WriteDecline(h) \/ WriteDelete(h)
        PROVE  i \in Live /\ bookings'[i] = bookings[i]
    BY <1>4 DEF WriteDecline, WriteDelete, DeleteRow, Live, TypeOK
  <1>5. ASSUME NEW w \in Workers, JobSave(w)
        PROVE  \/ i \in Live /\ bookings'[i] = bookings[i]
               \/ Accounted(i)'
    <2>1. CASE jobs[w].id = i /\ i \in Live
      BY <1>5, <2>1, AccountedStays DEF JobSave, EventsAccounted, IssuedIds
    <2> QED
      BY <1>5, <2>1 DEF JobSave, UpdateRow, Live, TypeOK
  <1>6. CASE UNCHANGED bookings
    BY <1>1, <1>6 DEF Live
  <1> QED
    <2>1. \/ UNCHANGED bookings
          \/ \E h \in Handlers : \/ WriteCreate(h) \/ WriteUpdate(h)
                                 \/ WriteDecline(h) \/ WriteDelete(h)
          \/ \E w \in Workers : JobSave(w)
      BY DEF Next, Handle, Work, vars, BeginCreate, BeginUpdate, BeginDecide,
             BeginDelete, CheckUser, CheckUpcoming, CheckLocation,
             CheckConflicts, WriteFails, JobPut, JobRemove, JobFails, Restart
    <2> QED
      BY <2>1, <1>1, <1>2, <1>3, <1>4, <1>5, <1>6

(* A request copies its row from the table.                                *)
LEMMA RequestsAccounted ==
  ASSUME TypeOK, FreshIds, IssuedIds, KnownSteps, EventsAccounted,
         [Next]_vars, faults' = 0, NEW g \in Handlers,
         NEW i, handlers'[g].id = i,
         handlers'[g].op \in {"update", "approve", "decline"},
         handlers'[g].row.caldav
  PROVE  Accounted(i)'
  <1>1. CASE /\ handlers'[g].op = handlers[g].op
             /\ handlers'[g].id = handlers[g].id
             /\ handlers'[g].row = handlers[g].row
    BY <1>1, AccountedStays DEF EventsAccounted, IssuedIds
  <1>2. ASSUME i \in Live, bookings[i].caldav
        PROVE  Accounted(i)'
    BY <1>2, AccountedStays DEF EventsAccounted, IssuedIds
  <1>3. ASSUME NEW h \in Handlers, BeginUpdate(h), handlers'[g] # handlers[g]
        PROVE  i \in Live /\ bookings[i].caldav
    <2>1. PICK id \in Live, by \in Users, owner \in Users, s \in Spaces,
               slot \in Slots :
            /\ bookings[id].user = by \/ by \in Admins
            /\ owner = bookings[id].user \/ by \in Admins
            /\ handlers' = [handlers EXCEPT ![h] =
                  [op |-> "update", step |-> "user", by |-> by, id |-> id,
                   row |-> Moved(bookings[id], owner, s, slot)]]
      BY <1>3 DEF BeginUpdate
    <2>2. /\ handlers'[g].id = id
          /\ handlers'[g].row = Moved(bookings[id], owner, s, slot)
      BY <1>3, <2>1 DEF TypeOK
    <2>3. Moved(bookings[id], owner, s, slot).caldav = bookings[id].caldav
      BY LiveRow DEF Moved, Booking
    <2> QED
      BY <2>2, <2>3
  <1>4. ASSUME NEW h \in Handlers, BeginDecide(h), handlers'[g] # handlers[g]
        PROVE  i \in Live /\ bookings[i].caldav
    <2>1. PICK id \in Live, op \in {"approve", "decline"} :
            handlers' = [handlers EXCEPT ![h] =
                [op |-> op, step |-> "write", by |-> None, id |-> id,
                 row |-> [bookings[id] EXCEPT !.approved = (op = "approve")]]]
      BY <1>4 DEF BeginDecide
    <2>2. /\ handlers'[g].id = id
          /\ handlers'[g].row
               = [bookings[id] EXCEPT !.approved = (op = "approve")]
      BY <1>4, <2>1 DEF TypeOK
    <2>3. [bookings[id] EXCEPT !.approved = (op = "approve")].caldav
             = bookings[id].caldav
      BY LiveRow DEF Booking
    <2> QED
      BY <2>2, <2>3
  <1>5. ASSUME NEW h \in Handlers,
               \/ BeginCreate(h) \/ BeginDelete(h)
               \/ CheckUser(h) \/ CheckUpcoming(h)
               \/ CheckLocation(h) \/ CheckConflicts(h)
               \/ WriteCreate(h) \/ WriteUpdate(h) \/ WriteDecline(h)
               \/ WriteDelete(h) \/ WriteFails(h)
        PROVE  /\ handlers'[g].op = handlers[g].op
               /\ handlers'[g].id = handlers[g].id
               /\ handlers'[g].row = handlers[g].row
    BY <1>5 DEF BeginCreate, BeginDelete, CheckUser, CheckUpcoming,
                CheckLocation, CheckConflicts, WriteCreate, WriteUpdate,
                WriteDecline, WriteDelete, WriteFails, Advance, Finish, Idle,
                TypeOK, Request
  <1>6. ~Restart
    BY DEF Restart, Idle
  <1>7. ASSUME NEW w \in Workers, Work(w)
        PROVE  handlers' = handlers
    BY <1>7 DEF Work, JobPut, JobSave, JobRemove, JobFails
  <1>8. CASE handlers' = handlers
    BY <1>1, <1>8
  <1> QED
    BY <1>1, <1>2, <1>3, <1>4, <1>5, <1>6, <1>7, <1>8 DEF Next, Handle, vars

(* A goroutine copies its row from a request, puts the event before it     *)
(* says so, and removes one only for a delete.                             *)
LEMMA JobsAccounted ==
  ASSUME TypeOK, FreshIds, IssuedIds, KnownSteps, EventsAccounted,
         [Next]_vars, faults' = 0, NEW v \in Workers,
         NEW i, jobs'[v].id = i
  PROVE  /\ (jobs'[v].step = "put" /\ jobs'[v].row.caldav) =>
               Accounted(i)'
         /\ jobs'[v].step = "save" => Accounted(i)'
         /\ jobs'[v].step = "remove" => Leaving(i)'
  <1> DEFINE Fine == /\ (jobs'[v].step = "put" /\ jobs'[v].row.caldav) =>
                           Accounted(i)'
                     /\ jobs'[v].step = "save" => Accounted(i)'
                     /\ jobs'[v].step = "remove" => Leaving(i)'
  <1>1. CASE jobs'[v] = jobs[v]
    BY <1>1, AccountedStays DEF EventsAccounted, IssuedIds
  <1>2. CASE jobs'[v].step = "idle"
    BY <1>2
  <1>3. ASSUME NEW h \in Handlers, WriteCreate(h)
        PROVE  \/ jobs'[v] = jobs[v]
               \/ jobs'[v].step = "put" /\ ~jobs'[v].row.caldav
    BY <1>3 DEF WriteCreate, Notify, KnownSteps, TypeOK
  <1>4. ASSUME NEW h \in Handlers, WriteUpdate(h), jobs'[v] # jobs[v],
               jobs'[v].row.caldav
        PROVE  jobs'[v].step = "put" /\ Accounted(i)'
    <2>1. /\ jobs'[v].step = "put" /\ jobs'[v].id = handlers[h].id
          /\ jobs'[v].row = handlers[h].row
          /\ handlers[h].op \in {"update", "approve"}
      BY <1>4 DEF WriteUpdate, Notify, TypeOK
    <2> QED
      BY <1>4, <2>1, AccountedStays DEF EventsAccounted, IssuedIds
  <1>5. ASSUME NEW h \in Handlers, WriteUpdate(h), jobs'[v] # jobs[v]
        PROVE  jobs'[v].step = "put"
    BY <1>5 DEF WriteUpdate, Notify, TypeOK
  <1>6. ASSUME NEW h \in Handlers, WriteDecline(h), jobs'[v] # jobs[v]
        PROVE  jobs'[v].step = "remove" /\ Leaving(i)'
    <2>1. jobs'[v].step = "remove" /\ jobs'[v].id = handlers[h].id
      BY <1>6 DEF WriteDecline, NotifyDeleted, Notify, TypeOK
    <2>2. bookings'[i] = None
      BY <1>6, <2>1 DEF WriteDecline, DeleteRow, TypeOK, WellFormed
    <2> QED
      BY <2>1, <2>2 DEF Leaving, Live
  <1>7. ASSUME NEW h \in Handlers, BeginDelete(h), jobs'[v] # jobs[v]
        PROVE  jobs'[v].step = "remove" /\ Leaving(i)'
    <2>1. PICK id \in Live :
            /\ NotifyDeleted(id, bookings[id])
            /\ handlers' = [handlers EXCEPT ![h] =
                  [op |-> "delete", step |-> "write", by |-> None, id |-> id,
                   row |-> None]]
      BY <1>7 DEF BeginDelete
    <2>2. jobs'[v].step = "remove" /\ jobs'[v].id = id
      BY <1>7, <2>1 DEF NotifyDeleted, Notify, TypeOK
    <2>3. handlers'[h].op = "delete" /\ handlers'[h].id = id
      BY <2>1 DEF TypeOK
    <2> QED
      BY <2>2, <2>3 DEF Leaving
  <1>8. ASSUME NEW w \in Workers, JobPut(w), jobs'[v] # jobs[v]
        PROVE  jobs'[v].step = "save" /\ Accounted(i)'
    <2>1. /\ v = w /\ jobs'[v].step = "save" /\ jobs'[v].id = jobs[v].id
          /\ jobs[v].row.user \in Users
      BY <1>8 DEF JobPut, TypeOK, WellFormed, Job, Booking
    <2>2. <<jobs[v].row.user, jobs[v].id>> \in calendar'
      BY <1>8, <2>1 DEF JobPut
    <2> QED
      BY <2>1, <2>2 DEF Accounted, EventThere
  <1>9. ASSUME NEW w \in Workers, JobSave(w) \/ JobRemove(w) \/ JobFails(w)
        PROVE  jobs'[v] = jobs[v] \/ jobs'[v].step = "idle"
    BY <1>9 DEF JobSave, JobRemove, JobFails, NoJob, TypeOK
  <1>10. CASE Restart
    BY <1>10 DEF Restart, NoJob
  <1>11. CASE jobs' = jobs
    BY <1>1, <1>11
  <1>12. ASSUME NEW h \in Handlers, Handle(h)
         PROVE  Fine
    <2>1. CASE \/ WriteCreate(h) \/ WriteUpdate(h) \/ WriteDecline(h)
               \/ BeginDelete(h)
      BY <2>1, <1>1, <1>3, <1>4, <1>5, <1>6, <1>7
    <2>2. CASE ~(\/ WriteCreate(h) \/ WriteUpdate(h) \/ WriteDecline(h)
                 \/ BeginDelete(h))
      BY <1>11, <1>12, <2>2
         DEF Handle, BeginCreate, BeginUpdate, BeginDecide, CheckUser,
             CheckUpcoming, CheckLocation, CheckConflicts, WriteDelete,
             WriteFails
    <2> QED
      BY <2>1, <2>2
  <1>13. ASSUME NEW w \in Workers, Work(w)
         PROVE  Fine
    BY <1>13, <1>1, <1>2, <1>8, <1>9 DEF Work
  <1> QED
    BY <1>2, <1>10, <1>11, <1>12, <1>13 DEF Next, vars

(* Nothing that happens without a failure loses track of an event.         *)
LEMMA StepAccounted ==
  TypeOK /\ FreshIds /\ IssuedIds /\ KnownSteps
    /\ (faults = 0 => EventsAccounted) /\ [Next]_vars
    => (faults' = 0 => EventsAccounted')
  <1> SUFFICES ASSUME TypeOK, FreshIds, IssuedIds, KnownSteps,
                      faults = 0 => EventsAccounted, [Next]_vars, faults' = 0
               PROVE  EventsAccounted'
    OBVIOUS
  <1>1. faults = 0
    <2>1. faults \in Nat
      BY DEF TypeOK
    <2>2. faults' = faults \/ faults' = faults + 1
      BY DEF Next, Handle, Work, vars, BeginCreate, BeginUpdate,
             BeginDecide, BeginDelete, CheckUser, CheckUpcoming,
             CheckLocation, CheckConflicts, WriteCreate, WriteUpdate,
             WriteDecline, WriteDelete, WriteFails, JobPut, JobSave,
             JobRemove, JobFails, Restart
    <2> QED
      BY <2>1, <2>2
  <1>2. EventsAccounted
    BY <1>1
  <1>3. \A i \in Live' : bookings'[i].caldav => Accounted(i)'
    BY <1>2, RowsAccounted
  <1>4. ASSUME NEW h \in Handlers,
               handlers'[h].op \in {"update", "approve", "decline"},
               handlers'[h].row.caldav
        PROVE  \A i : handlers'[h].id = i => Accounted(i)'
    BY <1>2, <1>4, RequestsAccounted
  <1>5. ASSUME NEW w \in Workers, NEW i, jobs'[w].id = i
        PROVE  /\ (jobs'[w].step = "put" /\ jobs'[w].row.caldav) =>
                     Accounted(i)'
               /\ jobs'[w].step = "save" => Accounted(i)'
               /\ jobs'[w].step = "remove" => Leaving(i)'
    BY <1>2, <1>5, JobsAccounted
  <1>6. \A h \in Handlers :
          /\ handlers'[h].op \in {"update", "approve", "decline"}
          /\ handlers'[h].row.caldav
          => Accounted(handlers[h].id)'
    BY <1>4 DEF Accounted, EventThere, Leaving
  <1>7. \A w \in Workers :
          /\ (jobs'[w].step = "put" /\ jobs'[w].row.caldav) =>
                Accounted(jobs[w].id)'
          /\ jobs'[w].step = "save" => Accounted(jobs[w].id)'
          /\ jobs'[w].step = "remove" => Leaving(jobs[w].id)'
    BY <1>5 DEF Accounted, EventThere, Leaving
  <1> QED
    BY <1>3, <1>6, <1>7 DEF EventsAccounted

(* While nothing fails, a booking that names a calendar event has it in    *)
(* somebody's calendar, or a delete of it is in progress: for any number   *)
(* of requests and goroutines that pass each other.                        *)
THEOREM RecordedEventsExist == Spec => []RecordedEventExists
  <1> DEFINE J == faults = 0 => EventsAccounted
  <1>1. Init => J
    BY DEF Init, EventsAccounted, Live, Idle, NoJob
  <1>2. TypeOK /\ FreshIds /\ IssuedIds /\ KnownSteps /\ J /\ [Next]_vars => J'
    BY StepAccounted
  <1>3. J => RecordedEventExists
    BY DEF EventsAccounted, RecordedEventExists, Accounted, Leaving, EventThere
  <1> HIDE DEF J
  <1> QED
    BY <1>1, <1>2, <1>3, InitTyped, StepTyped, InitFresh, StepFresh,
       InitIssued, StepIssued, InitKnownSteps, StepKnownSteps, PTL DEF Spec
=============================================================================
