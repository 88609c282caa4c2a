--------------------------- MODULE Bookings_proofs ---------------------------
(***************************************************************************)
(* Proofs about Bookings for every number of bookings, spaces, users,      *)
(* requests and goroutines: the tables keep their types, a space is never  *)
(* held by more bookings at an instant than there are actors, the capacity *)
(* of the location is not exceeded by as many, requests one at a time book *)
(* nothing twice, and no write brings a removed booking back.              *)
(***************************************************************************)
EXTENDS Bookings, FiniteSetTheorems, FunctionTheorems, TLAPS

USE SlotsAssumption, SubsetsAssumption, LimitsAssumption

LEMMA IdleTyped == Idle \in Request /\ NoJob \in Job
  BY DEF Idle, NoJob, Request, Job, Ops, Steps

LEMMA InitTyped == Init => TypeOK
  BY IdleTyped DEF Init, TypeOK, WellFormed, Idle, NoJob

(* Where a goroutine is started, the job it gets is well formed.           *)
LEMMA NotifyTyped ==
  ASSUME TypeOK, NEW step \in {"put", "remove"}, NEW id \in Ids,
         NEW row \in Booking, Notify(step, id, row)
  PROVE  /\ jobs' \in [Workers -> Job]
         /\ \A w \in Workers : jobs'[w].step # "idle" =>
               jobs'[w].id \in Ids /\ jobs'[w].row \in Booking
  <1>1. [step |-> step, id |-> id, row |-> row] \in Job
    BY DEF Job
  <1>2. QED
    BY <1>1 DEF Notify, TypeOK, WellFormed

LEMMA UpdateRowTyped ==
  ASSUME TypeOK, NEW id \in Ids, NEW row \in Booking, UpdateRow(id, row)
  PROVE  bookings' \in [Ids -> Booking \cup {None}]
  BY DEF UpdateRow, TypeOK

LEMMA LiveRow ==
  ASSUME TypeOK, NEW id \in Live
  PROVE  id \in Ids /\ bookings[id] \in Booking
  BY DEF TypeOK, Live

(* A handler that goes idle or takes a well-formed request leaves handlers *)
(* well formed.                                                            *)
LEMMA RequestTyped ==
  ASSUME TypeOK, NEW h \in Handlers, NEW r \in Request,
         r.step # "idle" => /\ r.id \in Ids
                            /\ r.op # "delete" => r.row \in Booking,
         handlers' = [handlers EXCEPT ![h] = r]
  PROVE  /\ handlers' \in [Handlers -> Request]
         /\ \A g \in Handlers : handlers'[g].step # "idle" =>
               /\ handlers'[g].id \in Ids
               /\ handlers'[g].op # "delete" => handlers'[g].row \in Booking
  BY DEF TypeOK, WellFormed

LEMMA FinishTyped ==
  ASSUME TypeOK, NEW h \in Handlers, Finish(h)
  PROVE  /\ handlers' \in [Handlers -> Request]
         /\ \A g \in Handlers : handlers'[g].step # "idle" =>
               /\ handlers'[g].id \in Ids
               /\ handlers'[g].op # "delete" => handlers'[g].row \in Booking
  BY IdleTyped, RequestTyped DEF Finish, Idle

LEMMA StepTyped == TypeOK /\ [Next]_vars => TypeOK'
  <1> SUFFICES ASSUME TypeOK, [Next]_vars PROVE TypeOK'
    OBVIOUS
  <1> USE DEF TypeOK, WellFormed
  <1>1. ASSUME NEW h \in Handlers, BeginCreate(h) PROVE TypeOK'
    <2>1. PICK by \in Users, owner \in Users, s \in Spaces, slot \in Slots,
               id \in Ids \ (issued \cup Reserved) :
            handlers' = [handlers EXCEPT ![h] =
                [op |-> "create", step |-> "user", by |-> by, id |-> id,
                 row |-> [user |-> owner, space |-> s, enter |-> slot[1],
                          leave |-> slot[2],
                          approved |-> s \notin ApprovalSpaces,
                          caldav |-> FALSE]]]
      BY <1>1 DEF BeginCreate
    <2>2. [user |-> owner, space |-> s, enter |-> slot[1], leave |-> slot[2],
           approved |-> s \notin ApprovalSpaces, caldav |-> FALSE] \in Booking
      BY DEF Booking
    <2> DEFINE r == [op |-> "create", step |-> "user", by |-> by, id |-> id,
                 row |-> [user |-> owner, space |-> s, enter |-> slot[1],
                          leave |-> slot[2],
                          approved |-> s \notin ApprovalSpaces,
                          caldav |-> FALSE]]
    <2>3. r \in Request /\ r.id \in Ids /\ r.row \in Booking
      BY <2>2 DEF Request, Ops, Steps
    <2>4. handlers' = [handlers EXCEPT ![h] = r]
      BY <2>1
    <2> HIDE DEF r
    <2>5. QED
      BY <1>1, <2>3, <2>4, RequestTyped DEF BeginCreate, TypeOK
  <1>2. ASSUME NEW h \in Handlers, BeginUpdate(h) PROVE TypeOK'
    <2>1. PICK id \in Live, by \in Users, owner \in Users, s \in Spaces,
               slot \in Slots :
            /\ bookings[id].user = by \/ by \in Admins
            /\ owner = bookings[id].user \/ by \in Admins
            /\ handlers' = [handlers EXCEPT ![h] =
                  [op |-> "update", step |-> "user", by |-> by, id |-> id,
                   row |-> Moved(bookings[id], owner, s, slot)]]
      BY <1>2 DEF BeginUpdate
    <2>2. Moved(bookings[id], owner, s, slot) \in Booking /\ id \in Ids
      BY LiveRow DEF Booking, Moved
    <2> DEFINE r == [op |-> "update", step |-> "user", by |-> by, id |-> id,
                     row |-> Moved(bookings[id], owner, s, slot)]
    <2>3. r \in Request /\ r.id \in Ids /\ r.row \in Booking
      BY <2>2 DEF Request, Ops, Steps
    <2>4. handlers' = [handlers EXCEPT ![h] = r]
      BY <2>1
    <2> HIDE DEF r
    <2>5. QED
      BY <1>2, <2>3, <2>4, RequestTyped DEF BeginUpdate, TypeOK
  <1>3. ASSUME NEW h \in Handlers, BeginDecide(h) PROVE TypeOK'
    <2>1. PICK id \in Live, op \in {"approve", "decline"} :
            handlers' = [handlers EXCEPT ![h] =
                [op |-> op, step |-> "write", by |-> None, id |-> id,
                 row |-> [bookings[id] EXCEPT !.approved = (op = "approve")]]]
      BY <1>3 DEF BeginDecide
    <2>2. [bookings[id] EXCEPT !.approved = (op = "approve")] \in Booking
      BY LiveRow DEF Booking
    <2> DEFINE r == [op |-> op, step |-> "write", by |-> None, id |-> id,
                 row |-> [bookings[id] EXCEPT !.approved = (op = "approve")]]
    <2>3. r \in Request /\ r.id \in Ids /\ r.row \in Booking
      BY <2>2, LiveRow DEF Request, Ops, Steps
    <2>4. handlers' = [handlers EXCEPT ![h] = r]
      BY <2>1
    <2> HIDE DEF r
    <2>5. QED
      BY <1>3, <2>3, <2>4, RequestTyped DEF BeginDecide, TypeOK
  <1>4. ASSUME NEW h \in Handlers, BeginDelete(h) PROVE TypeOK'
    <2>1. PICK id \in Live :
            /\ NotifyDeleted(id, bookings[id])
            /\ handlers' = [handlers EXCEPT ![h] =
                  [op |-> "delete", step |-> "write", by |-> None, id |-> id,
                   row |-> None]]
      BY <1>4 DEF BeginDelete
    <2> DEFINE r == [op |-> "delete", step |-> "write", by |-> None,
                     id |-> id, row |-> None]
    <2>2. r \in Request /\ r.id \in Ids /\ r.op = "delete"
      BY LiveRow DEF Request, Ops, Steps
    <2>3. handlers' = [handlers EXCEPT ![h] = r]
      BY <2>1
    <2> HIDE DEF r
    <2>4. QED
      BY <1>4, <2>1, <2>2, <2>3, LiveRow, RequestTyped, NotifyTyped
         DEF BeginDelete, NotifyDeleted, TypeOK
  <1>5. ASSUME NEW h \in Handlers,
               \/ CheckUser(h) \/ CheckUpcoming(h)
               \/ CheckLocation(h) \/ CheckConflicts(h)
        PROVE TypeOK'
    <2>1. CASE Finish(h)
      BY <1>5, <2>1, FinishTyped
         DEF CheckUser, CheckUpcoming, CheckLocation, CheckConflicts, TypeOK
    <2>2. CASE ~Finish(h)
      <3>1. handlers[h] \in Request /\ handlers[h].step # "idle"
        BY <1>5 DEF TypeOK, CheckUser, CheckUpcoming, CheckLocation,
                    CheckConflicts
      <3>2. PICK r \in Request :
              /\ handlers' = [handlers EXCEPT ![h] = r]
              /\ r.id = handlers[h].id /\ r.op = handlers[h].op
              /\ r.row = handlers[h].row
        <4>1. CASE handlers' = [handlers EXCEPT ![h].step = "location",
                                                ![h].by = None]
          <5> DEFINE r == [handlers[h] EXCEPT !.step = "location", !.by = None]
          <5>1. r \in Request /\ r.id = handlers[h].id
                /\ r.op = handlers[h].op /\ r.row = handlers[h].row
            BY <3>1 DEF Request, Steps
          <5>2. handlers' = [handlers EXCEPT ![h] = r]
            BY <4>1 DEF TypeOK
          <5> QED
            BY <5>1, <5>2
        <4>2. ASSUME NEW st \in {"upcoming", "conflicts", "write"},
                     Advance(h, st)
              PROVE \E r \in Request :
              /\ handlers' = [handlers EXCEPT ![h] = r]
              /\ r.id = handlers[h].id /\ r.op = handlers[h].op
              /\ r.row = handlers[h].row
          <5> DEFINE r == [handlers[h] EXCEPT !.step = st]
          <5>1. r \in Request /\ r.id = handlers[h].id
                /\ r.op = handlers[h].op /\ r.row = handlers[h].row
            BY <3>1 DEF Request, Steps
          <5>2. handlers' = [handlers EXCEPT ![h] = r]
            BY <4>2 DEF TypeOK, Advance
          <5> QED
            BY <5>1, <5>2
        <4> QED
          BY <1>5, <2>2, <4>1, <4>2
             DEF CheckUser, CheckUpcoming, CheckLocation, CheckConflicts
      <3>3. /\ handlers[h].id \in Ids
            /\ handlers[h].op # "delete" => handlers[h].row \in Booking
        BY <3>1 DEF TypeOK
      <3> QED
        BY <1>5, <3>2, <3>3, RequestTyped
           DEF CheckUser, CheckUpcoming, CheckLocation, CheckConflicts, TypeOK
    <2> QED
      BY <2>1, <2>2
  <1>6. ASSUME NEW h \in Handlers, WriteCreate(h) PROVE TypeOK'
    <2>1. handlers[h].id \in Ids /\ handlers[h].row \in Booking
      BY <1>6 DEF WriteCreate, TypeOK
    <2>2. bookings' \in [Ids -> Booking \cup {None}] /\ issued' \subseteq Ids
      BY <1>6, <2>1 DEF WriteCreate, TypeOK
    <2> QED
      BY <1>6, <2>1, <2>2, FinishTyped, NotifyTyped DEF WriteCreate, TypeOK
  <1>7. ASSUME NEW h \in Handlers, WriteUpdate(h) PROVE TypeOK'
    <2>1. handlers[h].id \in Ids /\ handlers[h].row \in Booking
      BY <1>7 DEF WriteUpdate, TypeOK
    <2> QED
      BY <1>7, <2>1, FinishTyped, NotifyTyped, UpdateRowTyped
         DEF WriteUpdate, TypeOK
  <1>8. ASSUME NEW h \in Handlers, WriteDecline(h) PROVE TypeOK'
    <2>1. handlers[h].id \in Ids /\ handlers[h].row \in Booking
      BY <1>8 DEF WriteDecline, TypeOK
    <2> QED
      BY <1>8, <2>1, FinishTyped, NotifyTyped
         DEF WriteDecline, DeleteRow, NotifyDeleted, TypeOK
  <1>9. ASSUME NEW h \in Handlers, WriteDelete(h) PROVE TypeOK'
    BY <1>9, FinishTyped DEF WriteDelete, DeleteRow, TypeOK
  <1>10. ASSUME NEW h \in Handlers, WriteFails(h) PROVE TypeOK'
    BY <1>10, FinishTyped DEF WriteFails, TypeOK
  <1>11. ASSUME NEW w \in Workers, JobPut(w) PROVE TypeOK'
    <2>1. jobs[w].id \in Ids /\ jobs[w].row \in Booking /\ jobs[w] \in Job
      BY <1>11 DEF JobPut, TypeOK
    <2>2. <<jobs[w].row.user, jobs[w].id>> \in Users \X Ids
      BY <2>1 DEF Booking
    <2>3. [jobs[w] EXCEPT !.step = "save"] \in Job
      BY <2>1 DEF Job
    <2> QED
      BY <1>11, <2>1, <2>2, <2>3 DEF JobPut, TypeOK
  <1>12. ASSUME NEW w \in Workers, JobSave(w) PROVE TypeOK'
    <2>1. /\ jobs[w].id \in Ids
          /\ [jobs[w].row EXCEPT !.caldav = TRUE] \in Booking
      BY <1>12 DEF JobSave, TypeOK, Booking
    <2> QED
      BY <1>12, <2>1, IdleTyped, UpdateRowTyped DEF JobSave, TypeOK, NoJob
  <1>13. ASSUME NEW w \in Workers, JobRemove(w) PROVE TypeOK'
    BY <1>13, IdleTyped DEF JobRemove, TypeOK, NoJob
  <1>14. ASSUME NEW w \in Workers, JobFails(w) PROVE TypeOK'
    BY <1>14, IdleTyped DEF JobFails, TypeOK, NoJob
  <1>15. CASE Restart
    BY <1>15, IdleTyped DEF Restart, TypeOK, NoJob, Idle
  <1>16. CASE UNCHANGED vars
    BY <1>16 DEF vars, TypeOK
  <1>17. QED
    BY <1>1, <1>2, <1>3, <1>4, <1>5, <1>6, <1>7, <1>8, <1>9, <1>10, <1>11,
       <1>12, <1>13, <1>14, <1>15, <1>16 DEF Next, Handle, Work

(* The tables and the local state of requests and goroutines keep their    *)
(* types, and nobody who is at work lacks a booking or a row to write.     *)
THEOREM TypeCorrect == Spec => []TypeOK
  BY InitTyped, StepTyped, PTL DEF Spec

-----------------------------------------------------------------------------
(* Counting: a set covered by one id per actor is no larger than the set   *)
(* of actors.                                                              *)

LEMMA ActorsFinite ==
  /\ IsFiniteSet(Actors)
  /\ Cardinality(Actors) \in Nat
  BY ActorsAssumption, FS_Union, FS_CardinalityType DEF Actors

LEMMA OnePerActor ==
  ASSUME NEW f, DOMAIN f = Actors, NEW S, S \subseteq {f[x] : x \in Actors}
  PROVE  IsFiniteSet(S) /\ Cardinality(S) <= Cardinality(Actors)
  <1> DEFINE T == {f[x] : x \in Actors}
  <1>1. PICK g : g = [x \in Actors |-> f[x]]
    OBVIOUS
  <1>2. g \in Surjection(Actors, T)
    <2>1. g \in [Actors -> T]
      BY <1>1
    <2>2. \A t \in T : \E x \in Actors : g[x] = t
      BY <1>1
    <2> QED
      BY <2>1, <2>2, Fun_IsSurj
  <1>3. /\ IsFiniteSet(T) /\ Cardinality(T) <= Cardinality(Actors)
        /\ Cardinality(T) \in Nat
    <2> HIDE DEF T
    <2> QED
      BY <1>2, FS_Surjection, FS_CardinalityType, ActorsFinite
  <1>4. IsFiniteSet(S) /\ Cardinality(S) <= Cardinality(T)
    BY <1>3, FS_Subset
  <1> QED
    BY <1>3, <1>4, ActorsFinite, FS_CardinalityType

LEMMA NoLargerClaims ==
  ASSUME NEW S, IsFiniteSet(S), NEW T, T \subseteq S
  PROVE  /\ IsFiniteSet(T) /\ Cardinality(T) \in Nat
         /\ Cardinality(S) \in Nat /\ Cardinality(T) <= Cardinality(S)
  BY FS_Subset, FS_CardinalityType

(* The id each actor works on.                                             *)
Working == [x \in Actors |-> IF x \in Handlers THEN handlers[x].id
                                               ELSE jobs[x].id]

LEMMA WorkingIds ==
  /\ DOMAIN Working = Actors
  /\ \A h \in Handlers : Working[h] = handlers[h].id
  /\ \A w \in Workers : Working[w] = jobs[w].id
  BY ActorsAssumption DEF Working, Actors

(* The conflict clause finds every booking that covers an instant of the   *)
(* requested range.                                                        *)
LEMMA ConflictSeesSharedInstant ==
  ASSUME NEW b, b.enter \in Int, b.leave \in Int,
         NEW enter \in Int, NEW leave \in Int, NEW t \in Int,
         Covers(b, t), enter <= t, t <= leave
  PROVE  ConflictsWith(b, enter, leave)
  BY DEF Covers, ConflictsWith

LEMMA InstantsAreIntegers == Instants \subseteq Int
  BY DEF Instants

(* Rows that take the same seat for the same user at the same time.        *)
SameSeat(r, q) ==
  /\ r.user = q.user /\ r.space = q.space
  /\ r.enter = q.enter /\ r.leave = q.leave

LEMMA SameSeatSameHold ==
  ASSUME NEW r, NEW q, SameSeat(r, q), NEW s, NEW t
  PROVE  /\ HoldsAt(r, s, t) <=> HoldsAt(q, s, t)
         /\ ActiveAt(r, t) <=> ActiveAt(q, t)
  BY DEF SameSeat, HoldsAt, Covers, ActiveAt

(* Whatever a row of the table is after a step, it was there before or was *)
(* waiting to be written by a request past its checks or by a goroutine.   *)
LEMMA BookingOrigin ==
  ASSUME TypeOK, [Next]_vars, NEW i \in Live'
  PROVE  \/ i \in Live /\ SameSeat(bookings'[i], bookings[i])
         \/ \E h \in PastConflicts :
               i = handlers[h].id /\ SameSeat(bookings'[i], handlers[h].row)
         \/ \E w \in Saving :
               i = jobs[w].id /\ SameSeat(bookings'[i], jobs[w].row)
  <1> USE DEF PastConflicts, Saving, RowWriters, SameSeat
  <1>1. ASSUME UNCHANGED bookings
        PROVE  i \in Live /\ SameSeat(bookings'[i], bookings[i])
    BY <1>1 DEF Live
  <1>2. ASSUME NEW h \in Handlers, WriteCreate(h) \/ WriteUpdate(h)
        PROVE  \/ i \in Live /\ SameSeat(bookings'[i], bookings[i])
               \/ i = handlers[h].id /\ SameSeat(bookings'[i], handlers[h].row)
    BY <1>2 DEF WriteCreate, WriteUpdate, UpdateRow, Live, TypeOK
  <1>3. ASSUME NEW h \in Handlers, WriteCreate(h) \/ WriteUpdate(h)
        PROVE  h \in PastConflicts
    BY <1>3 DEF WriteCreate, WriteUpdate
  <1>4. ASSUME NEW h \in Handlers, WriteDecline(h) \/ WriteDelete(h)
        PROVE  i \in Live /\ SameSeat(bookings'[i], bookings[i])
    BY <1>4 DEF WriteDecline, WriteDelete, DeleteRow, Live, TypeOK
  <1>5. ASSUME NEW w \in Workers, JobSave(w)
        PROVE  \/ i \in Live /\ SameSeat(bookings'[i], bookings[i])
               \/ /\ w \in Saving /\ i = jobs[w].id
                  /\ SameSeat(bookings'[i], jobs[w].row)
    <2>1. w \in Saving /\ jobs[w].row \in Booking
      BY <1>5 DEF JobSave, TypeOK, WellFormed
    <2>2. SameSeat([jobs[w].row EXCEPT !.caldav = TRUE], jobs[w].row)
      BY <2>1 DEF Booking
    <2>3. \/ bookings'[i] = bookings[i]
          \/ /\ i = jobs[w].id
             /\ bookings'[i] = [jobs[w].row EXCEPT !.caldav = TRUE]
      BY <1>5 DEF JobSave, UpdateRow, Live, TypeOK
    <2> QED
      BY <2>1, <2>2, <2>3 DEF Live
  <1> QED
    <2>1. CASE UNCHANGED bookings
      BY <1>1, <2>1
    <2>2. CASE ~UNCHANGED bookings
      <3>1. \/ \E h \in Handlers : \/ WriteCreate(h) \/ WriteUpdate(h)
                                   \/ WriteDecline(h) \/ WriteDelete(h)
            \/ \E w \in Workers : JobSave(w)
        BY <2>2 DEF Next, Handle, Work, vars, BeginCreate, BeginUpdate,
                    BeginDecide, BeginDelete, CheckUser, CheckUpcoming,
                    CheckLocation, CheckConflicts, WriteFails, JobPut,
                    JobRemove, JobFails, Restart
      <3> QED
        BY <3>1, <1>2, <1>3, <1>4, <1>5
    <2> QED
      BY <2>1, <2>2

(* A goroutine that will write a row got it before, or was just started by *)
(* the request that wrote it.                                              *)
LEMMA JobOrigin ==
  ASSUME TypeOK, [Next]_vars, NEW w \in Saving'
  PROVE  \/ /\ w \in Saving /\ jobs'[w].id = jobs[w].id
            /\ jobs'[w].row = jobs[w].row
         \/ \E h \in PastConflicts : /\ jobs'[w].id = handlers[h].id
                                     /\ jobs'[w].row = handlers[h].row
  <1> USE DEF PastConflicts, Saving, RowWriters
  <1>1. CASE jobs'[w] = jobs[w]
    BY <1>1
  <1>2. ASSUME NEW h \in Handlers, WriteCreate(h) \/ WriteUpdate(h)
        PROVE  /\ h \in PastConflicts
               /\ \/ jobs'[w] = jobs[w]
                  \/ /\ jobs'[w].id = handlers[h].id
                     /\ jobs'[w].row = handlers[h].row
    BY <1>2 DEF WriteCreate, WriteUpdate, Notify, TypeOK
  <1>3. ASSUME NEW h \in Handlers, BeginDelete(h) \/ WriteDecline(h)
        PROVE  jobs'[w] = jobs[w]
    BY <1>3 DEF BeginDelete, WriteDecline, NotifyDeleted, Notify, TypeOK
  <1>4. ASSUME NEW v \in Workers, JobPut(v)
        PROVE  /\ w \in Saving /\ jobs'[w].id = jobs[w].id
               /\ jobs'[w].row = jobs[w].row
    BY <1>4 DEF JobPut, TypeOK, Job
  <1>5. ASSUME NEW v \in Workers, JobSave(v) \/ JobRemove(v) \/ JobFails(v)
        PROVE  jobs'[w] = jobs[w]
    BY <1>5 DEF JobSave, JobRemove, JobFails, NoJob, TypeOK
  <1>6. ~Restart
    BY DEF Restart, NoJob
  <1> QED
    <2>1. CASE UNCHANGED jobs
      BY <1>1, <2>1
    <2>2. CASE ~UNCHANGED jobs
      <3>1. \/ \E h \in Handlers : \/ WriteCreate(h) \/ WriteUpdate(h)
                                   \/ BeginDelete(h) \/ WriteDecline(h)
            \/ \E v \in Workers : \/ JobPut(v) \/ JobSave(v)
                                  \/ JobRemove(v) \/ JobFails(v)
        BY <2>2, <1>6 DEF Next, Handle, Work, vars, BeginCreate, BeginUpdate,
                    BeginDecide, CheckUser, CheckUpcoming, CheckLocation,
                    CheckConflicts, WriteDelete, WriteFails
      <3> QED
        BY <3>1, <1>1, <1>2, <1>3, <1>4, <1>5
    <2> QED
      BY <2>1, <2>2

(* A request past the capacity check was so before, has just approved of a *)
(* row of the table, or passes the check in this step.                     *)
LEMMA RequestOrigin ==
  ASSUME TypeOK, [Next]_vars, NEW h \in PastLocation'
  PROVE  /\ handlers'[h].id \in Ids
         /\ \/ /\ h \in PastLocation /\ handlers'[h].id = handlers[h].id
               /\ handlers'[h].row = handlers[h].row
               /\ h \in PastConflicts' =>
                     \/ h \in PastConflicts
                     \/ CheckConflicts(h) /\ ConflictFree(h)
            \/ /\ handlers'[h].id \in Live
               /\ SameSeat(handlers'[h].row, bookings[handlers'[h].id])
            \/ /\ CheckLocation(h) /\ RoomFor(handlers[h])
               /\ handlers'[h].id = handlers[h].id
               /\ handlers'[h].row = handlers[h].row
               /\ h \notin PastConflicts'
  <1> USE DEF PastLocation, PastConflicts, RowWriters, SameSeat
  <1>0. handlers'[h].id \in Ids
    BY StepTyped DEF TypeOK, WellFormed
  <1>1. CASE handlers'[h] = handlers[h]
    <2>1. h \in PastLocation /\ (h \in PastConflicts' => h \in PastConflicts)
      BY <1>1
    <2> QED
      BY <1>0, <1>1, <2>1
  <1>2. ASSUME NEW g \in Handlers,
               \/ BeginCreate(g) \/ BeginUpdate(g) \/ BeginDelete(g)
               \/ CheckUser(g) \/ CheckUpcoming(g)
               \/ WriteCreate(g) \/ WriteUpdate(g)
               \/ WriteDecline(g) \/ WriteDelete(g) \/ WriteFails(g)
        PROVE  handlers'[h] = handlers[h]
    BY <1>2 DEF BeginCreate, BeginUpdate, BeginDelete, CheckUser, CheckUpcoming,
                WriteCreate, WriteUpdate, WriteDecline, WriteDelete, WriteFails,
                Advance, Finish, Idle, TypeOK, Request
  <1>3. ASSUME NEW g \in Handlers, BeginDecide(g)
        PROVE  \/ handlers'[h] = handlers[h]
               \/ /\ handlers'[h].id \in Live
                  /\ SameSeat(handlers'[h].row, bookings[handlers'[h].id])
    <2>1. PICK id \in Live, op \in {"approve", "decline"} :
            handlers' = [handlers EXCEPT ![g] =
                [op |-> op, step |-> "write", by |-> None, id |-> id,
                 row |-> [bookings[id] EXCEPT !.approved = (op = "approve")]]]
      BY <1>3 DEF BeginDecide
    <2>2. SameSeat([bookings[id] EXCEPT !.approved = (op = "approve")],
                   bookings[id])
      BY LiveRow DEF Booking
    <2> QED
      BY <2>1, <2>2 DEF TypeOK
  <1>4. ASSUME NEW g \in Handlers, CheckLocation(g)
        PROVE  \/ handlers'[h] = handlers[h]
               \/ /\ g = h /\ RoomFor(handlers[h])
                  /\ handlers'[h].id = handlers[h].id
                  /\ handlers'[h].row = handlers[h].row
                  /\ h \notin PastConflicts'
    BY <1>4 DEF CheckLocation, Advance, Finish, Idle, TypeOK, Request
  <1>5. ASSUME NEW g \in Handlers, CheckConflicts(g)
        PROVE  \/ handlers'[h] = handlers[h]
               \/ /\ g = h /\ h \in PastLocation /\ ConflictFree(h)
                  /\ handlers'[h].id = handlers[h].id
                  /\ handlers'[h].row = handlers[h].row
    BY <1>5 DEF CheckConflicts, Advance, Finish, Idle, TypeOK, Request
  <1>6. ~Restart
    BY DEF Restart, Idle
  <1>7. ASSUME NEW w \in Workers, Work(w) PROVE handlers'[h] = handlers[h]
    BY <1>7 DEF Work, JobPut, JobSave, JobRemove, JobFails
  <1>8. CASE UNCHANGED vars
    BY <1>1, <1>8 DEF vars
  <1>9. ASSUME NEW g \in Handlers, Handle(g)
        PROVE  \/ handlers'[h] = handlers[h] \/ BeginDecide(g)
               \/ CheckLocation(g) \/ CheckConflicts(g)
    BY <1>2, <1>9 DEF Handle
  <1> QED
    BY <1>0, <1>1, <1>3, <1>4, <1>5, <1>6, <1>7, <1>8, <1>9 DEF Next

-----------------------------------------------------------------------------
(* Claims never grow unless a check passes; when one passes, all claims    *)
(* are those of the actors and of the bookings the check has counted.      *)

LEMMA ClaimsStep ==
  ASSUME TypeOK, [Next]_vars, NEW s, NEW t \in Int
  PROVE  \/ Claims(s, t)' \subseteq Claims(s, t)
         \/ Claims(s, t)' \subseteq {Working[x] : x \in Actors}
  <1>1. ASSUME NEW h \in Handlers, CheckConflicts(h), ConflictFree(h),
               h \in PastConflicts', HoldsAt(handlers'[h].row, s, t)
        PROVE  Claims(s, t)' \subseteq {Working[x] : x \in Actors}
    <2>1. UNCHANGED <<bookings, jobs>>
      BY <1>1 DEF CheckConflicts
    <2>2. /\ handlers'[h].id = handlers[h].id
          /\ handlers'[h].row = handlers[h].row
          /\ handlers[h].op \in RowWriters /\ handlers[h].step = "conflicts"
          /\ \A g \in Handlers \ {h} : handlers'[g] = handlers[g]
      BY <1>1 DEF CheckConflicts, Finish, Advance, Idle, TypeOK,
                  Request, PastConflicts
    <2>3. handlers[h].row \in Booking
      BY <2>2 DEF TypeOK, WellFormed, RowWriters
    <2>4. ASSUME NEW i \in Holding(s, t) PROVE i = handlers[h].id
      <3>1. bookings[i] \in Booking /\ i \in Live
        BY LiveRow DEF Holding
      <3>2. ConflictsWith(bookings[i], handlers[h].row.enter,
                          handlers[h].row.leave)
        BY <1>1, <2>2, <2>3, <3>1, ConflictSeesSharedInstant
           DEF Booking, HoldsAt, Covers, Holding
      <3> QED
        BY <1>1, <2>2, <3>1, <3>2 DEF ConflictFree, HoldsAt, Holding
    <2>5. \A i \in Holding(s, t)' : i = Working[h]
      BY <2>1, <2>4, WorkingIds DEF Holding, Live
    <2>6. \A g \in Handlers : handlers'[g].id = Working[g]
      BY <2>2, WorkingIds
    <2>7. \A w \in Workers : jobs'[w].id = Working[w]
      BY <2>1, WorkingIds
    <2> QED
      BY <2>5, <2>6, <2>7 DEF Claims, PastConflicts, Saving, Actors
  <1>2. ASSUME \A h \in Handlers : CheckConflicts(h) /\ ConflictFree(h) =>
                  ~(h \in PastConflicts' /\ HoldsAt(handlers'[h].row, s, t)),
               NEW i \in Claims(s, t)'
        PROVE  i \in Claims(s, t)
    <2>1. CASE i \in Holding(s, t)'
      <3>1. i \in Live' /\ HoldsAt(bookings'[i], s, t)
        BY <2>1 DEF Holding, HoldsAt
      <3>2. CASE i \in Live /\ HoldsAt(bookings[i], s, t)
        BY <3>2 DEF Claims, Holding, HoldsAt
      <3>3. ASSUME NEW h \in PastConflicts, i = handlers[h].id,
                   HoldsAt(handlers[h].row, s, t)
            PROVE  i \in Claims(s, t)
        BY <3>3 DEF Claims
      <3>4. ASSUME NEW w \in Saving, i = jobs[w].id,
                   HoldsAt(jobs[w].row, s, t)
            PROVE  i \in Claims(s, t)
        BY <3>4 DEF Claims
      <3> QED
        BY <3>1, <3>2, <3>3, <3>4, BookingOrigin, SameSeatSameHold
    <2>2. ASSUME NEW h \in PastConflicts', HoldsAt(handlers'[h].row, s, t),
                 i = handlers'[h].id
          PROVE  i \in Claims(s, t)
      <3>1. h \in PastLocation' /\ h \in Handlers
        BY DEF PastConflicts, PastLocation
      <3>2. CASE /\ h \in PastConflicts /\ i = handlers[h].id
                 /\ HoldsAt(handlers[h].row, s, t)
        BY <3>2 DEF Claims
      <3>3. CASE i \in Live /\ HoldsAt(bookings[i], s, t)
        BY <3>3 DEF Claims, Holding, HoldsAt
      <3> QED
        BY <1>2, <2>2, <3>1, <3>2, <3>3, RequestOrigin, SameSeatSameHold
    <2>3. ASSUME NEW w \in Saving', HoldsAt(jobs'[w].row, s, t),
                 i = jobs'[w].id
          PROVE  i \in Claims(s, t)
      BY <2>3, JobOrigin DEF Claims
    <2> QED
      BY <2>1, <2>2, <2>3 DEF Claims
  <1> QED
    BY <1>1, <1>2

(* The bookings other than self that are active at t.                      *)
OthersActive(self, t) == {i \in Live \ {self} : ActiveAt(bookings[i], t)}

LEMMA ActiveClaimsStep ==
  ASSUME TypeOK, [Next]_vars, NEW t \in Int, MaxConcurrent # 0
  PROVE  \/ ActiveClaims(t)' \subseteq ActiveClaims(t)
         \/ \E self \in Ids :
               /\ Cardinality(OthersActive(self, t)) < MaxConcurrent
               /\ ActiveClaims(t)' \subseteq
                     OthersActive(self, t) \cup {Working[x] : x \in Actors}
  <1>1. ASSUME NEW h \in Handlers, CheckLocation(h), RoomFor(handlers[h]),
               h \in PastLocation', ActiveAt(handlers'[h].row, t)
        PROVE  \E self \in Ids :
               /\ Cardinality(OthersActive(self, t)) < MaxConcurrent
               /\ ActiveClaims(t)' \subseteq
                     OthersActive(self, t) \cup {Working[x] : x \in Actors}
    <2>1. UNCHANGED <<bookings, jobs>>
      BY <1>1 DEF CheckLocation
    <2>2. /\ handlers'[h].id = handlers[h].id
          /\ handlers'[h].row = handlers[h].row
          /\ handlers[h].op \in RowWriters /\ handlers[h].step = "location"
          /\ \A g \in Handlers \ {h} : handlers'[g] = handlers[g]
      BY <1>1 DEF CheckLocation, Finish, Advance, Idle, TypeOK,
                  Request, PastLocation
    <2>3. handlers[h].row \in Booking /\ handlers[h].id \in Ids
      BY <2>2 DEF TypeOK, WellFormed, RowWriters
    <2>4. Cardinality(OthersActive(handlers[h].id, t)) < MaxConcurrent
      <3>1. t \in handlers[h].row.enter .. handlers[h].row.leave
        BY <1>1, <2>2, <2>3 DEF ActiveAt, Booking
      <3> QED
        BY <1>1, <3>1 DEF RoomFor, OthersActive
    <2>5. \A i \in Live' : ActiveAt(bookings'[i], t) =>
             i \in OthersActive(handlers[h].id, t) \/ i = Working[h]
      BY <2>1, WorkingIds DEF Live, OthersActive
    <2>6. \A g \in Handlers : handlers'[g].id = Working[g]
      BY <2>2, WorkingIds
    <2>7. \A w \in Workers : jobs'[w].id = Working[w]
      BY <2>1, WorkingIds
    <2>8. ActiveClaims(t)' \subseteq
             OthersActive(handlers[h].id, t) \cup {Working[x] : x \in Actors}
      <3> HIDE DEF OthersActive
      <3> QED
        BY <2>5, <2>6, <2>7 DEF ActiveClaims, PastLocation, Saving, Actors
    <2> QED
      BY <2>3, <2>4, <2>8
  <1>2. ASSUME \A h \in Handlers : CheckLocation(h) /\ RoomFor(handlers[h]) =>
                  ~(h \in PastLocation' /\ ActiveAt(handlers'[h].row, t)),
               NEW i \in ActiveClaims(t)'
        PROVE  i \in ActiveClaims(t)
    <2>0. PastConflicts \subseteq PastLocation
      BY DEF PastConflicts, PastLocation
    <2>1. CASE i \in Live' /\ ActiveAt(bookings'[i], t)
      <3>1. CASE i \in Live /\ ActiveAt(bookings[i], t)
        BY <3>1 DEF ActiveClaims
      <3>2. ASSUME NEW h \in PastConflicts, i = handlers[h].id,
                   ActiveAt(handlers[h].row, t)
            PROVE  i \in ActiveClaims(t)
        BY <2>0, <3>2 DEF ActiveClaims
      <3>3. ASSUME NEW w \in Saving, i = jobs[w].id, ActiveAt(jobs[w].row, t)
            PROVE  i \in ActiveClaims(t)
        BY <3>3 DEF ActiveClaims
      <3>4. \A q : SameSeat(bookings'[i], q) => ActiveAt(q, t)
        BY <2>1 DEF SameSeat, ActiveAt
      <3> QED
        BY <2>1, <3>1, <3>2, <3>3, <3>4, BookingOrigin
    <2>2. ASSUME NEW h \in PastLocation', ActiveAt(handlers'[h].row, t),
                 i = handlers'[h].id
          PROVE  i \in ActiveClaims(t)
      <3>1. h \in Handlers
        BY DEF PastLocation
      <3>2. CASE /\ h \in PastLocation /\ i = handlers[h].id
                 /\ ActiveAt(handlers[h].row, t)
        BY <3>2 DEF ActiveClaims
      <3>3. CASE i \in Live /\ ActiveAt(bookings[i], t)
        BY <3>3 DEF ActiveClaims
      <3> QED
        BY <1>2, <2>2, <3>1, <3>2, <3>3, RequestOrigin, SameSeatSameHold
    <2>3. ASSUME NEW w \in Saving', ActiveAt(jobs'[w].row, t),
                 i = jobs'[w].id
          PROVE  i \in ActiveClaims(t)
      BY <2>0, <2>3, JobOrigin DEF ActiveClaims
    <2> QED
      BY <2>1, <2>2, <2>3 DEF ActiveClaims
  <1> QED
    BY <1>1, <1>2

-----------------------------------------------------------------------------
(* The two bounds.                                                         *)

(* ClaimBound and ActiveClaimBound at every instant, not only at those the *)
(* model checker books.                                                    *)
SeatBound ==
  \A s \in Spaces, t \in Int :
    /\ IsFiniteSet(Claims(s, t))
    /\ Cardinality(Claims(s, t)) <= Cardinality(Actors)

RoomBound ==
  MaxConcurrent # 0 =>
    \A t \in Int :
      /\ IsFiniteSet(ActiveClaims(t))
      /\ Cardinality(ActiveClaims(t)) < MaxConcurrent + Cardinality(Actors)

LEMMA InitBounds == Init => SeatBound /\ RoomBound
  <1> SUFFICES ASSUME Init PROVE SeatBound /\ RoomBound
    OBVIOUS
  <1>1. \A s, t : Claims(s, t) = {} /\ ActiveClaims(t) = {}
    BY DEF Init, Claims, ActiveClaims, Holding, Live, PastConflicts,
           PastLocation, Saving, Idle, NoJob
  <1>2. IsFiniteSet({}) /\ Cardinality({}) = 0
    BY FS_EmptySet
  <1>3. SeatBound
    BY <1>1, <1>2, ActorsFinite DEF SeatBound
  <1>4. RoomBound
    BY <1>1, <1>2, ActorsFinite DEF RoomBound
  <1> QED
    BY <1>3, <1>4

LEMMA StepSeatBound == TypeOK /\ SeatBound /\ [Next]_vars => SeatBound'
  <1> SUFFICES ASSUME TypeOK, SeatBound, [Next]_vars,
                      NEW s \in Spaces, NEW t \in Int
               PROVE  /\ IsFiniteSet(Claims(s, t)')
                      /\ Cardinality(Claims(s, t)') <= Cardinality(Actors)
    BY DEF SeatBound, Actors
  <1>1. CASE Claims(s, t)' \subseteq Claims(s, t)
    <2>1. /\ IsFiniteSet(Claims(s, t))
          /\ Cardinality(Claims(s, t)) <= Cardinality(Actors)
      BY DEF SeatBound
    <2> QED
      BY <1>1, <2>1, NoLargerClaims, ActorsFinite
  <1>2. CASE Claims(s, t)' \subseteq {Working[x] : x \in Actors}
    BY <1>2, OnePerActor, WorkingIds
  <1> QED
    BY <1>1, <1>2, ClaimsStep

LEMMA StepRoomBound == TypeOK /\ RoomBound /\ [Next]_vars => RoomBound'
  <1> SUFFICES ASSUME TypeOK, RoomBound, [Next]_vars, MaxConcurrent # 0,
                      NEW t \in Int
               PROVE  /\ IsFiniteSet(ActiveClaims(t)')
                      /\ Cardinality(ActiveClaims(t)')
                            < MaxConcurrent + Cardinality(Actors)
    BY DEF RoomBound, Actors
  <1>1. /\ IsFiniteSet(ActiveClaims(t))
        /\ Cardinality(ActiveClaims(t)) < MaxConcurrent + Cardinality(Actors)
    BY DEF RoomBound
  <1>2. CASE ActiveClaims(t)' \subseteq ActiveClaims(t)
    BY <1>1, <1>2, NoLargerClaims, ActorsFinite
  <1>3. ASSUME NEW self \in Ids,
               Cardinality(OthersActive(self, t)) < MaxConcurrent,
               ActiveClaims(t)' \subseteq
                  OthersActive(self, t) \cup {Working[x] : x \in Actors}
        PROVE  /\ IsFiniteSet(ActiveClaims(t)')
               /\ Cardinality(ActiveClaims(t)')
                     < MaxConcurrent + Cardinality(Actors)
    <2> DEFINE O == OthersActive(self, t)
               W == {Working[x] : x \in Actors}
    <2>1. O \subseteq ActiveClaims(t)
      BY DEF OthersActive, ActiveClaims
    <2>2. IsFiniteSet(O) /\ Cardinality(O) \in Nat
      BY <1>1, <2>1, NoLargerClaims
    <2>3. IsFiniteSet(W) /\ Cardinality(W) <= Cardinality(Actors)
      BY OnePerActor, WorkingIds
    <2> HIDE DEF O, W
    <2>4. Cardinality(W) \in Nat /\ Cardinality(O \cap W) \in Nat
      BY <2>2, <2>3, FS_CardinalityType, FS_Intersection
    <2>5. /\ IsFiniteSet(O \cup W)
          /\ Cardinality(O \cup W) <= Cardinality(O) + Cardinality(W)
      <3>1. /\ IsFiniteSet(O \cup W)
            /\ Cardinality(O \cup W) =
                  Cardinality(O) + Cardinality(W) - Cardinality(O \cap W)
        BY <2>2, <2>3, FS_Union
      <3> QED
        BY <2>2, <2>4, <3>1
    <2>6. ActiveClaims(t)' \subseteq O \cup W
      BY <1>3 DEF O, W
    <2>7. /\ IsFiniteSet(ActiveClaims(t)')
          /\ Cardinality(ActiveClaims(t)') \in Nat
          /\ Cardinality(ActiveClaims(t)') <= Cardinality(O \cup W)
          /\ Cardinality(O \cup W) \in Nat
      BY <2>5, <2>6, NoLargerClaims
    <2>8. Cardinality(O) < MaxConcurrent
      BY <1>3 DEF O
    <2> QED
      BY <2>2, <2>3, <2>4, <2>5, <2>7, <2>8, ActorsFinite
  <1> QED
    BY <1>2, <1>3, ActiveClaimsStep

LEMMA BoundsImplied == SeatBound /\ RoomBound => OverlapBound /\ CapacityBound
  <1> SUFFICES ASSUME SeatBound, RoomBound PROVE OverlapBound /\ CapacityBound
    OBVIOUS
  <1>1. OverlapBound
    <2> SUFFICES ASSUME NEW s \in Spaces, NEW t \in Int
                 PROVE  Cardinality(Holding(s, t)) <= Cardinality(Actors)
      BY InstantsAreIntegers DEF OverlapBound
    <2>1. /\ IsFiniteSet(Claims(s, t))
          /\ Cardinality(Claims(s, t)) <= Cardinality(Actors)
      BY DEF SeatBound
    <2>2. Holding(s, t) \subseteq Claims(s, t)
      BY DEF Claims
    <2> QED
      BY <2>1, <2>2, NoLargerClaims, ActorsFinite
  <1>2. CapacityBound
    <2> SUFFICES ASSUME MaxConcurrent # 0, NEW t \in Int
                 PROVE  Cardinality({i \in Live : ActiveAt(bookings[i], t)})
                           < MaxConcurrent + Cardinality(Actors)
      BY InstantsAreIntegers DEF CapacityBound
    <2>1. /\ IsFiniteSet(ActiveClaims(t))
          /\ Cardinality(ActiveClaims(t)) < MaxConcurrent + Cardinality(Actors)
      BY DEF RoomBound
    <2>2. {i \in Live : ActiveAt(bookings[i], t)} \subseteq ActiveClaims(t)
      BY DEF ActiveClaims
    <2> QED
      BY <2>1, <2>2, NoLargerClaims, ActorsFinite
  <1> QED
    BY <1>1, <1>2

(* A space is never held at one instant by more bookings than there are    *)
(* requests and goroutines at work: what GetConflicts and the write after  *)
(* it can lose to competitors does not accumulate.                         *)
THEOREM OverlapIsBounded == Spec => []OverlapBound
  BY InitTyped, StepTyped, InitBounds, StepSeatBound, StepRoomBound,
     BoundsImplied, PTL DEF Spec

(* A location never passes its max_concurrent_bookings by as many bookings *)
(* as there are requests and goroutines at work.                           *)
THEOREM CapacityIsBounded == Spec => []CapacityBound
  BY InitTyped, StepTyped, InitBounds, StepSeatBound, StepRoomBound,
     BoundsImplied, PTL DEF Spec

(* The same with the writes that are pending: even if every request past   *)
(* its checks and every goroutine wrote its row, a space would be held by  *)
(* no more bookings at an instant than there are actors.                   *)
THEOREM ClaimsAreBounded == Spec => []ClaimBound
  <1>1. SeatBound => ClaimBound
    BY InstantsAreIntegers DEF SeatBound, ClaimBound
  <1> QED
    BY <1>1, InitTyped, StepTyped, InitBounds, StepSeatBound, PTL DEF Spec

(* And the capacity of the location would not be passed by as many.        *)
THEOREM ActiveClaimsAreBounded == Spec => []ActiveClaimBound
  <1>1. RoomBound => ActiveClaimBound
    BY InstantsAreIntegers DEF RoomBound, ActiveClaimBound
  <1> QED
    BY <1>1, InitTyped, StepTyped, InitBounds, StepRoomBound, PTL DEF Spec

LEMMA AloneNoOverlap ==
  TypeOK /\ SeatBound /\ Cardinality(Actors) = 1 => NoDoubleBooking
  <1> SUFFICES ASSUME TypeOK, SeatBound, Cardinality(Actors) = 1,
                      NEW i \in Live, NEW j \in Live, i # j,
                      bookings[i].space = bookings[j].space,
                      ShareInstant(bookings[i], bookings[j].enter,
                                   bookings[j].leave)
               PROVE  FALSE
    BY DEF NoDoubleBooking
  <1>1. bookings[i] \in Booking /\ bookings[j] \in Booking
    BY LiveRow
  <1> DEFINE s == bookings[i].space
  <1>2. PICK t \in {bookings[i].enter, bookings[j].enter} :
          /\ Covers(bookings[i], t)
          /\ bookings[j].enter <= t /\ t <= bookings[j].leave
    BY DEF ShareInstant
  <1>3. t \in Int /\ s \in Spaces
    BY <1>1 DEF Booking
  <1>4. {i, j} \subseteq Claims(s, t)
    BY <1>2 DEF Claims, Holding, Covers
  <1>5. IsFiniteSet(Claims(s, t)) /\ Cardinality(Claims(s, t)) <= 1
    BY <1>3 DEF SeatBound
  <1>6. Cardinality({i, j}) = 2
    <2>1. IsFiniteSet({i}) /\ Cardinality({i}) = 1 /\ j \notin {i}
      BY FS_Singleton
    <2>2. Cardinality({i} \cup {j}) = 2
      <3>1. Cardinality({i} \cup {j}) = IF j \in {i} THEN Cardinality({i})
                                                    ELSE Cardinality({i}) + 1
        BY <2>1, FS_AddElement, Zenon
      <3>2. Cardinality({i} \cup {j}) = Cardinality({i}) + 1
        BY <2>1, <3>1, Zenon
      <3>3. Cardinality({i} \cup {j}) = 1 + 1
        BY <2>1, <3>2, Zenon
      <3> QED
        BY <3>3
    <2>3. {i, j} = {i} \cup {j}
      OBVIOUS
    <2> QED
      BY <2>2, <2>3
  <1> QED
    BY <1>4, <1>5, <1>6, NoLargerClaims

(* With a single request and no goroutine at a time, no two bookings of a  *)
(* space share an instant, whatever the ranges, users, limits and failures.*)
THEOREM AloneNothingIsBookedTwice ==
  ASSUME Cardinality(Actors) = 1
  PROVE  Spec => []NoDoubleBooking
  <1>1. TypeOK /\ SeatBound => NoDoubleBooking
    BY AloneNoOverlap
  <1> QED
    BY <1>1, InitTyped, StepTyped, InitBounds, StepSeatBound, PTL DEF Spec

-----------------------------------------------------------------------------
(* The limit per user, where nobody books for somebody else.               *)

PastUser == {h \in Handlers :
                /\ handlers[h].step \in {"upcoming", "location", "conflicts",
                                         "write"}
                /\ handlers[h].op \in RowWriters}

BooksAt(row, u, t) == row.user = u /\ row.enter <= t /\ t < row.leave

(* What a user has at an instant, and what may still be written of it.     *)
UserClaims(u, t) ==
  {i \in Live : BooksAt(bookings[i], u, t)}
    \cup {handlers[h].id : h \in {g \in PastUser :
                                     BooksAt(handlers[g].row, u, t)}}
    \cup {jobs[w].id : w \in {v \in Saving : BooksAt(jobs[v].row, u, t)}}

(* The user who is asked for the limit is the one the booking is for.      *)
OwnRows ==
  \A h \in Handlers :
    handlers[h].step = "user" => handlers[h].row.user = handlers[h].by

(* The table is finite: what is counted can be compared.                   *)
UserInv ==
  /\ OwnRows
  /\ IsFiniteSet(Live)
  /\ \A u \in Users, t \in Int :
       /\ IsFiniteSet(UserClaims(u, t))
       /\ Cardinality(UserClaims(u, t)) < MaxPerUser + Cardinality(Actors)

(* The three clauses find every booking of an instant they share.          *)
LEMMA UserClauseSeesSharedMinute ==
  ASSUME NEW b, b.enter \in Int, b.leave \in Int,
         NEW enter \in Int, NEW leave \in Int, NEW t \in Int,
         b.enter <= t, t < b.leave, enter <= t, t < leave
  PROVE  OverlapsForUser(b, enter, leave)
  BY DEF OverlapsForUser

LEMMA SameSeatSameUser ==
  ASSUME NEW r, NEW q, SameSeat(r, q), NEW u, NEW t
  PROVE  BooksAt(r, u, t) <=> BooksAt(q, u, t)
  BY DEF SameSeat, BooksAt

LEMMA StepLiveFinite ==
  ASSUME TypeOK, [Next]_vars, IsFiniteSet(Live)
  PROVE  IsFiniteSet(Live')
  <1> DEFINE W == {Working[x] : x \in Actors}
  <1>1. Live' \subseteq Live \cup W
    <2> SUFFICES ASSUME NEW i \in Live', i \notin Live PROVE i \in W
      OBVIOUS
    <2>1. \/ \E h \in PastConflicts : i = handlers[h].id
          \/ \E w \in Saving : i = jobs[w].id
      BY BookingOrigin
    <2> QED
      BY <2>1, WorkingIds DEF PastConflicts, Saving, Actors
  <1>2. IsFiniteSet(W)
    BY OnePerActor, WorkingIds
  <1> HIDE DEF W
  <1>3. IsFiniteSet(Live \cup W)
    BY <1>2, FS_Union
  <1> QED
    BY <1>1, <1>3, FS_Subset

(* A request in the line for the first check was just made, by the user    *)
(* the booking is for.                                                     *)
LEMMA StepOwnRows ==
  ASSUME TypeOK, [Next]_vars, OwnRows, Admins = {}
  PROVE  OwnRows'
  <1> SUFFICES ASSUME NEW h \in Handlers, handlers'[h].step = "user"
               PROVE  handlers'[h].row.user = handlers'[h].by
    BY DEF OwnRows
  <1>1. CASE handlers'[h] = handlers[h]
    BY <1>1 DEF OwnRows
  <1>2. ASSUME NEW g \in Handlers, BeginCreate(g), handlers'[h] # handlers[h]
        PROVE  handlers'[h].row.user = handlers'[h].by
    BY <1>2 DEF BeginCreate, TypeOK
  <1>3. ASSUME NEW g \in Handlers, BeginUpdate(g), handlers'[h] # handlers[h]
        PROVE  handlers'[h].row.user = handlers'[h].by
    <2>1. PICK id \in Live, by \in Users, owner \in Users, s \in Spaces,
               slot \in Slots :
            /\ bookings[id].user = by \/ by \in Admins
            /\ owner = bookings[id].user \/ by \in Admins
            /\ handlers' = [handlers EXCEPT ![g] =
                  [op |-> "update", step |-> "user", by |-> by, id |-> id,
                   row |-> Moved(bookings[id], owner, s, slot)]]
      BY <1>3 DEF BeginUpdate
    <2>2. Moved(bookings[id], owner, s, slot).user = owner
      BY LiveRow DEF Moved, Booking
    <2>3. owner = by
      BY <2>1
    <2> QED
      BY <1>3, <2>1, <2>2, <2>3 DEF TypeOK
  <1>4. ASSUME NEW g \in Handlers, Handle(g)
        PROVE  \/ handlers'[h] = handlers[h]
               \/ BeginCreate(g) \/ BeginUpdate(g)
    <2> USE DEF TypeOK, Request
    <2>1. CASE BeginDecide(g) \/ BeginDelete(g)
      BY <2>1 DEF BeginDecide, BeginDelete
    <2>2. CASE \/ CheckUser(g) \/ CheckUpcoming(g)
               \/ CheckLocation(g) \/ CheckConflicts(g)
      BY <2>2 DEF CheckUser, CheckUpcoming, CheckLocation, CheckConflicts,
                  Advance, Finish, Idle
    <2>3. CASE \/ WriteCreate(g) \/ WriteUpdate(g) \/ WriteDecline(g)
               \/ WriteDelete(g) \/ WriteFails(g)
      BY <2>3 DEF WriteCreate, WriteUpdate, WriteDecline, WriteDelete,
                  WriteFails, Finish, Idle
    <2> QED
      BY <1>4, <2>1, <2>2, <2>3 DEF Handle
  <1>5. ASSUME NEW w \in Workers, Work(w) PROVE handlers'[h] = handlers[h]
    BY <1>5 DEF Work, JobPut, JobSave, JobRemove, JobFails
  <1>6. ~Restart
    BY DEF Restart, Idle
  <1>7. CASE UNCHANGED vars
    BY <1>1, <1>7 DEF vars
  <1> QED
    BY <1>1, <1>2, <1>3, <1>4, <1>5, <1>6, <1>7 DEF Next

(* A request past the check of its user was so before, has just approved   *)
(* of a row of the table, or passes the check in this step.                *)
LEMMA UserRequestOrigin ==
  ASSUME TypeOK, [Next]_vars, NEW h \in PastUser'
  PROVE  \/ /\ h \in PastUser /\ handlers'[h].id = handlers[h].id
            /\ handlers'[h].row = handlers[h].row
         \/ /\ handlers'[h].id \in Live
            /\ SameSeat(handlers'[h].row, bookings[handlers'[h].id])
         \/ /\ CheckUser(h) /\ UserLimit(handlers[h])
            /\ handlers'[h].id = handlers[h].id
            /\ handlers'[h].row = handlers[h].row
  <1> USE DEF PastUser, RowWriters
  <1>1. CASE handlers'[h] = handlers[h]
    BY <1>1
  <1>2. ASSUME NEW g \in Handlers,
               \/ BeginCreate(g) \/ BeginUpdate(g) \/ BeginDelete(g)
               \/ WriteCreate(g) \/ WriteUpdate(g)
               \/ WriteDecline(g) \/ WriteDelete(g) \/ WriteFails(g)
        PROVE  handlers'[h] = handlers[h]
    BY <1>2 DEF BeginCreate, BeginUpdate, BeginDelete,
                WriteCreate, WriteUpdate, WriteDecline, WriteDelete, WriteFails,
                Finish, Idle, TypeOK, Request
  <1>3. ASSUME NEW g \in Handlers, BeginDecide(g)
        PROVE  \/ handlers'[h] = handlers[h]
               \/ /\ handlers'[h].id \in Live
                  /\ SameSeat(handlers'[h].row, bookings[handlers'[h].id])
    <2>1. PICK id \in Live, op \in {"approve", "decline"} :
            handlers' = [handlers EXCEPT ![g] =
                [op |-> op, step |-> "write", by |-> None, id |-> id,
                 row |-> [bookings[id] EXCEPT !.approved = (op = "approve")]]]
      BY <1>3 DEF BeginDecide
    <2>2. SameSeat([bookings[id] EXCEPT !.approved = (op = "approve")],
                   bookings[id])
      BY LiveRow DEF Booking, SameSeat
    <2> QED
      BY <2>1, <2>2 DEF TypeOK
  <1>4. ASSUME NEW g \in Handlers, CheckUser(g)
        PROVE  \/ handlers'[h] = handlers[h]
               \/ /\ g = h /\ UserLimit(handlers[h])
                  /\ handlers'[h].id = handlers[h].id
                  /\ handlers'[h].row = handlers[h].row
    BY <1>4 DEF CheckUser, Advance, Finish, Idle, TypeOK, Request
  <1>5. ASSUME NEW g \in Handlers,
               CheckUpcoming(g) \/ CheckLocation(g) \/ CheckConflicts(g)
        PROVE  \/ handlers'[h] = handlers[h]
               \/ /\ h \in PastUser /\ handlers'[h].id = handlers[h].id
                  /\ handlers'[h].row = handlers[h].row
    BY <1>5 DEF CheckUpcoming, CheckLocation, CheckConflicts, Advance, Finish,
                Idle, TypeOK, Request
  <1>6. ~Restart
    BY DEF Restart, Idle
  <1>7. ASSUME NEW w \in Workers, Work(w) PROVE handlers'[h] = handlers[h]
    BY <1>7 DEF Work, JobPut, JobSave, JobRemove, JobFails
  <1>8. CASE UNCHANGED vars
    BY <1>1, <1>8 DEF vars
  <1> QED
    BY <1>1, <1>2, <1>3, <1>4, <1>5, <1>6, <1>7, <1>8 DEF Next, Handle

(* The bookings of a user other than self at an instant.                   *)
OthersOfUser(self, u, t) == {i \in Live \ {self} : BooksAt(bookings[i], u, t)}

LEMMA UserClaimsStep ==
  ASSUME TypeOK, [Next]_vars, UserInv, Admins = {}, MaxPerUser # 0,
         NEW u \in Users, NEW t \in Int
  PROVE  \/ UserClaims(u, t)' \subseteq UserClaims(u, t)
         \/ \E self \in Ids :
               /\ Cardinality(OthersOfUser(self, u, t)) < MaxPerUser
               /\ UserClaims(u, t)' \subseteq
                     OthersOfUser(self, u, t) \cup {Working[x] : x \in Actors}
  <1>1. ASSUME NEW h \in Handlers, CheckUser(h), UserLimit(handlers[h]),
               h \in PastUser', BooksAt(handlers'[h].row, u, t)
        PROVE  \E self \in Ids :
               /\ Cardinality(OthersOfUser(self, u, t)) < MaxPerUser
               /\ UserClaims(u, t)' \subseteq
                     OthersOfUser(self, u, t) \cup {Working[x] : x \in Actors}
    <2>1. UNCHANGED <<bookings, jobs>>
      BY <1>1 DEF CheckUser
    <2>2. /\ handlers'[h].id = handlers[h].id
          /\ handlers'[h].row = handlers[h].row
          /\ handlers[h].op \in RowWriters /\ handlers[h].step = "user"
          /\ \A g \in Handlers \ {h} : handlers'[g] = handlers[g]
      BY <1>1 DEF CheckUser, Finish, Advance, Idle, TypeOK, Request, PastUser
    <2>3. handlers[h].row \in Booking /\ handlers[h].id \in Ids
      BY <2>2 DEF TypeOK, WellFormed, RowWriters
    <2> DEFINE self == handlers[h].id
               C == {i \in Live \ {self} :
                       /\ bookings[i].user = handlers[h].by
                       /\ OverlapsForUser(bookings[i], handlers[h].row.enter,
                                          handlers[h].row.leave)}
    <2>4. Cardinality(C) < MaxPerUser
      BY <1>1 DEF UserLimit, Unrestricted
    <2>5. OthersOfUser(self, u, t) \subseteq C
      <3>1. handlers[h].by = u
        BY <1>1, <2>2 DEF UserInv, OwnRows, BooksAt
      <3>2. ASSUME NEW i \in Live, BooksAt(bookings[i], u, t)
            PROVE  OverlapsForUser(bookings[i], handlers[h].row.enter,
                                   handlers[h].row.leave)
        <4>1. bookings[i] \in Booking
          BY LiveRow
        <4> QED
          BY <1>1, <2>2, <2>3, <3>2, <4>1, UserClauseSeesSharedMinute
             DEF BooksAt, Booking
      <3> QED
        BY <3>1, <3>2 DEF OthersOfUser, BooksAt
    <2>6. Cardinality(OthersOfUser(self, u, t)) < MaxPerUser
      <3>1. C \subseteq Live /\ IsFiniteSet(Live)
        BY DEF UserInv
      <3>2. IsFiniteSet(C)
        BY <3>1, FS_Subset
      <3> HIDE DEF C
      <3>3. /\ Cardinality(OthersOfUser(self, u, t)) <= Cardinality(C)
            /\ Cardinality(OthersOfUser(self, u, t)) \in Nat
            /\ Cardinality(C) \in Nat
        BY <2>5, <3>2, NoLargerClaims
      <3> QED
        BY <2>4, <3>3
    <2>7. \A i \in Live' : BooksAt(bookings'[i], u, t) =>
             i \in OthersOfUser(self, u, t) \/ i = Working[h]
      BY <2>1, WorkingIds DEF Live, OthersOfUser
    <2>8. \A g \in Handlers : handlers'[g].id = Working[g]
      BY <2>2, WorkingIds
    <2>9. \A w \in Workers : jobs'[w].id = Working[w]
      BY <2>1, WorkingIds
    <2>10. UserClaims(u, t)' \subseteq
              OthersOfUser(self, u, t) \cup {Working[x] : x \in Actors}
      <3> HIDE DEF self
      <3> QED
        BY <2>7, <2>8, <2>9 DEF UserClaims, PastUser, Saving, Actors
    <2> QED
      BY <2>3, <2>6, <2>10
  <1>2. ASSUME \A h \in Handlers : CheckUser(h) /\ UserLimit(handlers[h]) =>
                  ~(h \in PastUser' /\ BooksAt(handlers'[h].row, u, t)),
               NEW i \in UserClaims(u, t)'
        PROVE  i \in UserClaims(u, t)
    <2>0. PastConflicts \subseteq PastUser
      BY DEF PastConflicts, PastUser
    <2>1. CASE i \in Live' /\ BooksAt(bookings'[i], u, t)
      <3>1. CASE i \in Live /\ BooksAt(bookings[i], u, t)
        BY <3>1 DEF UserClaims
      <3>2. ASSUME NEW h \in PastConflicts, i = handlers[h].id,
                   BooksAt(handlers[h].row, u, t)
            PROVE  i \in UserClaims(u, t)
        BY <2>0, <3>2 DEF UserClaims
      <3>3. ASSUME NEW w \in Saving, i = jobs[w].id, BooksAt(jobs[w].row, u, t)
            PROVE  i \in UserClaims(u, t)
        BY <3>3 DEF UserClaims
      <3>4. \A q : SameSeat(bookings'[i], q) => BooksAt(q, u, t)
        BY <2>1, SameSeatSameUser
      <3> QED
        BY <2>1, <3>1, <3>2, <3>3, <3>4, BookingOrigin
    <2>2. ASSUME NEW h \in PastUser', BooksAt(handlers'[h].row, u, t),
                 i = handlers'[h].id
          PROVE  i \in UserClaims(u, t)
      <3>1. h \in Handlers
        BY DEF PastUser
      <3>2. CASE /\ h \in PastUser /\ i = handlers[h].id
                 /\ BooksAt(handlers[h].row, u, t)
        BY <3>2 DEF UserClaims
      <3>3. CASE i \in Live /\ BooksAt(bookings[i], u, t)
        BY <3>3 DEF UserClaims
      <3> QED
        BY <1>2, <2>2, <3>1, <3>2, <3>3, UserRequestOrigin, SameSeatSameUser
    <2>3. ASSUME NEW w \in Saving', BooksAt(jobs'[w].row, u, t),
                 i = jobs'[w].id
          PROVE  i \in UserClaims(u, t)
      BY <2>0, <2>3, JobOrigin DEF UserClaims
    <2> QED
      BY <2>1, <2>2, <2>3 DEF UserClaims
  <1> QED
    BY <1>1, <1>2

LEMMA StepUserInv ==
  Admins = {} /\ MaxPerUser # 0 /\ TypeOK /\ UserInv /\ [Next]_vars => UserInv'
  <1> SUFFICES ASSUME Admins = {}, MaxPerUser # 0, TypeOK, UserInv, [Next]_vars
               PROVE  UserInv'
    OBVIOUS
  <1>1. OwnRows' /\ IsFiniteSet(Live')
    BY StepOwnRows, StepLiveFinite DEF UserInv
  <1>2. ASSUME NEW u \in Users, NEW t \in Int
        PROVE  /\ IsFiniteSet(UserClaims(u, t)')
               /\ Cardinality(UserClaims(u, t)')
                     < MaxPerUser + Cardinality(Actors)
    <2>1. /\ IsFiniteSet(UserClaims(u, t))
          /\ Cardinality(UserClaims(u, t)) < MaxPerUser + Cardinality(Actors)
      BY DEF UserInv
    <2>2. CASE UserClaims(u, t)' \subseteq UserClaims(u, t)
      BY <2>1, <2>2, NoLargerClaims, ActorsFinite
    <2>3. ASSUME NEW self \in Ids,
                 Cardinality(OthersOfUser(self, u, t)) < MaxPerUser,
                 UserClaims(u, t)' \subseteq
                    OthersOfUser(self, u, t) \cup {Working[x] : x \in Actors}
          PROVE  /\ IsFiniteSet(UserClaims(u, t)')
                 /\ Cardinality(UserClaims(u, t)')
                       < MaxPerUser + Cardinality(Actors)
      <3> DEFINE O == OthersOfUser(self, u, t)
                 W == {Working[x] : x \in Actors}
      <3>1. O \subseteq UserClaims(u, t)
        BY DEF OthersOfUser, UserClaims
      <3>2. IsFiniteSet(O) /\ Cardinality(O) \in Nat
        BY <2>1, <3>1, NoLargerClaims
      <3>3. IsFiniteSet(W) /\ Cardinality(W) <= Cardinality(Actors)
        BY OnePerActor, WorkingIds
      <3>4. UserClaims(u, t)' \subseteq O \cup W /\ Cardinality(O) < MaxPerUser
        BY <2>3
      <3> HIDE DEF O, W
      <3>5. Cardinality(W) \in Nat /\ Cardinality(O \cap W) \in Nat
        BY <3>2, <3>3, FS_CardinalityType, FS_Intersection
      <3>6. /\ IsFiniteSet(O \cup W)
            /\ Cardinality(O \cup W) =
                  Cardinality(O) + Cardinality(W) - Cardinality(O \cap W)
        BY <3>2, <3>3, FS_Union
      <3>7. /\ IsFiniteSet(UserClaims(u, t)')
            /\ Cardinality(UserClaims(u, t)') \in Nat
            /\ Cardinality(UserClaims(u, t)') <= Cardinality(O \cup W)
            /\ Cardinality(O \cup W) \in Nat
        BY <3>4, <3>6, NoLargerClaims
      <3> QED
        BY <3>2, <3>3, <3>4, <3>5, <3>6, <3>7, ActorsFinite
    <2> QED
      BY <2>2, <2>3, UserClaimsStep
  <1> QED
    BY <1>1, <1>2 DEF UserInv, Actors

LEMMA InitUserInv == MaxPerUser # 0 /\ Init => UserInv
  <1> SUFFICES ASSUME MaxPerUser # 0, Init PROVE UserInv
    OBVIOUS
  <1>1. Live = {} /\ \A u, t : UserClaims(u, t) = {}
    BY DEF Init, UserClaims, Live, PastUser, Saving, Idle, NoJob
  <1>2. IsFiniteSet({}) /\ Cardinality({}) = 0
    BY FS_EmptySet
  <1>3. OwnRows
    BY DEF Init, OwnRows, Idle
  <1>4. MaxPerUser \in Nat /\ Cardinality(Actors) \in Nat
    BY ActorsFinite
  <1>5. 0 < MaxPerUser + Cardinality(Actors)
    BY <1>4
  <1>6. IsFiniteSet(Live)
    BY <1>1, <1>2
  <1>7. ASSUME NEW u \in Users, NEW t \in Int
        PROVE  /\ IsFiniteSet(UserClaims(u, t))
               /\ Cardinality(UserClaims(u, t))
                     < MaxPerUser + Cardinality(Actors)
    <2>1. UserClaims(u, t) = {}
      BY <1>1
    <2> QED
      BY <1>2, <1>5, <2>1
  <1> QED
    BY <1>3, <1>6, <1>7 DEF UserInv

LEMMA UserBoundImplied ==
  (Admins = {} /\ MaxPerUser # 0 => UserInv) => UserBound
  <1> SUFFICES ASSUME UserInv, Admins = {}, MaxPerUser # 0,
                      NEW u \in Users, NEW t \in Int
               PROVE  Cardinality({i \in Live : /\ bookings[i].user = u
                                                /\ bookings[i].enter <= t
                                                /\ t < bookings[i].leave})
                         < MaxPerUser + Cardinality(Actors)
    BY InstantsAreIntegers DEF UserBound
  <1>1. /\ IsFiniteSet(UserClaims(u, t))
        /\ Cardinality(UserClaims(u, t)) < MaxPerUser + Cardinality(Actors)
    BY DEF UserInv
  <1>2. {i \in Live : /\ bookings[i].user = u
                      /\ bookings[i].enter <= t
                      /\ t < bookings[i].leave} \subseteq UserClaims(u, t)
    BY DEF UserClaims, BooksAt
  <1> QED
    BY <1>1, <1>2, NoLargerClaims, ActorsFinite

(* Where nobody may book for others, a user passes the limit on            *)
(* simultaneous bookings (max_concurrent_bookings_per_user) by fewer than  *)
(* there are requests and goroutines at work.                              *)
THEOREM UserIsBounded == Spec => []UserBound
  <1> DEFINE J == Admins = {} /\ MaxPerUser # 0 => UserInv
  <1>1. Init => J
    BY InitUserInv
  <1>2. TypeOK /\ J /\ [Next]_vars => J'
    BY StepUserInv
  <1>3. J => UserBound
    BY UserBoundImplied
  <1> HIDE DEF J
  <1> QED
    BY <1>1, <1>2, <1>3, InitTyped, StepTyped, PTL DEF Spec

-----------------------------------------------------------------------------
(* Removed bookings.                                                       *)

Creating(h) == handlers[h].op = "create"

(* The id a create is going to insert is its own, and new.                 *)
FreshIds ==
  /\ \A h \in Handlers : Creating(h) => handlers[h].id \notin issued
  /\ \A g, h \in Handlers : (g # h /\ Creating(g) /\ Creating(h)) =>
        handlers[g].id # handlers[h].id

LEMMA InitFresh == Init => FreshIds
  BY DEF Init, FreshIds, Creating, Idle

(* A step leaves the issued ids and the creates in progress as they are,   *)
(* ends some of them, or adds one with an id nobody has.                   *)
LEMMA StepFresh == TypeOK /\ FreshIds /\ [Next]_vars => FreshIds'
  <1> SUFFICES ASSUME TypeOK, FreshIds, [Next]_vars
               PROVE  FreshIds'
    OBVIOUS
  <1> USE DEF FreshIds, Creating
  <1>1. ASSUME NEW h \in Handlers, BeginCreate(h)
        PROVE  FreshIds'
    <2>1. PICK id \in Ids \ (issued \cup Reserved), row \in Booking,
               by \in Users :
            handlers' = [handlers EXCEPT ![h] =
                [op |-> "create", step |-> "user", by |-> by, id |-> id,
                 row |-> row]]
      BY <1>1 DEF BeginCreate, Booking
    <2>2. issued' = issued
      BY <1>1 DEF BeginCreate
    <2> QED
      BY <2>1, <2>2 DEF Reserved, TypeOK
  <1>2. ASSUME NEW h \in Handlers, WriteCreate(h)
        PROVE  FreshIds'
    <2>1. /\ issued' = issued \cup {handlers[h].id}
          /\ handlers' = [handlers EXCEPT ![h] = Idle]
          /\ Creating(h)
      BY <1>2 DEF WriteCreate, Finish
    <2> QED
      BY <2>1 DEF Idle, TypeOK
  <1>3. ASSUME NEW h \in Handlers, NEW r \in Request,
               handlers' = [handlers EXCEPT ![h] = r],
               r.op = "create" => /\ Creating(h)
                                  /\ r.id = handlers[h].id,
               issued' = issued
        PROVE  FreshIds'
    BY <1>3 DEF TypeOK
  <1>4. ASSUME NEW h \in Handlers, Handle(h),
               ~BeginCreate(h), ~WriteCreate(h)
        PROVE  FreshIds'
    <2>1. issued' = issued
      BY <1>4 DEF Handle, BeginUpdate, BeginDecide, BeginDelete, CheckUser,
                  CheckUpcoming, CheckLocation, CheckConflicts, WriteUpdate,
                  WriteDecline, WriteDelete, WriteFails
    <2>2. CASE Finish(h)
      BY <2>1, <2>2, <1>3, IdleTyped DEF Finish, Idle
    <2>3. ASSUME NEW st \in Steps, Advance(h, st)
          PROVE  FreshIds'
      <3> DEFINE r == [handlers[h] EXCEPT !.step = st]
      <3>1. r \in Request /\ r.op = handlers[h].op /\ r.id = handlers[h].id
        BY DEF TypeOK, Request
      <3>2. handlers' = [handlers EXCEPT ![h] = r]
        BY <2>3 DEF Advance
      <3> HIDE DEF r
      <3> QED
        BY <2>1, <3>1, <3>2, <1>3
    <2>4. CASE BeginUpdate(h)
      <3>1. PICK id \in Live, by \in Users, owner \in Users, s \in Spaces,
                 slot \in Slots :
              handlers' = [handlers EXCEPT ![h] =
                [op |-> "update", step |-> "user", by |-> by, id |-> id,
                 row |-> Moved(bookings[id], owner, s, slot)]]
        BY <2>4 DEF BeginUpdate
      <3> QED
        BY <2>1, <3>1 DEF TypeOK
    <2>5. CASE BeginDecide(h)
      <3>1. PICK id \in Live, op \in {"approve", "decline"} :
              handlers' = [handlers EXCEPT ![h] =
                [op |-> op, step |-> "write", by |-> None, id |-> id,
                 row |-> [bookings[id] EXCEPT !.approved = (op = "approve")]]]
        BY <2>5 DEF BeginDecide
      <3> QED
        BY <2>1, <3>1 DEF TypeOK
    <2>6. CASE BeginDelete(h)
      <3>1. PICK id \in Live :
              handlers' = [handlers EXCEPT ![h] =
                [op |-> "delete", step |-> "write", by |-> None, id |-> id,
                 row |-> None]]
        BY <2>6 DEF BeginDelete
      <3> QED
        BY <2>1, <3>1 DEF TypeOK
    <2>7. CASE CheckUpcoming(h)
      <3>1. \/ Finish(h)
            \/ handlers' = [handlers EXCEPT ![h].step = "location",
                                            ![h].by = None]
        BY <2>7 DEF CheckUpcoming, Finish
      <3>2. CASE ~Finish(h)
        <4> DEFINE r == [handlers[h] EXCEPT !.step = "location", !.by = None]
        <4>1. /\ r \in Request /\ r.op = handlers[h].op
              /\ r.id = handlers[h].id
          BY DEF TypeOK, Request, Steps
        <4>2. handlers' = [handlers EXCEPT ![h] = r]
          BY <3>1, <3>2 DEF TypeOK
        <4> HIDE DEF r
        <4> QED
          BY <2>1, <4>1, <4>2, <1>3
      <3> QED
        BY <3>2, <2>2
    <2> QED
      <3>1. CASE CheckUser(h) \/ CheckLocation(h) \/ CheckConflicts(h)
        BY <3>1, <2>2, <2>3
           DEF CheckUser, CheckLocation, CheckConflicts, Steps
      <3>2. CASE \/ WriteUpdate(h) \/ WriteDecline(h) \/ WriteDelete(h)
                 \/ WriteFails(h)
        BY <3>2, <2>2
           DEF WriteUpdate, WriteDecline, WriteDelete, WriteFails
      <3> QED
        BY <1>4, <3>1, <3>2, <2>4, <2>5, <2>6, <2>7 DEF Handle
  <1>5. CASE \E w \in Workers : Work(w)
    BY <1>5 DEF Work, JobPut, JobSave, JobRemove, JobFails
  <1>6. CASE Restart
    BY <1>6 DEF Restart, Idle
  <1>7. CASE UNCHANGED vars
    BY <1>7 DEF vars
  <1> QED
    BY <1>1, <1>2, <1>4, <1>5, <1>6, <1>7 DEF Next

(* Only a create fills an empty row, and it uses an id that was never given*)
(* out; every other write finds the row gone.                              *)
LEMMA GoneStep ==
  ASSUME TypeOK, FreshIds, [Next]_vars, NEW i \in issued, i \notin Live
  PROVE  bookings'[i] = None
  <1>1. i \in Ids /\ bookings[i] = None
    BY DEF TypeOK, Live
  <1>2. CASE UNCHANGED bookings
    BY <1>1, <1>2
  <1>3. ASSUME NEW h \in Handlers, WriteCreate(h)
        PROVE  bookings'[i] = None
    <2>1. i # handlers[h].id
      BY <1>3 DEF WriteCreate, FreshIds, Creating
    <2> QED
      BY <1>1, <1>3, <2>1 DEF WriteCreate, TypeOK
  <1>4. ASSUME NEW h \in Handlers,
               WriteUpdate(h) \/ WriteDecline(h) \/ WriteDelete(h)
        PROVE  bookings'[i] = None
    BY <1>1, <1>4 DEF WriteUpdate, WriteDecline, WriteDelete, UpdateRow,
                      DeleteRow, Live, TypeOK
  <1>5. ASSUME NEW w \in Workers, JobSave(w)
        PROVE  bookings'[i] = None
    BY <1>1, <1>5 DEF JobSave, UpdateRow, Live, TypeOK
  <1> QED
    <2>1. CASE ~UNCHANGED bookings
      <3>1. \/ \E h \in Handlers : \/ WriteCreate(h) \/ WriteUpdate(h)
                                   \/ WriteDecline(h) \/ WriteDelete(h)
            \/ \E w \in Workers : JobSave(w)
        BY <2>1 DEF Next, Handle, Work, vars, BeginCreate, BeginUpdate,
                    BeginDecide, BeginDelete, CheckUser, CheckUpcoming,
                    CheckLocation, CheckConflicts, WriteFails, JobPut,
                    JobRemove, JobFails, Restart
      <3> QED
        BY <3>1, <1>3, <1>4, <1>5
    <2> QED
      BY <2>1, <1>2

(* A booking that was removed is never in the table again, whatever stale  *)
(* copies of it requests and goroutines still write.                       *)
THEOREM RemovedStaysRemoved == Spec => GoneStaysGone
  <1>1. TypeOK /\ FreshIds /\ [Next]_vars =>
           [\A i \in issued : i \notin Live => bookings'[i] = None]_vars
    BY GoneStep
  <1> QED
    BY <1>1, InitTyped, StepTyped, InitFresh, StepFresh, PTL
       DEF Spec, GoneStaysGone
=============================================================================
