---------------------------- MODULE Series_proofs ----------------------------
(***************************************************************************)
(* Proofs about Series for every number of bookings, series, requests and  *)
(* goroutines: the tables keep their types; no write of a stale copy       *)
(* brings a deleted or purged booking back; with one request at a time no  *)
(* booking names a series without a row, whichever statement fails; and    *)
(* when no statement fails the last booking of a series takes the series   *)
(* with it, whatever else happens at the same time.                        *)
(***************************************************************************)
EXTENDS Series, SequenceTheorems, TLAPS

USE PlansAssumption, BoundsAssumption, NoneAssumption

-----------------------------------------------------------------------------
(* Types.                                                                  *)

(* Where a request can be, by what it does.                                *)
Occurring   == [step : {"occur"}, series : SeriesIds, todo : Seq(Nat),
                approved : BOOLEAN, made : Seq(Copy)]
Unmaking    == [step : {"future", "detach", "series"}, series : SeriesIds]
DeletingOne == [step : {"row", "parent"}, id : Ids,
                series : SeriesIds \cup {None}]
Writing     == [step : {"write"}, id : Ids, row : Booking]

HandlerState == {Idle} \cup Occurring \cup Unmaking \cup DeletingOne \cup Writing

(* What a goroutine can have left to do: never a list without a head.      *)
Putting  == [step : {"put", "save"}, copies : Seq(Copy) \ {<<>>}]
Sweeping == [step : {"sweep"}, series : SeriesIds]
Removing == [step : {"remove"}, ids : SUBSET Ids]

JobState == {NoJob} \cup Putting \cup Sweeping \cup Removing

TypeInv ==
  /\ TypeOK
  /\ handlers \in [Handlers -> HandlerState]
  /\ jobs \in [Workers -> JobState]

LEMMA InitTyped == Init => TypeInv
  <1> SUFFICES ASSUME Init PROVE TypeInv
    OBVIOUS
  <1>1. handlers \in [Handlers -> HandlerState] /\ jobs \in [Workers -> JobState]
    BY DEF Init, HandlerState, JobState
  <1>2. Live = {}
    BY DEF Init, Live
  <1>3. now \in Days /\ faults \in 0 .. MaxFaults
    BY DEF Init, Days
  <1> QED
    BY <1>1, <1>2, <1>3 DEF Init, TypeInv, TypeOK, Idle, NoJob, Steps

(* The step of a request tells what else it holds.                         *)
LEMMA HandlerByStep ==
  ASSUME NEW r \in HandlerState
  PROVE  /\ r.step \in Steps
         /\ r.step = "occur" => r \in Occurring
         /\ r.step \in {"future", "detach", "series"} => r \in Unmaking
         /\ r.step \in {"row", "parent"} => r \in DeletingOne
         /\ r.step = "write" => r \in Writing
  BY DEF HandlerState, Idle, Occurring, Unmaking, DeletingOne, Writing, Steps

LEMMA JobByStep ==
  ASSUME NEW j \in JobState
  PROVE  /\ j.step \in {"idle", "put", "save", "sweep", "remove"}
         /\ j.step \in {"put", "save"} => j \in Putting
         /\ j.step = "sweep" => j \in Sweeping
         /\ j.step = "remove" => j \in Removing
  BY DEF JobState, NoJob, Putting, Sweeping, Removing

LEMMA LiveRow ==
  ASSUME TypeInv, NEW i \in Live
  PROVE  i \in Ids /\ bookings[i] \in Booking
  BY DEF TypeInv, TypeOK, Live

LEMMA BecomeTyped ==
  ASSUME TypeInv, NEW h \in Handlers, NEW r \in HandlerState, Become(h, r)
  PROVE  /\ handlers' \in [Handlers -> HandlerState]
         /\ \A g \in Handlers : handlers'[g].step \in Steps
  BY HandlerByStep DEF TypeInv, Become

LEMMA FinishTyped ==
  ASSUME TypeInv, NEW h \in Handlers, Finish(h)
  PROVE  /\ handlers' \in [Handlers -> HandlerState]
         /\ \A g \in Handlers : handlers'[g].step \in Steps
  <1>1. Idle \in HandlerState
    BY DEF HandlerState
  <1> QED
    BY <1>1, BecomeTyped DEF Finish

JobsTyped ==
  /\ jobs \in [Workers -> JobState]
  /\ \A w \in Workers :
        /\ jobs[w].step \in {"idle", "put", "save", "sweep", "remove"}
        /\ jobs[w].step \in {"put", "save"} => jobs[w].copies \in Seq(Copy)

LEMMA TypedJobs ==
  /\ jobs \in [Workers -> JobState] => JobsTyped
  /\ jobs' \in [Workers -> JobState] => JobsTyped'
  BY JobByStep DEF JobsTyped, Putting

LEMMA GoTyped ==
  ASSUME TypeInv, NEW job \in JobState, Go(job)
  PROVE  JobsTyped'
  <1>1. jobs' \in [Workers -> JobState]
    BY DEF Go, TypeInv
  <1> QED
    BY <1>1, TypedJobs

LEMMA JobStepTyped ==
  ASSUME TypeInv, NEW w \in Workers, NEW job \in JobState,
         jobs' = [jobs EXCEPT ![w] = job]
  PROVE  JobsTyped'
  <1>1. jobs' \in [Workers -> JobState]
    BY DEF TypeInv
  <1> QED
    BY <1>1, TypedJobs

(* A goroutine never ends up with an empty list of copies.                 *)
LEMMA NextCopyTyped ==
  ASSUME TypeInv, NEW w \in Workers, jobs[w] \in Putting, NextCopy(w)
  PROVE  JobsTyped'
  <1> DEFINE rest == Tail(jobs[w].copies)
             next == IF rest = <<>> THEN NoJob
                     ELSE [step |-> "put", copies |-> rest]
  <1>1. rest \in Seq(Copy)
    BY HeadTailProperties DEF Putting
  <1>2. next \in JobState
    BY <1>1 DEF JobState, Putting
  <1>3. jobs' = [jobs EXCEPT ![w] = next]
    BY DEF NextCopy
  <1> QED
    BY <1>2, <1>3, JobStepTyped

(* An UPDATE changes a row that is there, and no other.                    *)
LEMMA UpdateRowTyped ==
  ASSUME TypeInv, NEW id, NEW row \in Booking, UpdateRow(id, row)
  PROVE  /\ bookings' \in [Ids -> Booking \cup {None}]
         /\ Live' \subseteq Live
         /\ \A i \in Ids : bookings'[i] = bookings[i] \/ (i = id /\ bookings'[i] = row)
  BY DEF UpdateRow, TypeInv, TypeOK, Live

(* Rows that are removed leave the others.                                 *)
LEMMA RemovedTyped ==
  ASSUME TypeInv, NEW S,
         bookings' = [i \in Ids |-> IF i \in S THEN None ELSE bookings[i]]
  PROVE  bookings' \in [Ids -> Booking \cup {None}] /\ Live' \subseteq Live
  BY DEF TypeInv, TypeOK, Live

LEMMA StepTyped == TypeInv /\ [Next]_vars => TypeInv'
  <1> SUFFICES ASSUME TypeInv, [Next]_vars PROVE TypeInv'
    OBVIOUS
  <1> USE DEF TypeInv, TypeOK
  <1>0. JobsTyped /\ Idle \in HandlerState /\ NoJob \in JobState
    BY TypedJobs DEF HandlerState, JobState
  <1>1. ASSUME NEW h \in Handlers, BeginCreate(h) PROVE TypeInv'
    <2>1. PICK sid \in SeriesIds \ opened, plan \in Plans, approved \in BOOLEAN :
            /\ series' = series \cup {sid} /\ opened' = opened \cup {sid}
            /\ IF Len(plan) > MaxRecurring THEN UNCHANGED handlers
               ELSE Become(h, [step |-> "occur", series |-> sid, todo |-> plan,
                               approved |-> approved, made |-> <<>>])
      BY <1>1 DEF BeginCreate
    <2> DEFINE r == [step |-> "occur", series |-> sid, todo |-> plan,
                     approved |-> approved, made |-> <<>>]
    <2>2. r \in HandlerState
      BY DEF HandlerState, Occurring
    <2>3. handlers' = handlers \/ Become(h, r)
      BY <2>1
    <2> HIDE DEF r
    <2>4. /\ handlers' \in [Handlers -> HandlerState]
          /\ \A g \in Handlers : handlers'[g].step \in Steps
      BY <2>2, <2>3, BecomeTyped
    <2> QED
      BY <1>1, <2>1, <2>4 DEF BeginCreate, Live, Used
  <1>2. ASSUME NEW h \in Handlers, Occur(h) PROVE TypeInv'
    <2> DEFINE r == handlers[h]
               refused == \/ Head(r.todo) < now
                          \/ \E i \in Live : bookings[i].day = Head(r.todo)
               row == [series |-> r.series, day |-> Head(r.todo),
                       approved |-> r.approved /\ ~refused, caldav |-> FALSE]
               next(id) == [r EXCEPT !.todo = Tail(@),
                                     !.made = Append(@, [id |-> id, row |-> row])]
    <2>1. r \in Occurring /\ r.todo # <<>>
      BY <1>2, HandlerByStep DEF Occur
    <2>2. /\ r.series \in SeriesIds /\ r.todo \in Seq(Nat)
          /\ r.approved \in BOOLEAN /\ r.made \in Seq(Copy)
      BY <2>1 DEF Occurring
    <2>3. Head(r.todo) \in Nat /\ Tail(r.todo) \in Seq(Nat)
      BY <2>1, <2>2
    <2>4. row \in Booking
      BY <2>2, <2>3 DEF Booking
    <2>5. \/ /\ Become(h, next(None)) /\ UNCHANGED <<bookings, issued>>
          \/ \E id \in Ids \ Used :
               /\ bookings' = [bookings EXCEPT ![id] = row]
               /\ issued' = issued \cup {<<id, r.series>>}
               /\ Become(h, next(id))
      BY <1>2 DEF Occur
    <2>6. ASSUME NEW id \in Ids \cup {None} PROVE next(id) \in HandlerState
      <3> HIDE DEF row
      <3>1. [id |-> id, row |-> row] \in Copy
        BY <2>4 DEF Copy
      <3>2. Append(r.made, [id |-> id, row |-> row]) \in Seq(Copy)
        BY <2>2, <3>1
      <3>3. next(id) \in Occurring
        BY <2>1, <2>3, <3>2 DEF Occurring
      <3> QED
        BY <3>3 DEF HandlerState
    <2> HIDE DEF row, next, r
    <2>7. CASE Become(h, next(None)) /\ UNCHANGED <<bookings, issued>>
      <3>1. next(None) \in HandlerState
        BY <2>6
      <3>2. /\ handlers' \in [Handlers -> HandlerState]
            /\ \A g \in Handlers : handlers'[g].step \in Steps
        BY <2>7, <3>1, BecomeTyped
      <3> QED
        BY <1>2, <2>7, <3>2 DEF Occur, Live, Used
    <2>8. ASSUME NEW id \in Ids \ Used,
                 bookings' = [bookings EXCEPT ![id] = row],
                 issued' = issued \cup {<<id, r.series>>},
                 Become(h, next(id))
          PROVE  TypeInv'
      <3>1. next(id) \in HandlerState
        BY <2>6
      <3>2. /\ handlers' \in [Handlers -> HandlerState]
            /\ \A g \in Handlers : handlers'[g].step \in Steps
        BY <2>8, <3>1, BecomeTyped
      <3>3. bookings' \in [Ids -> Booking \cup {None}] /\ Live' \subseteq Live \cup {id}
        BY <2>4, <2>8 DEF Live
      <3>4. issued' \subseteq Ids \X SeriesIds
        BY <2>2, <2>8
      <3>5. Used \subseteq Used' /\ id \in Used'
        <4> DEFINE p == <<id, r.series>>
        <4>1. p[1] = id
          OBVIOUS
        <4>2. p \in issued' /\ issued \subseteq issued'
          BY <2>8
        <4> HIDE DEF p
        <4> QED
          BY <4>1, <4>2 DEF Used
      <3>6. Live' \subseteq Used'
        BY <3>3, <3>5
      <3> QED
        BY <1>2, <3>2, <3>3, <3>4, <3>6 DEF Occur
    <2> QED
      BY <2>5, <2>7, <2>8
  <1>3. ASSUME NEW h \in Handlers, EndCreate(h) PROVE TypeInv'
    <2>1. handlers[h] \in Occurring
      BY <1>3, HandlerByStep DEF EndCreate
    <2>2. CASE UNCHANGED jobs
      BY <1>0, <1>3, <2>2, FinishTyped DEF EndCreate, Live, Used, JobsTyped
    <2>3. CASE /\ handlers[h].made # <<>>
               /\ Go([step |-> "put", copies |-> handlers[h].made])
      <3>1. [step |-> "put", copies |-> handlers[h].made] \in JobState
        BY <2>1, <2>3 DEF JobState, Putting, Occurring
      <3>2. JobsTyped'
        BY <2>3, <3>1, GoTyped
      <3> QED
        BY <1>3, <3>2, FinishTyped DEF EndCreate, Live, Used, JobsTyped
    <2> QED
      BY <1>3, <2>2, <2>3 DEF EndCreate
  <1>4. ASSUME NEW h \in Handlers, BeginDeleteSeries(h) PROVE TypeInv'
    <2>1. PICK sid \in series : /\ Go([step |-> "sweep", series |-> sid])
                                /\ Become(h, [step |-> "future", series |-> sid])
      BY <1>4 DEF BeginDeleteSeries
    <2>2. [step |-> "sweep", series |-> sid] \in JobState
      BY DEF JobState, Sweeping
    <2>3. [step |-> "future", series |-> sid] \in HandlerState
      BY DEF HandlerState, Unmaking
    <2>4. JobsTyped'
      BY <2>1, <2>2, GoTyped
    <2>5. /\ handlers' \in [Handlers -> HandlerState]
          /\ \A g \in Handlers : handlers'[g].step \in Steps
      BY <2>1, <2>3, BecomeTyped
    <2> QED
      BY <1>4, <2>4, <2>5 DEF BeginDeleteSeries, Live, Used, JobsTyped
  <1>5. ASSUME NEW h \in Handlers, DeleteFuture(h) PROVE TypeInv'
    <2>1. handlers[h] \in Unmaking
      BY <1>5, HandlerByStep DEF DeleteFuture
    <2>2. [handlers[h] EXCEPT !.step = "detach"] \in HandlerState
      BY <2>1 DEF HandlerState, Unmaking
    <2>3. /\ handlers' \in [Handlers -> HandlerState]
          /\ \A g \in Handlers : handlers'[g].step \in Steps
      BY <1>5, <2>2, BecomeTyped DEF DeleteFuture
    <2> DEFINE S == {i \in Of(handlers[h].series) : bookings[i].day > now}
    <2>4. bookings' = [i \in Ids |-> IF i \in S THEN None ELSE bookings[i]]
      BY <1>5 DEF DeleteFuture
    <2> HIDE DEF S
    <2>5. bookings' \in [Ids -> Booking \cup {None}] /\ Live' \subseteq Live
      BY <2>4, RemovedTyped
    <2> QED
      BY <1>5, <2>3, <2>5 DEF DeleteFuture, Used
  <1>6. ASSUME NEW h \in Handlers, Detach(h) PROVE TypeInv'
    <2>1. handlers[h] \in Unmaking
      BY <1>6, HandlerByStep DEF Detach
    <2>2. [handlers[h] EXCEPT !.step = "series"] \in HandlerState
      BY <2>1 DEF HandlerState, Unmaking
    <2>3. /\ handlers' \in [Handlers -> HandlerState]
          /\ \A g \in Handlers : handlers'[g].step \in Steps
      BY <1>6, <2>2, BecomeTyped DEF Detach
    <2>4. ASSUME NEW i \in Live
          PROVE  [bookings[i] EXCEPT !.series = None] \in Booking
      BY LiveRow DEF Booking
    <2>5. bookings' \in [Ids -> Booking \cup {None}] /\ Live' \subseteq Live
      BY <1>6, <2>4 DEF Detach, Of, Live
    <2> QED
      BY <1>6, <2>3, <2>5 DEF Detach, Used
  <1>7. ASSUME NEW h \in Handlers, DeleteSeriesRow(h) PROVE TypeInv'
    BY <1>7, FinishTyped DEF DeleteSeriesRow, Live, Used
  <1>8. ASSUME NEW h \in Handlers, BeginDeleteOne(h) PROVE TypeInv'
    <2>1. PICK i \in Live :
            /\ IF bookings[i].caldav THEN Go([step |-> "remove", ids |-> {i}])
                                     ELSE UNCHANGED jobs
            /\ Become(h, [step |-> "row", id |-> i,
                          series |-> bookings[i].series])
      BY <1>8 DEF BeginDeleteOne
    <2>2. [step |-> "remove", ids |-> {i}] \in JobState
      BY LiveRow DEF JobState, Removing
    <2>3. [step |-> "row", id |-> i, series |-> bookings[i].series] \in HandlerState
      BY LiveRow DEF HandlerState, DeletingOne, Booking
    <2>4. JobsTyped'
      BY <1>0, <2>1, <2>2, GoTyped DEF JobsTyped
    <2>5. /\ handlers' \in [Handlers -> HandlerState]
          /\ \A g \in Handlers : handlers'[g].step \in Steps
      BY <2>1, <2>3, BecomeTyped
    <2> QED
      BY <1>8, <2>4, <2>5 DEF BeginDeleteOne, Live, Used, JobsTyped
  <1>9. ASSUME NEW h \in Handlers, DeleteRow(h) PROVE TypeInv'
    <2>1. handlers[h] \in DeletingOne
      BY <1>9, HandlerByStep DEF DeleteRow
    <2>2. [handlers[h] EXCEPT !.step = "parent"] \in HandlerState
      BY <2>1 DEF HandlerState, DeletingOne
    <2>3. /\ handlers' \in [Handlers -> HandlerState]
          /\ \A g \in Handlers : handlers'[g].step \in Steps
      BY <1>9, <2>2, BecomeTyped, FinishTyped DEF DeleteRow
    <2>4. bookings' \in [Ids -> Booking \cup {None}] /\ Live' \subseteq Live
      BY <1>9, <2>1 DEF DeleteRow, DeletingOne, Live
    <2> QED
      BY <1>9, <2>3, <2>4 DEF DeleteRow, Used
  <1>10. ASSUME NEW h \in Handlers, DeleteParent(h) PROVE TypeInv'
    BY <1>10, FinishTyped DEF DeleteParent, Live, Used
  <1>11. ASSUME NEW h \in Handlers, BeginMove(h) \/ BeginApprove(h) PROVE TypeInv'
    <2>1. PICK i \in Live, row \in Booking :
            Become(h, [step |-> "write", id |-> i, row |-> row])
      <3>1. ASSUME NEW i \in Live, NEW day \in Days
            PROVE  [bookings[i] EXCEPT !.series = None, !.day = day] \in Booking
        <4>1. day \in Nat
          BY DEF Days
        <4> QED
          BY <4>1, LiveRow DEF Booking
      <3>2. ASSUME NEW i \in Live
            PROVE  [bookings[i] EXCEPT !.approved = TRUE] \in Booking
        BY LiveRow DEF Booking
      <3>3. CASE BeginMove(h)
        <4>1. PICK i \in Live, day \in Days :
                Become(h, [step |-> "write", id |-> i,
                           row |-> [bookings[i] EXCEPT !.series = None,
                                                       !.day = day]])
          BY <3>3 DEF BeginMove
        <4> QED
          BY <3>1, <4>1
      <3>4. CASE BeginApprove(h)
        BY <3>2, <3>4 DEF BeginApprove
      <3> QED
        BY <1>11, <3>3, <3>4
    <2>2. [step |-> "write", id |-> i, row |-> row] \in HandlerState
      BY LiveRow DEF HandlerState, Writing
    <2>3. /\ handlers' \in [Handlers -> HandlerState]
          /\ \A g \in Handlers : handlers'[g].step \in Steps
      BY <2>1, <2>2, BecomeTyped
    <2> QED
      BY <1>11, <2>3 DEF BeginMove, BeginApprove, Live, Used
  <1>12. ASSUME NEW h \in Handlers, WriteOne(h) PROVE TypeInv'
    <2> DEFINE r == handlers[h]
    <2>1. r \in Writing
      BY <1>12, HandlerByStep DEF WriteOne
    <2>2. r.id \in Ids /\ r.row \in Booking
      BY <2>1 DEF Writing
    <2>3. [step |-> "put", copies |-> <<[id |-> r.id, row |-> r.row]>>] \in JobState
      BY <2>2 DEF JobState, Putting, Copy
    <2>4. UpdateRow(r.id, r.row)
      BY <1>12 DEF WriteOne
    <2>5. Go([step |-> "put", copies |-> <<[id |-> r.id, row |-> r.row]>>])
      BY <1>12 DEF WriteOne
    <2> HIDE DEF r
    <2>6. JobsTyped'
      BY <2>3, <2>5, GoTyped
    <2>7. bookings' \in [Ids -> Booking \cup {None}] /\ Live' \subseteq Live
      BY <2>2, <2>4, UpdateRowTyped
    <2> QED
      BY <1>12, <2>6, <2>7, FinishTyped DEF WriteOne, Used, JobsTyped
  <1>13. ASSUME NEW h \in Handlers, StatementFails(h) PROVE TypeInv'
    BY <1>13, FinishTyped DEF StatementFails, Live, Used
  <1>14. ASSUME NEW w \in Workers, PutEvent(w) PROVE TypeInv'
    <2>1. jobs[w] \in Putting
      BY <1>14, JobByStep DEF PutEvent
    <2>2. Head(jobs[w].copies).id \in Ids \cup {None}
      <3>1. jobs[w].copies \in Seq(Copy) /\ jobs[w].copies # <<>>
        BY <2>1 DEF Putting
      <3>2. Head(jobs[w].copies) \in Copy
        BY <3>1, HeadTailProperties
      <3> QED
        BY <3>2 DEF Copy
    <2>3. [jobs[w] EXCEPT !.step = "save"] \in JobState
      BY <2>1 DEF JobState, Putting
    <2>4. jobs' = [jobs EXCEPT ![w] = [jobs[w] EXCEPT !.step = "save"]]
      BY <1>14 DEF PutEvent
    <2>5. JobsTyped'
      BY <2>3, <2>4, JobStepTyped
    <2> QED
      BY <1>14, <2>2, <2>5 DEF PutEvent, Live, Used, JobsTyped
  <1>15. ASSUME NEW w \in Workers, SaveEvent(w) PROVE TypeInv'
    <2> DEFINE c == Head(jobs[w].copies)
    <2>1. jobs[w] \in Putting
      BY <1>15, JobByStep DEF SaveEvent
    <2>2. jobs[w].copies \in Seq(Copy) /\ jobs[w].copies # <<>>
      BY <2>1 DEF Putting
    <2>3. c \in Copy
      BY <2>2, HeadTailProperties
    <2>4. UpdateRow(c.id, [c.row EXCEPT !.caldav = TRUE])
      BY <1>15 DEF SaveEvent
    <2> HIDE DEF c
    <2>6. [c.row EXCEPT !.caldav = TRUE] \in Booking
      BY <2>3 DEF Copy, Booking
    <2>7. bookings' \in [Ids -> Booking \cup {None}] /\ Live' \subseteq Live
      BY <2>4, <2>6, UpdateRowTyped
    <2>9. JobsTyped'
      BY <1>0, <1>15, <2>1, NextCopyTyped DEF SaveEvent
    <2> QED
      BY <1>15, <2>7, <2>9 DEF SaveEvent, Used, JobsTyped
  <1>22. ASSUME NEW w \in Workers, PutFails(w) PROVE TypeInv'
    <2>1. jobs[w] \in Putting
      BY <1>22, JobByStep DEF PutFails
    <2>2. JobsTyped'
      BY <1>0, <1>22, <2>1, NextCopyTyped DEF PutFails
    <2> QED
      BY <1>22, <2>2 DEF PutFails, Live, Used, JobsTyped
  <1>16. ASSUME NEW w \in Workers, Sweep(w) PROVE TypeInv'
    <2> DEFINE S == {i \in Of(jobs[w].series) :
                        bookings[i].day > now /\ bookings[i].caldav}
    <2>1. S \subseteq Ids
      BY DEF Of, Live
    <2>2. jobs' = [jobs EXCEPT ![w] = [step |-> "remove", ids |-> S]]
      BY <1>16 DEF Sweep
    <2> HIDE DEF S
    <2>3. [step |-> "remove", ids |-> S] \in JobState
      BY <2>1 DEF JobState, Removing
    <2>4. JobsTyped'
      BY <2>2, <2>3, JobStepTyped
    <2> QED
      BY <1>16, <2>4 DEF Sweep, Live, Used, JobsTyped
  <1>17. ASSUME NEW w \in Workers, RemoveEvents(w) PROVE TypeInv'
    <2>1. JobsTyped'
      BY <1>0, <1>17, JobStepTyped DEF RemoveEvents
    <2> QED
      BY <1>17, <2>1 DEF RemoveEvents, Live, Used, JobsTyped
  <1>18. CASE PurgeBookings
    <2>1. bookings' \in [Ids -> Booking \cup {None}] /\ Live' \subseteq Live
      BY <1>18, RemovedTyped DEF PurgeBookings
    <2> QED
      BY <1>18, <2>1 DEF PurgeBookings, Used
  <1>19. CASE PurgeSeries
    BY <1>19 DEF PurgeSeries, Live, Used
  <1>20. CASE Tick
    <2>1. now' \in Days
      BY <1>20 DEF Tick, Days
    <2> QED
      BY <1>20, <2>1 DEF Tick, Live, Used
  <1>21. CASE UNCHANGED vars
    BY <1>21 DEF vars, Live, Used
  <1> QED
    BY <1>1, <1>2, <1>3, <1>4, <1>5, <1>6, <1>7, <1>8, <1>9, <1>10, <1>11,
       <1>12, <1>13, <1>14, <1>15, <1>16, <1>17, <1>18, <1>19, <1>20, <1>21,
       <1>22
       DEF Next, Handle, Work

(* The tables keep their types, a series that has a row was opened, a      *)
(* booking that is there was once inserted, and a goroutine never holds a  *)
(* list of bookings without a first one.                                   *)
THEOREM TypeCorrect == Spec => []TypeOK
  <1>1. TypeInv => TypeOK
    BY DEF TypeInv
  <1> QED
    BY <1>1, InitTyped, StepTyped, PTL DEF Spec

-----------------------------------------------------------------------------
(* Deleted bookings.                                                       *)

(* Only create gives a row to an id, and it takes one that was never used; *)
(* an UPDATE of a row that is gone finds nothing.                          *)
LEMMA StepKeepsDeleted ==
  ASSUME TypeInv, [Next]_vars, NEW i \in Used, bookings[i] = None
  PROVE  bookings'[i] = None
  <1>0. i \in Ids /\ i \notin Live
    BY DEF TypeInv, TypeOK, Used, Live
  <1>1. CASE UNCHANGED bookings
    BY <1>1
  <1>2. ASSUME NEW id, NEW row, UpdateRow(id, row) PROVE bookings'[i] = None
    BY <1>0, <1>2 DEF UpdateRow, TypeInv, TypeOK
  <1>3. ASSUME NEW h \in Handlers, Occur(h) PROVE bookings'[i] = None
    <2>1. UNCHANGED bookings \/ \E id \in Ids \ Used : \E row :
             bookings' = [bookings EXCEPT ![id] = row]
      BY <1>3 DEF Occur
    <2> QED
      BY <1>0, <1>1, <2>1 DEF TypeInv, TypeOK
  <1>4. ASSUME NEW h \in Handlers, DeleteFuture(h) \/ Detach(h) \/ DeleteRow(h)
        PROVE  bookings'[i] = None
    BY <1>0, <1>4 DEF DeleteFuture, Detach, DeleteRow, Of, TypeInv, TypeOK
  <1>5. ASSUME NEW h \in Handlers, WriteOne(h) PROVE bookings'[i] = None
    BY <1>2, <1>5 DEF WriteOne
  <1>6. ASSUME NEW w \in Workers, SaveEvent(w) PROVE bookings'[i] = None
    BY <1>2, <1>6 DEF SaveEvent
  <1>7. CASE PurgeBookings
    BY <1>0, <1>7 DEF PurgeBookings
  <1>8. ASSUME NEW h \in Handlers,
               \/ BeginCreate(h) \/ EndCreate(h) \/ BeginDeleteSeries(h)
               \/ DeleteSeriesRow(h) \/ BeginDeleteOne(h) \/ DeleteParent(h)
               \/ BeginMove(h) \/ BeginApprove(h) \/ StatementFails(h)
        PROVE  UNCHANGED bookings
    BY <1>8 DEF BeginCreate, EndCreate, BeginDeleteSeries, DeleteSeriesRow,
                BeginDeleteOne, DeleteParent, BeginMove, BeginApprove,
                StatementFails
  <1>9. ASSUME NEW w \in Workers,
               PutEvent(w) \/ PutFails(w) \/ Sweep(w) \/ RemoveEvents(w)
        PROVE  UNCHANGED bookings
    BY <1>9 DEF PutEvent, PutFails, Sweep, RemoveEvents
  <1>10. CASE PurgeSeries \/ Tick \/ UNCHANGED vars
    BY <1>1, <1>10 DEF PurgeSeries, Tick, vars
  <1> QED
    BY <1>1, <1>3, <1>4, <1>5, <1>6, <1>7, <1>8, <1>9, <1>10
       DEF Next, Handle, Work

(* Deleting one booking, a series, or everything old does not lose against *)
(* a goroutine or a request that still holds a copy of the row.            *)
THEOREM DeletedIsGone == Spec => DeletedStaysDeleted
  <1>1. TypeInv /\ [Next]_vars =>
           [\A i \in Used : bookings[i] = None => bookings'[i] = None]_vars
    BY StepKeepsDeleted
  <1> QED
    BY <1>1, InitTyped, StepTyped, PTL DEF Spec, DeletedStaysDeleted

-----------------------------------------------------------------------------
(* The series a booking names.                                             *)

(* One request at a time, on a server that neither has a calendar nor      *)
(* purges.                                                                 *)
OneAtATime == (\E h : Handlers = {h}) /\ Workers = {} /\ ~Purges

(* What the request in progress is about to write names a series that has  *)
(* a row, and the series it is about to remove is named by nobody.         *)
SeriesInv ==
  /\ SeriesHasRow
  /\ purge = "idle"
  /\ \A h \in Handlers :
        /\ handlers[h].step = "occur" => handlers[h].series \in series
        /\ handlers[h].step = "write" =>
              handlers[h].row.series \in series \cup {None}
        /\ handlers[h].step = "series" => Of(handlers[h].series) = {}

LEMMA StepSeriesInv ==
  ASSUME TypeInv, SeriesInv, OneAtATime, [Next]_vars
  PROVE  SeriesInv'
  <1>0. PICK h : Handlers = {h}
    BY DEF OneAtATime
  <1>1. DOMAIN handlers = {h} /\ handlers[h] \in HandlerState
    BY <1>0 DEF TypeInv
  <1>2. \A i \in Live : bookings[i].series \in series \cup {None}
    BY DEF SeriesInv, SeriesHasRow
  <1>3. CASE UNCHANGED <<series, bookings, purge>> /\ Finish(h)
    BY <1>0, <1>1, <1>3 DEF SeriesInv, SeriesHasRow, Finish, Become, Idle, Live
  <1>4. CASE BeginCreate(h)
    <2>1. PICK sid \in SeriesIds \ opened, plan \in Plans, approved \in BOOLEAN :
            /\ series' = series \cup {sid}
            /\ \/ handlers' = handlers
               \/ Become(h, [step |-> "occur", series |-> sid, todo |-> plan,
                             approved |-> approved, made |-> <<>>])
      BY <1>4 DEF BeginCreate
    <2>2. UNCHANGED <<bookings, purge>> /\ handlers[h].step = "idle"
      BY <1>4 DEF BeginCreate, Request, Idle
    <2>3. CASE handlers' = handlers
      <3>1. SeriesHasRow'
        BY <1>2, <2>1, <2>2 DEF SeriesHasRow, Live
      <3>2. handlers'[h].step = "idle"
        BY <2>2, <2>3
      <3> QED
        BY <1>0, <2>2, <3>1, <3>2 DEF SeriesInv
    <2>4. CASE Become(h, [step |-> "occur", series |-> sid, todo |-> plan,
                          approved |-> approved, made |-> <<>>])
      <3>1. handlers'[h].step = "occur" /\ handlers'[h].series = sid
        BY <1>1, <2>4 DEF Become
      <3>2. SeriesHasRow'
        BY <1>2, <2>1, <2>2 DEF SeriesHasRow, Live
      <3> QED
        BY <1>0, <2>1, <2>2, <3>1, <3>2 DEF SeriesInv
    <2> QED
      BY <2>1, <2>3, <2>4
  <1>5. CASE Occur(h)
    <2>1. handlers[h] \in Occurring /\ handlers[h].series \in series
      BY <1>0, <1>1, <1>5, HandlerByStep DEF Occur, SeriesInv
    <2>2. /\ UNCHANGED <<series, purge>>
          /\ \/ UNCHANGED bookings
             \/ \E id \in Ids : \E row :
                   /\ row.series = handlers[h].series
                   /\ bookings' = [bookings EXCEPT ![id] = row]
      BY <1>5 DEF Occur
    <2>3. SeriesHasRow'
      BY <1>2, <2>1, <2>2 DEF SeriesHasRow, Live, TypeInv, TypeOK
    <2>4. handlers'[h].step = "occur" /\ handlers'[h].series = handlers[h].series
      <3>1. PICK made : Become(h, [handlers[h] EXCEPT !.todo = Tail(@),
                                                      !.made = made])
        BY <1>5 DEF Occur
      <3> DEFINE r == [handlers[h] EXCEPT !.todo = Tail(@), !.made = made]
      <3>2. r.step = "occur" /\ r.series = handlers[h].series
        BY <2>1 DEF Occurring
      <3>3. Become(h, r)
        BY <3>1
      <3> HIDE DEF r
      <3> QED
        BY <1>1, <3>2, <3>3 DEF Become
    <2> QED
      BY <1>0, <2>1, <2>2, <2>3, <2>4 DEF SeriesInv
  <1>6. CASE \/ EndCreate(h) \/ StatementFails(h)
    BY <1>3, <1>6 DEF EndCreate, StatementFails, SeriesInv
  <1>7. CASE BeginDeleteSeries(h) \/ BeginDeleteOne(h)
    <2>1. UNCHANGED <<series, bookings, purge>>
      BY <1>7 DEF BeginDeleteSeries, BeginDeleteOne
    <2>2. \/ \E sid : Become(h, [step |-> "future", series |-> sid])
          \/ \E i, sid : Become(h, [step |-> "row", id |-> i, series |-> sid])
      BY <1>7 DEF BeginDeleteSeries, BeginDeleteOne
    <2>3. handlers'[h].step \in {"future", "row"}
      <3>1. CASE \E sid : Become(h, [step |-> "future", series |-> sid])
        BY <1>1, <3>1 DEF Become
      <3>2. CASE \E i, sid : Become(h, [step |-> "row", id |-> i, series |-> sid])
        BY <1>1, <3>2 DEF Become
      <3> QED
        BY <2>2, <3>1, <3>2
    <2> QED
      BY <1>0, <2>1, <2>3 DEF SeriesInv, SeriesHasRow, Live
  <1>8. CASE DeleteFuture(h)
    <2>1. handlers[h] \in Unmaking
      BY <1>1, <1>8, HandlerByStep DEF DeleteFuture
    <2>2. UNCHANGED <<series, purge>> /\ handlers'[h].step = "detach"
      BY <1>1, <1>8, <2>1 DEF DeleteFuture, Become, Unmaking
    <2>3. SeriesHasRow'
      BY <1>2, <1>8, <2>2 DEF DeleteFuture, SeriesHasRow, Live
    <2> QED
      BY <1>0, <2>2, <2>3 DEF SeriesInv
  <1>9. CASE Detach(h)
    <2>1. handlers[h] \in Unmaking
      BY <1>1, <1>9, HandlerByStep DEF Detach
    <2>2. /\ UNCHANGED <<series, purge>>
          /\ handlers'[h].step = "series"
          /\ handlers'[h].series = handlers[h].series
      BY <1>1, <1>9, <2>1 DEF Detach, Become, Unmaking
    <2>3. ASSUME NEW i \in Live'
          PROVE  /\ i \in Live
                 /\ IF bookings[i].series = handlers[h].series
                    THEN bookings'[i].series = None
                    ELSE bookings'[i] = bookings[i]
      <3>1. i \in Ids /\ bookings'[i] # None
        BY DEF Live
      <3>2. bookings'[i] = IF i \in Of(handlers[h].series)
                           THEN [bookings[i] EXCEPT !.series = None]
                           ELSE bookings[i]
        BY <1>9, <3>1 DEF Detach
      <3>3. CASE i \in Of(handlers[h].series)
        <4>1. i \in Live /\ bookings[i].series = handlers[h].series
          BY <3>3 DEF Of
        <4>2. [bookings[i] EXCEPT !.series = None].series = None
          BY <4>1, LiveRow DEF Booking
        <4> QED
          BY <3>2, <3>3, <4>1, <4>2
      <3>4. CASE i \notin Of(handlers[h].series)
        BY <3>1, <3>2, <3>4 DEF Of, Live
      <3> QED
        BY <3>3, <3>4
    <2>4. SeriesHasRow'
      BY <1>2, <2>2, <2>3 DEF SeriesHasRow
    <2>5. Of(handlers[h].series)' = {}
      <3>1. handlers[h].series # None
        BY <2>1 DEF Unmaking
      <3>2. \A i \in Live' : bookings'[i].series # handlers[h].series
        BY <2>3, <3>1
      <3> QED
        BY <2>2, <3>2 DEF Of
    <2> QED
      BY <1>0, <2>2, <2>4, <2>5 DEF SeriesInv, Of, Live

  <1>10. CASE DeleteSeriesRow(h)
    <2>1. Of(handlers[h].series) = {}
      BY <1>0, <1>10 DEF DeleteSeriesRow, SeriesInv
    <2>2. /\ series' = series \ {handlers[h].series}
          /\ UNCHANGED <<bookings, purge>>
          /\ handlers'[h].step = "idle"
      BY <1>1, <1>10 DEF DeleteSeriesRow, Finish, Become, Idle
    <2>3. SeriesHasRow'
      BY <1>2, <2>1, <2>2 DEF SeriesHasRow, Of, Live
    <2> QED
      BY <1>0, <2>2, <2>3 DEF SeriesInv
  <1>11. CASE DeleteRow(h)
    <2>1. handlers[h] \in DeletingOne
      BY <1>1, <1>11, HandlerByStep DEF DeleteRow
    <2>2. UNCHANGED <<series, purge>> /\ handlers'[h].step \in {"idle", "parent"}
      BY <1>1, <1>11, <2>1 DEF DeleteRow, Finish, Become, Idle, DeletingOne
    <2>3. SeriesHasRow'
      BY <1>2, <1>11, <2>2 DEF DeleteRow, SeriesHasRow, Live, TypeInv, TypeOK
    <2> QED
      BY <1>0, <2>2, <2>3 DEF SeriesInv
  <1>12. CASE DeleteParent(h)
    <2>1. /\ \/ series' = series
             \/ /\ Of(handlers[h].series) = {}
                /\ series' = series \ {handlers[h].series}
          /\ UNCHANGED <<bookings, purge>>
          /\ handlers'[h].step = "idle"
      BY <1>1, <1>12 DEF DeleteParent, Finish, Become, Idle
    <2>2. SeriesHasRow'
      BY <1>2, <2>1 DEF SeriesHasRow, Of, Live
    <2> QED
      BY <1>0, <2>1, <2>2 DEF SeriesInv
  <1>13. CASE BeginMove(h) \/ BeginApprove(h)
    <2>1. UNCHANGED <<series, bookings, purge>>
      BY <1>13 DEF BeginMove, BeginApprove
    <2>2. \E i \in Live : \E row :
             /\ row.series \in {bookings[i].series, None}
             /\ Become(h, [step |-> "write", id |-> i, row |-> row])
      <3>1. ASSUME NEW i \in Live, NEW day
            PROVE  [bookings[i] EXCEPT !.series = None, !.day = day].series = None
        BY LiveRow DEF Booking
      <3>2. ASSUME NEW i \in Live
            PROVE  [bookings[i] EXCEPT !.approved = TRUE].series
                      = bookings[i].series
        BY LiveRow DEF Booking
      <3>3. CASE BeginMove(h)
        <4>1. PICK i \in Live, day \in Days :
                Become(h, [step |-> "write", id |-> i,
                           row |-> [bookings[i] EXCEPT !.series = None,
                                                       !.day = day]])
          BY <3>3 DEF BeginMove
        <4>2. [bookings[i] EXCEPT !.series = None, !.day = day].series = None
          BY <3>1
        <4> DEFINE row == [bookings[i] EXCEPT !.series = None, !.day = day]
        <4> HIDE DEF row
        <4>3. row.series = None /\ Become(h, [step |-> "write", id |-> i,
                                              row |-> row])
          BY <4>1, <4>2 DEF row
        <4> QED
          BY <4>3
      <3>4. CASE BeginApprove(h)
        <4>1. PICK i \in Live :
                Become(h, [step |-> "write", id |-> i,
                           row |-> [bookings[i] EXCEPT !.approved = TRUE]])
          BY <3>4 DEF BeginApprove
        <4> DEFINE row == [bookings[i] EXCEPT !.approved = TRUE]
        <4>2. row.series = bookings[i].series
          BY <3>2
        <4>3. Become(h, [step |-> "write", id |-> i, row |-> row])
          BY <4>1
        <4> HIDE DEF row
        <4> QED
          BY <4>2, <4>3
      <3> QED
        BY <1>13, <3>3, <3>4
    <2>3. /\ handlers'[h].step = "write"
          /\ handlers'[h].row.series \in series \cup {None}
      BY <1>1, <1>2, <2>2 DEF Become
    <2> QED
      BY <1>0, <2>1, <2>3 DEF SeriesInv, SeriesHasRow, Live
  <1>14. CASE WriteOne(h)
    <2>1. handlers[h] \in Writing /\ handlers[h].row.series \in series \cup {None}
      BY <1>0, <1>1, <1>14, HandlerByStep DEF WriteOne, SeriesInv
    <2>2. handlers[h].row \in Booking
      BY <2>1 DEF Writing
    <2>3. UpdateRow(handlers[h].id, handlers[h].row) /\ UNCHANGED <<series, purge>>
      BY <1>14 DEF WriteOne
    <2>4. SeriesHasRow'
      <3>1. ASSUME NEW i \in Live'
            PROVE  bookings'[i].series \in series \cup {None}
        <4>1. i \in Live /\ i \in Ids
          BY <2>2, <2>3, UpdateRowTyped DEF Live
        <4>2. bookings'[i] = bookings[i] \/ bookings'[i] = handlers[h].row
          BY <2>2, <2>3, <4>1, UpdateRowTyped
        <4> QED
          BY <1>2, <2>1, <4>1, <4>2
      <3> QED
        BY <2>3, <3>1 DEF SeriesHasRow
    <2>5. handlers'[h].step = "idle"
      BY <1>1, <1>14 DEF WriteOne, Finish, Become, Idle
    <2> QED
      BY <1>0, <2>3, <2>4, <2>5 DEF SeriesInv
  <1>15. ASSUME NEW w \in Workers, Work(w) PROVE FALSE
    BY <1>15 DEF OneAtATime
  <1>16. ~PurgeBookings /\ ~PurgeSeries
    BY DEF OneAtATime, SeriesInv, PurgeBookings, PurgeSeries
  <1>17. CASE Tick \/ UNCHANGED vars
    BY <1>17 DEF Tick, vars, SeriesInv, SeriesHasRow, Live, Of
  <1> QED
    BY <1>0, <1>4, <1>5, <1>6, <1>7, <1>8, <1>9, <1>10, <1>11, <1>12, <1>13,
       <1>14, <1>15, <1>16, <1>17 DEF Next, Handle

LEMMA InitSeriesInv == Init => SeriesInv
  <1> SUFFICES ASSUME Init PROVE SeriesInv
    OBVIOUS
  <1>1. Live = {}
    BY DEF Init, Live
  <1> QED
    BY <1>1 DEF Init, SeriesInv, SeriesHasRow, Idle

(* There are no foreign keys.  The order in which create and Delete write  *)
(* keeps them all the same, whichever statement fails, as long as requests *)
(* do not overlap.                                                         *)
THEOREM SerialSeriesHaveRows == OneAtATime => (Spec => []SeriesHasRow)
  <1> SUFFICES ASSUME OneAtATime PROVE Spec => []SeriesHasRow
    OBVIOUS
  <1>1. TypeInv /\ SeriesInv /\ [Next]_vars => SeriesInv'
    BY StepSeriesInv
  <1>2. SeriesInv => SeriesHasRow
    BY DEF SeriesInv
  <1> QED
    BY <1>1, <1>2, InitSeriesInv, InitTyped, StepTyped, PTL DEF Spec

-----------------------------------------------------------------------------
(* The last booking of a series.                                           *)

(* Every statement works and nobody moves an occurrence; anything else may *)
(* happen at the same time.                                                *)
NothingFails == MaxFaults = 0 /\ "move" \notin Kinds

Issued(i, sid) == <<i, sid>> \in issued

(* Who knows, or believes, that a booking is of a series (or of none): the *)
(* table, a request that has read it, a list of occurrences just made, a   *)
(* goroutine.                                                              *)
Holds(i, s) ==
  \/ i \in Live /\ bookings[i].series = s
  \/ \E h \in Handlers : /\ handlers[h].step = "row" /\ handlers[h].id = i
                         /\ handlers[h].series = s
  \/ \E h \in Handlers : /\ handlers[h].step = "write" /\ handlers[h].id = i
                         /\ handlers[h].row.series = s
  \/ \E h \in Handlers : /\ handlers[h].step = "occur"
                         /\ \E k \in DOMAIN handlers[h].made :
                               /\ handlers[h].made[k].id = i
                               /\ handlers[h].made[k].row.series = s
  \/ \E w \in Workers : /\ jobs[w].step \in {"put", "save"}
                        /\ \E k \in DOMAIN jobs[w].copies :
                              /\ jobs[w].copies[k].id = i
                              /\ jobs[w].copies[k].row.series = s

(* All that is left to do about a series is to remove its row, if that.    *)
Leaving(sid) ==
  \/ sid \notin series
  \/ \E h \in Handlers : handlers[h].step = "series" /\ handlers[h].series = sid

(* Somebody is going to look whether the series can be removed.            *)
Watched(sid) ==
  \/ purge = "orphans"
  \/ \E h \in Handlers : /\ handlers[h].step \in {"parent", "detach", "series"}
                         /\ handlers[h].series = sid

(* A booking is made once, for a series that was opened.                   *)
MadeOnce ==
  /\ \A h \in Handlers : handlers[h].step = "occur" => handlers[h].series \in opened
  /\ \A i \in Ids, sid \in SeriesIds : Issued(i, sid) => sid \in opened
  /\ \A i \in Ids : \A s, t \in SeriesIds : Issued(i, s) /\ Issued(i, t) => s = t

(* Nobody takes a booking for one of another series, and for one of no     *)
(* series only if its own is leaving.                                      *)
NamesInv ==
  /\ \A i \in Ids : \A s : Holds(i, s) => i \in Used
  /\ \A i \in Ids, sid \in SeriesIds : \A s :
        Issued(i, sid) /\ Holds(i, s) => s = sid \/ (s = None /\ Leaving(sid))

EmptyIsWatched ==
  \A sid \in series : (\E i \in Ids : Issued(i, sid)) /\ Of(sid) = {} => Watched(sid)

LastInv == MadeOnce /\ NamesInv /\ EmptyIsWatched

LEMMA NoFailure ==
  ASSUME TypeInv, NothingFails, NEW h \in Handlers
  PROVE  ~StatementFails(h) /\ ~BeginMove(h)
  <1>1. faults \in 0 .. MaxFaults /\ MaxFaults = 0
    BY DEF TypeInv, TypeOK, NothingFails
  <1>2. ~(faults < MaxFaults)
    BY <1>1
  <1> QED
    BY <1>2 DEF NothingFails, StatementFails, BeginMove, Request

(* Every step of a request is its own.                                     *)
LEMMA OthersStay ==
  ASSUME TypeInv, [Next]_vars
  PROVE  \/ handlers' = handlers
         \/ \E h \in Handlers : /\ Handle(h)
                                /\ \A g \in Handlers \ {h} : handlers'[g] = handlers[g]
  <1>1. ASSUME NEW h \in Handlers, Handle(h)
        PROVE  \A g \in Handlers \ {h} : handlers'[g] = handlers[g]
    <2>1. handlers' = handlers \/ \E r : handlers' = [handlers EXCEPT ![h] = r]
      <3>1. CASE \/ BeginCreate(h) \/ EndCreate(h) \/ BeginDeleteSeries(h)
                 \/ DeleteFuture(h) \/ Detach(h) \/ DeleteSeriesRow(h)
        BY <3>1 DEF BeginCreate, EndCreate, BeginDeleteSeries, DeleteFuture,
                    Detach, DeleteSeriesRow, Become, Finish
      <3>2. CASE Occur(h)
        <4>1. \E r : Become(h, r)
          BY <3>2 DEF Occur
        <4> QED
          BY <4>1 DEF Become
      <3>3. CASE \/ BeginDeleteOne(h) \/ DeleteRow(h) \/ DeleteParent(h)
                 \/ WriteOne(h) \/ StatementFails(h)
        BY <3>3 DEF BeginDeleteOne, DeleteRow, DeleteParent, WriteOne,
                    StatementFails, Become, Finish
      <3>4. CASE BeginMove(h) \/ BeginApprove(h)
        <4>1. \E r : Become(h, r)
          BY <3>4 DEF BeginMove, BeginApprove
        <4> QED
          BY <4>1 DEF Become
      <3> QED
        BY <1>1, <3>1, <3>2, <3>3, <3>4 DEF Handle
    <2> QED
      BY <2>1 DEF TypeInv
  <1>2. ASSUME NEW w \in Workers, Work(w) PROVE handlers' = handlers
    BY <1>2 DEF Work, PutEvent, PutFails, SaveEvent, Sweep,
         RemoveEvents
  <1>3. CASE PurgeBookings \/ PurgeSeries \/ Tick \/ UNCHANGED vars
    BY <1>3 DEF PurgeBookings, PurgeSeries, Tick, vars
  <1> QED
    BY <1>1, <1>2, <1>3 DEF Next

(* What a step does to the rows of series: create opens one, three actions *)
(* remove them.                                                            *)
LEMMA SeriesChange ==
  ASSUME TypeInv, [Next]_vars
  PROVE  /\ series' \subseteq series \cup (SeriesIds \ opened)
         /\ opened \subseteq opened'
  <1>1. ASSUME NEW h \in Handlers, Handle(h)
        PROVE  /\ series' \subseteq series \cup (SeriesIds \ opened)
               /\ opened \subseteq opened'
    <2>1. CASE BeginCreate(h)
      BY <2>1 DEF BeginCreate
    <2>2. CASE ~BeginCreate(h)
      BY <1>1, <2>2 DEF Handle, Occur, EndCreate, BeginDeleteSeries,
         DeleteFuture, Detach, DeleteSeriesRow, BeginDeleteOne, DeleteRow,
         DeleteParent, BeginMove, BeginApprove, WriteOne, StatementFails
    <2> QED
      BY <2>1, <2>2
  <1>2. ASSUME NEW w \in Workers, Work(w)
        PROVE  series' = series /\ opened' = opened
    BY <1>2 DEF Work, PutEvent, PutFails, SaveEvent, Sweep,
         RemoveEvents
  <1>3. CASE PurgeBookings \/ PurgeSeries \/ Tick \/ UNCHANGED vars
    BY <1>3 DEF PurgeBookings, PurgeSeries, Tick, vars
  <1> QED
    BY <1>1, <1>2, <1>3 DEF Next

LEMMA LeavingStays ==
  ASSUME TypeInv, NothingFails, [Next]_vars, NEW sid \in opened, Leaving(sid)
  PROVE  Leaving(sid)'
  <1>1. CASE sid \notin series
    BY <1>1, SeriesChange DEF Leaving
  <1>2. ASSUME NEW h \in Handlers, handlers[h].step = "series",
               handlers[h].series = sid
        PROVE  Leaving(sid)'
    <2>1. CASE handlers'[h] = handlers[h]
      BY <1>2, <2>1 DEF Leaving
    <2>2. CASE Handle(h)
      <3>1. DeleteSeriesRow(h)
        BY <1>2, <2>2, NoFailure
           DEF Handle, BeginCreate, Occur, EndCreate, BeginDeleteSeries,
               DeleteFuture, Detach, BeginDeleteOne, DeleteRow, DeleteParent,
               BeginApprove, WriteOne, Request, Idle
      <3> QED
        BY <1>2, <3>1 DEF DeleteSeriesRow, Leaving
    <2> QED
      BY <2>1, <2>2, OthersStay
  <1> QED
    BY <1>1, <1>2 DEF Leaving

(* An occurrence that is not refused becomes a row of its series.          *)
LEMMA OccurMakes ==
  ASSUME TypeInv, NEW h \in Handlers, Occur(h)
  PROVE  /\ handlers[h] \in Occurring
         /\ \/ UNCHANGED <<bookings, issued>> /\ \E row :
                 Become(h, [handlers[h] EXCEPT !.todo = Tail(@),
                              !.made = Append(@, [id |-> None, row |-> row])])
            \/ \E id \in Ids \ Used, row \in Booking :
                 /\ row.series = handlers[h].series
                 /\ bookings' = [bookings EXCEPT ![id] = row]
                 /\ issued' = issued \cup {<<id, handlers[h].series>>}
                 /\ Become(h, [handlers[h] EXCEPT !.todo = Tail(@),
                              !.made = Append(@, [id |-> id, row |-> row])])
  <1> DEFINE r == handlers[h]
             refused == \/ Head(r.todo) < now
                        \/ \E i \in Live : bookings[i].day = Head(r.todo)
             row == [series |-> r.series, day |-> Head(r.todo),
                     approved |-> r.approved /\ ~refused, caldav |-> FALSE]
  <1>1. r \in Occurring /\ r.todo # <<>>
    BY HandlerByStep DEF Occur, TypeInv
  <1>2. /\ r.series \in SeriesIds /\ Head(r.todo) \in Nat
        /\ r.approved \in BOOLEAN
    BY <1>1 DEF Occurring
  <1>3. row \in Booking /\ row.series = r.series
    BY <1>2 DEF Booking
  <1>4. \/ /\ UNCHANGED <<bookings, issued>>
           /\ Become(h, [r EXCEPT !.todo = Tail(@),
                            !.made = Append(@, [id |-> None, row |-> row])])
        \/ \E id \in Ids \ Used :
              /\ bookings' = [bookings EXCEPT ![id] = row]
              /\ issued' = issued \cup {<<id, r.series>>}
              /\ Become(h, [r EXCEPT !.todo = Tail(@),
                               !.made = Append(@, [id |-> id, row |-> row])])
    BY DEF Occur
  <1> HIDE DEF row
  <1> QED
    BY <1>1, <1>3, <1>4

(* Only create makes bookings, each once.                                  *)
LEMMA IssuedChange ==
  ASSUME TypeInv, [Next]_vars
  PROVE  \/ issued' = issued
         \/ \E h \in Handlers, id \in Ids \ Used :
               /\ handlers[h].step = "occur"
               /\ issued' = issued \cup {<<id, handlers[h].series>>}
               /\ id \in Live' /\ bookings'[id].series = handlers[h].series
               /\ \A i \in Ids \ {id} : bookings'[i] = bookings[i]
               /\ UNCHANGED <<series, opened, jobs>>
  <1>1. ASSUME NEW h \in Handlers, Occur(h)
        PROVE  \/ issued' = issued
               \/ \E id \in Ids \ Used :
                     /\ handlers[h].step = "occur"
                     /\ issued' = issued \cup {<<id, handlers[h].series>>}
                     /\ id \in Live' /\ bookings'[id].series = handlers[h].series
                     /\ \A i \in Ids \ {id} : bookings'[i] = bookings[i]
                     /\ UNCHANGED <<series, opened, jobs>>
    <2>1. CASE UNCHANGED issued
      BY <2>1
    <2>2. CASE ~UNCHANGED issued
      <3>1. PICK id \in Ids \ Used, row \in Booking :
              /\ row.series = handlers[h].series
              /\ bookings' = [bookings EXCEPT ![id] = row]
              /\ issued' = issued \cup {<<id, handlers[h].series>>}
        BY <1>1, <2>2, OccurMakes
      <3>2. bookings'[id] = row /\ \A i \in Ids \ {id} : bookings'[i] = bookings[i]
        BY <3>1 DEF TypeInv, TypeOK
      <3>3. handlers[h].step = "occur" /\ UNCHANGED <<series, opened, jobs>>
        BY <1>1 DEF Occur
      <3> QED
        BY <3>1, <3>2, <3>3 DEF Live
    <2> QED
      BY <2>1, <2>2
  <1>2. ASSUME NEW h \in Handlers, Handle(h), ~Occur(h) PROVE issued' = issued
    BY <1>2 DEF Handle, BeginCreate, EndCreate, BeginDeleteSeries,
       DeleteFuture, Detach, DeleteSeriesRow, BeginDeleteOne, DeleteRow,
       DeleteParent, BeginMove, BeginApprove, WriteOne, StatementFails
  <1>3. ASSUME NEW w \in Workers, Work(w) PROVE issued' = issued
    BY <1>3 DEF Work, PutEvent, PutFails, SaveEvent, Sweep,
         RemoveEvents
  <1>4. CASE PurgeBookings \/ PurgeSeries \/ Tick \/ UNCHANGED vars
    BY <1>4 DEF PurgeBookings, PurgeSeries, Tick, vars
  <1> QED
    BY <1>1, <1>2, <1>3, <1>4 DEF Next

(* Who changes the series a booking names, or takes the booking away.      *)
LEMMA RowChange ==
  ASSUME TypeInv, [Next]_vars, NEW i \in Live,
         ~(i \in Live' /\ bookings'[i].series = bookings[i].series)
  PROVE  \/ \E h \in Handlers : /\ DeleteFuture(h) \/ Detach(h)
                                /\ handlers[h].series = bookings[i].series
         \/ \E h \in Handlers : DeleteRow(h) /\ handlers[h].id = i
         \/ \E h \in Handlers : /\ WriteOne(h) /\ handlers[h].id = i
                                /\ i \in Live'
                                /\ bookings'[i].series = handlers[h].row.series
         \/ \E w \in Workers :
               /\ SaveEvent(w) /\ Head(jobs[w].copies).id = i
               /\ i \in Live'
               /\ bookings'[i].series = Head(jobs[w].copies).row.series
         \/ PurgeBookings
  <1>0. i \in Ids /\ bookings[i] \in Booking /\ i \in Used
    BY LiveRow DEF TypeInv, TypeOK
  <1>1. bookings' # bookings
    BY DEF Live
  <1>2. ASSUME NEW h \in Handlers, Occur(h) PROVE FALSE
    <2>1. PICK id \in Ids \ Used, row \in Booking :
            bookings' = [bookings EXCEPT ![id] = row]
      BY <1>1, <1>2, OccurMakes
    <2>2. bookings'[i] = bookings[i]
      BY <1>0, <2>1 DEF TypeInv, TypeOK
    <2> QED
      BY <2>2 DEF Live
  <1>3. ASSUME NEW h \in Handlers, DeleteFuture(h) \/ Detach(h)
        PROVE  handlers[h].series = bookings[i].series
    <2>1. i \in Of(handlers[h].series) \/ bookings'[i] = bookings[i]
      BY <1>0, <1>3 DEF DeleteFuture, Detach
    <2> QED
      BY <2>1 DEF Of, Live
  <1>4. ASSUME NEW h \in Handlers, DeleteRow(h) PROVE handlers[h].id = i
    BY <1>0, <1>4 DEF DeleteRow, TypeInv, TypeOK, Live
  <1>5. ASSUME NEW id, NEW row \in Booking, UpdateRow(id, row)
        PROVE  id = i /\ i \in Live' /\ bookings'[i] = row
    <2>1. bookings' = [bookings EXCEPT ![id] = row]
      BY <1>1, <1>5 DEF UpdateRow
    <2>2. id = i
      BY <1>0, <2>1 DEF Live, TypeInv, TypeOK
    <2> QED
      BY <1>0, <2>1, <2>2 DEF Live, TypeInv, TypeOK
  <1>6. ASSUME NEW h \in Handlers, WriteOne(h)
        PROVE  /\ handlers[h].id = i /\ i \in Live'
               /\ bookings'[i].series = handlers[h].row.series
    <2>1. handlers[h].row \in Booking /\ UpdateRow(handlers[h].id, handlers[h].row)
      BY <1>6, HandlerByStep DEF WriteOne, Writing, TypeInv
    <2> QED
      BY <1>5, <2>1
  <1>7. ASSUME NEW w \in Workers, SaveEvent(w)
        PROVE  /\ Head(jobs[w].copies).id = i /\ i \in Live'
               /\ bookings'[i].series = Head(jobs[w].copies).row.series
    <2> DEFINE c == Head(jobs[w].copies)
    <2>1. jobs[w] \in Putting
      BY <1>7, JobByStep DEF SaveEvent, TypeInv
    <2>2. c \in Copy
      <3>1. jobs[w].copies \in Seq(Copy) /\ jobs[w].copies # <<>>
        BY <2>1 DEF Putting
      <3> QED
        BY <3>1, HeadTailProperties
    <2>3. UpdateRow(c.id, [c.row EXCEPT !.caldav = TRUE])
      BY <1>7 DEF SaveEvent
    <2> HIDE DEF c
    <2>4. /\ [c.row EXCEPT !.caldav = TRUE] \in Booking
          /\ [c.row EXCEPT !.caldav = TRUE].series = c.row.series
      BY <2>2 DEF Copy, Booking
    <2>5. c.id = i /\ i \in Live' /\ bookings'[i].series = c.row.series
      BY <1>5, <2>3, <2>4
    <2> QED
      BY <2>5 DEF c
  <1>8. ASSUME NEW h \in Handlers,
               \/ BeginCreate(h) \/ EndCreate(h) \/ BeginDeleteSeries(h)
               \/ DeleteSeriesRow(h) \/ BeginDeleteOne(h) \/ DeleteParent(h)
               \/ BeginMove(h) \/ BeginApprove(h) \/ StatementFails(h)
        PROVE  FALSE
    BY <1>1, <1>8 DEF BeginCreate, EndCreate, BeginDeleteSeries,
       DeleteSeriesRow, BeginDeleteOne, DeleteParent, BeginMove, BeginApprove,
       StatementFails
  <1>9. ASSUME NEW w \in Workers,
               PutEvent(w) \/ PutFails(w) \/ Sweep(w) \/ RemoveEvents(w)
        PROVE  FALSE
    BY <1>1, <1>9 DEF PutEvent, PutFails, Sweep, RemoveEvents
  <1>10. ~PurgeSeries /\ ~Tick /\ ~UNCHANGED vars
    BY <1>1 DEF PurgeSeries, Tick, vars
  <1> QED
    BY <1>2, <1>3, <1>4, <1>6, <1>7, <1>8, <1>9, <1>10 DEF Next, Handle, Work

(* What somebody believes of a booking was believed before, was just made  *)
(* true by create, or by a Delete that set the bookings of a series free.  *)
Believed(i, s) ==
  \/ Holds(i, s)
  \/ s = None /\ \E h \in Handlers : Detach(h) /\ Holds(i, handlers[h].series)
  \/ \E h \in Handlers : /\ handlers[h].step = "occur" /\ i \notin Used
                         /\ s = handlers[h].series
                         /\ issued' = issued \cup {<<i, s>>}

LEMMA RowBelieved ==
  ASSUME TypeInv, [Next]_vars, NEW i \in Live'
  PROVE  Believed(i, bookings'[i].series)
  <1>0. i \in Ids /\ bookings'[i] # None /\ Live' \subseteq Used'
    BY StepTyped DEF Live, TypeInv, TypeOK
  <1>1. CASE i \in Live
    <2>1. CASE bookings'[i].series = bookings[i].series
      BY <1>1, <2>1 DEF Believed, Holds
    <2>2. ASSUME NEW h \in Handlers, DeleteFuture(h) \/ DeleteRow(h),
                 bookings'[i].series # bookings[i].series
          PROVE  FALSE
      <3>1. bookings'[i] = bookings[i] \/ bookings'[i] = None
        BY <1>0, <2>2 DEF DeleteFuture, DeleteRow, TypeInv, TypeOK
      <3> QED
        BY <1>0, <2>2, <3>1
    <2>3. ASSUME PurgeBookings, bookings'[i].series # bookings[i].series
          PROVE  FALSE
      <3>1. bookings'[i] = bookings[i] \/ bookings'[i] = None
        BY <1>0, <2>3 DEF PurgeBookings
      <3> QED
        BY <1>0, <2>3, <3>1
    <2>4. ASSUME NEW h \in Handlers, Detach(h),
                 handlers[h].series = bookings[i].series,
                 bookings'[i].series # bookings[i].series
          PROVE  Believed(i, bookings'[i].series)
      <3>1. i \in Of(handlers[h].series)
        BY <1>1, <2>4 DEF Of
      <3>2. bookings'[i] = [bookings[i] EXCEPT !.series = None]
        BY <1>0, <2>4, <3>1 DEF Detach
      <3>3. bookings'[i].series = None
        <4>1. bookings[i] \in Booking
          BY <1>1, LiveRow
        <4>2. [bookings[i] EXCEPT !.series = None].series = None
          BY <4>1 DEF Booking
        <4> QED
          BY <3>2, <4>2
      <3>4. Holds(i, handlers[h].series)
        BY <1>1, <2>4 DEF Holds
      <3> QED
        BY <2>4, <3>3, <3>4 DEF Believed
    <2>5. ASSUME NEW h \in Handlers, WriteOne(h), handlers[h].id = i
          PROVE  Holds(i, handlers[h].row.series)
      BY <2>5 DEF WriteOne, Holds
    <2>6. ASSUME NEW w \in Workers, SaveEvent(w), Head(jobs[w].copies).id = i
          PROVE  Holds(i, Head(jobs[w].copies).row.series)
      <3>1. jobs[w].copies \in Seq(Copy) /\ jobs[w].copies # <<>>
        BY <2>6, JobByStep DEF SaveEvent, TypeInv, Putting
      <3>2. 1 \in DOMAIN jobs[w].copies /\ Head(jobs[w].copies) = jobs[w].copies[1]
        BY <3>1
      <3> QED
        BY <2>6, <3>2 DEF SaveEvent, Holds
    <2> QED
      BY <1>1, <2>1, <2>2, <2>3, <2>4, <2>5, <2>6, RowChange DEF Believed
  <1>2. CASE i \notin Live
    <2>1. i \notin Used
      BY <1>0, <1>2, StepKeepsDeleted DEF Live
    <2>2. PICK h \in Handlers, id \in Ids :
            /\ handlers[h].step = "occur"
            /\ issued' = issued \cup {<<id, handlers[h].series>>}
            /\ bookings'[id].series = handlers[h].series
      BY <1>0, <2>1, IssuedChange DEF Used
    <2>3. i = id
      <3>1. PICK p \in issued' : p[1] = i
        BY <1>0 DEF Used
      <3>2. p \notin issued
        BY <2>1, <3>1 DEF Used
      <3>3. p = <<id, handlers[h].series>>
        BY <2>2, <3>1, <3>2
      <3> QED
        BY <3>1, <3>3
    <2> QED
      BY <2>1, <2>2, <2>3 DEF Believed
  <1> QED
    BY <1>1, <1>2

(* Where a request can go in one step.                                     *)
LEMMA HandlerMoves ==
  ASSUME TypeInv, NothingFails, NEW h \in Handlers, Handle(h)
  PROVE  \/ handlers'[h] = handlers[h]
         \/ handlers'[h].step \in {"idle", "future", "detach", "series", "parent"}
         \/ handlers'[h].step = "occur" /\ handlers'[h].made = <<>>
         \/ Occur(h) \/ BeginDeleteOne(h) \/ BeginApprove(h)
  <1>0. DOMAIN handlers = Handlers /\ handlers[h] \in HandlerState
    BY DEF TypeInv
  <1>1. CASE BeginCreate(h)
    <2>1. handlers' = handlers \/ \E sid, plan, approved :
             Become(h, [step |-> "occur", series |-> sid, todo |-> plan,
                        approved |-> approved, made |-> <<>>])
      BY <1>1 DEF BeginCreate
    <2> QED
      BY <1>0, <2>1 DEF Become
  <1>2. CASE \/ EndCreate(h) \/ DeleteSeriesRow(h) \/ DeleteParent(h)
             \/ WriteOne(h)
    BY <1>0, <1>2 DEF EndCreate, DeleteSeriesRow, DeleteParent, WriteOne,
                      Finish, Become, Idle
  <1>3. CASE BeginDeleteSeries(h)
    <2>1. \E sid : Become(h, [step |-> "future", series |-> sid])
      BY <1>3 DEF BeginDeleteSeries
    <2> QED
      BY <1>0, <2>1 DEF Become
  <1>4. CASE DeleteFuture(h) \/ Detach(h)
    <2>1. handlers[h] \in Unmaking
      BY <1>0, <1>4, HandlerByStep DEF DeleteFuture, Detach
    <2> QED
      BY <1>0, <1>4, <2>1 DEF DeleteFuture, Detach, Become, Unmaking
  <1>5. CASE DeleteRow(h)
    <2>1. handlers[h] \in DeletingOne
      BY <1>0, <1>5, HandlerByStep DEF DeleteRow
    <2> QED
      BY <1>0, <1>5, <2>1 DEF DeleteRow, Finish, Become, Idle, DeletingOne
  <1> QED
    BY <1>1, <1>2, <1>3, <1>4, <1>5, NoFailure DEF Handle

(* What a request believes after a step.                                   *)
HandlerHolds(h, i, s) ==
  \/ /\ handlers[h].step = "row" /\ handlers[h].id = i
     /\ handlers[h].series = s
  \/ /\ handlers[h].step = "write" /\ handlers[h].id = i
     /\ handlers[h].row.series = s
  \/ /\ handlers[h].step = "occur"
     /\ \E k \in DOMAIN handlers[h].made :
           /\ handlers[h].made[k].id = i
           /\ handlers[h].made[k].row.series = s

LEMMA HandlerBelieved ==
  ASSUME TypeInv, NothingFails, [Next]_vars, NEW h \in Handlers, NEW i \in Ids,
         NEW s, HandlerHolds(h, i, s)'
  PROVE  Believed(i, s)
  <1>0. DOMAIN handlers = Handlers /\ handlers[h] \in HandlerState
    BY DEF TypeInv
  <1>1. CASE handlers'[h] = handlers[h]
    BY <1>1 DEF HandlerHolds, Believed, Holds
  <1>2. CASE handlers'[h].step \in {"idle", "future", "detach", "series", "parent"}
    BY <1>2 DEF HandlerHolds
  <1>3. CASE handlers'[h].step = "occur" /\ handlers'[h].made = <<>>
    BY <1>3 DEF HandlerHolds
  <1>4. CASE Occur(h)
    <2>1. handlers[h] \in Occurring /\ handlers[h].step = "occur"
      BY <1>4, OccurMakes DEF Occur
    <2>2. PICK id, row :
            /\ Become(h, [handlers[h] EXCEPT !.todo = Tail(@),
                            !.made = Append(@, [id |-> id, row |-> row])])
            /\ id = None \/ /\ id \notin Used /\ row.series = handlers[h].series
                            /\ issued' = issued \cup {<<id, handlers[h].series>>}
      <3>1. CASE \E row : Become(h, [handlers[h] EXCEPT !.todo = Tail(@),
                             !.made = Append(@, [id |-> None, row |-> row])])
        BY <3>1
      <3>2. CASE \E id \in Ids \ Used, row \in Booking :
                 /\ row.series = handlers[h].series
                 /\ bookings' = [bookings EXCEPT ![id] = row]
                 /\ issued' = issued \cup {<<id, handlers[h].series>>}
                 /\ Become(h, [handlers[h] EXCEPT !.todo = Tail(@),
                              !.made = Append(@, [id |-> id, row |-> row])])
        BY <3>2
      <3> QED
        BY <1>4, <3>1, <3>2, OccurMakes
    <2> DEFINE made == handlers[h].made
               c == [id |-> id, row |-> row]
               r == [handlers[h] EXCEPT !.todo = Tail(@), !.made = Append(@, c)]
    <2>3. r.step = "occur" /\ r.made = Append(made, c) /\ made \in Seq(Copy)
      BY <2>1 DEF Occurring
    <2>4. c.id = id /\ c.row = row
      OBVIOUS
    <2>5. Become(h, r)
      BY <2>2
    <2> HIDE DEF r, c, made
    <2>6. handlers'[h] = r
      BY <1>0, <2>5 DEF Become
    <2>7. PICK k \in DOMAIN Append(made, c) :
            Append(made, c)[k].id = i /\ Append(made, c)[k].row.series = s
      BY <2>3, <2>6 DEF HandlerHolds
    <2>8. \/ k \in DOMAIN made /\ Append(made, c)[k] = made[k]
          \/ Append(made, c)[k] = c
      BY <2>3, <2>7
    <2>9. CASE k \in DOMAIN made /\ Append(made, c)[k] = made[k]
      <3>1. made[k].id = i /\ made[k].row.series = s
        BY <2>7, <2>9
      <3> QED
        BY <2>1, <2>9, <3>1 DEF made, Holds, Believed
    <2>10. CASE Append(made, c)[k] = c
      <3>1. id = i /\ row.series = s /\ i # None
        BY <2>4, <2>7, <2>10
      <3> QED
        BY <2>1, <2>2, <3>1 DEF Believed
    <2> QED
      BY <2>8, <2>9, <2>10
  <1>5. CASE BeginDeleteOne(h)
    <2>1. PICK j \in Live :
            Become(h, [step |-> "row", id |-> j, series |-> bookings[j].series])
      BY <1>5 DEF BeginDeleteOne
    <2>2. handlers'[h] = [step |-> "row", id |-> j, series |-> bookings[j].series]
      BY <1>0, <2>1 DEF Become
    <2>3. /\ handlers'[h].step = "row" /\ handlers'[h].id = j
          /\ handlers'[h].series = bookings[j].series
      BY <2>2
    <2> QED
      BY <2>1, <2>3 DEF HandlerHolds, Holds, Believed
  <1>6. CASE BeginApprove(h)
    <2>1. PICK j \in Live :
            Become(h, [step |-> "write", id |-> j,
                       row |-> [bookings[j] EXCEPT !.approved = TRUE]])
      BY <1>6 DEF BeginApprove
    <2>2. [bookings[j] EXCEPT !.approved = TRUE].series = bookings[j].series
      BY LiveRow DEF Booking
    <2> DEFINE row == [bookings[j] EXCEPT !.approved = TRUE]
    <2>3. handlers'[h] = [step |-> "write", id |-> j, row |-> row]
      BY <1>0, <2>1 DEF Become
    <2> HIDE DEF row
    <2>4. /\ handlers'[h].step = "write" /\ handlers'[h].id = j
          /\ handlers'[h].row = row
      BY <2>3
    <2> QED
      BY <2>1, <2>2, <2>4 DEF HandlerHolds, Holds, Believed, row
  <1> QED
    BY <1>1, <1>2, <1>3, <1>4, <1>5, <1>6, OthersStay, HandlerMoves

JobHolds(w, i, s) ==
  /\ jobs[w].step \in {"put", "save"}
  /\ \E k \in DOMAIN jobs[w].copies : /\ jobs[w].copies[k].id = i
                                      /\ jobs[w].copies[k].row.series = s

(* What a goroutine can get to do in one step.                             *)
LEMMA JobMoves ==
  ASSUME TypeInv, [Next]_vars, NEW w \in Workers
  PROVE  \/ jobs'[w] = jobs[w]
         \/ jobs'[w].step \notin {"put", "save"}
         \/ \E h \in Handlers : /\ handlers[h].step = "occur"
                                /\ jobs'[w].copies = handlers[h].made
         \/ \E h \in Handlers : /\ handlers[h].step = "write"
                                /\ jobs'[w].copies = <<[id |-> handlers[h].id,
                                                        row |-> handlers[h].row]>>
         \/ /\ jobs[w].step \in {"put", "save"} /\ jobs[w].copies \in Seq(Copy)
            /\ jobs[w].copies # <<>>
            /\ jobs'[w].copies \in {jobs[w].copies, Tail(jobs[w].copies)}
  <1>0. DOMAIN jobs = Workers /\ jobs[w] \in JobState
    BY DEF TypeInv
  <1>1. ASSUME NEW job, Go(job) PROVE jobs'[w] = jobs[w] \/ jobs'[w] = job
    BY <1>0, <1>1 DEF Go
  <1>2. ASSUME NEW h \in Handlers, EndCreate(h), jobs'[w] # jobs[w]
        PROVE  /\ handlers[h].step = "occur"
               /\ jobs'[w].copies = handlers[h].made
    <2>1. jobs'[w] = [step |-> "put", copies |-> handlers[h].made]
      BY <1>1, <1>2 DEF EndCreate
    <2> QED
      BY <1>2, <2>1 DEF EndCreate
  <1>3. ASSUME NEW h \in Handlers, WriteOne(h), jobs'[w] # jobs[w]
        PROVE  /\ handlers[h].step = "write"
               /\ jobs'[w].copies = <<[id |-> handlers[h].id,
                                       row |-> handlers[h].row]>>
    <2> DEFINE c == <<[id |-> handlers[h].id, row |-> handlers[h].row]>>
    <2>1. Go([step |-> "put", copies |-> c]) /\ handlers[h].step = "write"
      BY <1>3 DEF WriteOne
    <2> HIDE DEF c
    <2>2. jobs'[w] = [step |-> "put", copies |-> c]
      BY <1>1, <1>3, <2>1
    <2>3. jobs'[w].copies = c
      BY <2>2
    <2> QED
      BY <2>1, <2>3 DEF c
  <1>4. ASSUME NEW h \in Handlers, BeginDeleteSeries(h) \/ BeginDeleteOne(h),
               jobs'[w] # jobs[w]
        PROVE  jobs'[w].step \notin {"put", "save"}
    <2>1. \/ \E sid : Go([step |-> "sweep", series |-> sid])
          \/ \E ids : Go([step |-> "remove", ids |-> ids])
          \/ UNCHANGED jobs
      BY <1>4 DEF BeginDeleteSeries, BeginDeleteOne
    <2>2. \/ \E sid : jobs'[w] = [step |-> "sweep", series |-> sid]
          \/ \E ids : jobs'[w] = [step |-> "remove", ids |-> ids]
      BY <1>1, <1>4, <2>1
    <2>3. CASE \E sid : jobs'[w] = [step |-> "sweep", series |-> sid]
      BY <2>3
    <2>4. CASE \E ids : jobs'[w] = [step |-> "remove", ids |-> ids]
      BY <2>4
    <2> QED
      BY <2>2, <2>3, <2>4
  <1>5. ASSUME NEW v \in Workers, Work(v), jobs'[w] # jobs[w]
        PROVE  \/ jobs'[w].step \notin {"put", "save"}
               \/ /\ jobs[w].step \in {"put", "save"}
                  /\ jobs[w].copies \in Seq(Copy) /\ jobs[w].copies # <<>>
                  /\ jobs'[w].copies \in {jobs[w].copies, Tail(jobs[w].copies)}
    <2>1. \E job : jobs' = [jobs EXCEPT ![v] = job]
      <3>1. CASE PutEvent(v) \/ RemoveEvents(v)
        BY <3>1 DEF PutEvent, RemoveEvents
      <3>2. CASE SaveEvent(v) \/ PutFails(v)
        BY <3>2 DEF SaveEvent, PutFails, NextCopy
      <3>3. CASE Sweep(v)
        BY <3>3 DEF Sweep
      <3> QED
        BY <1>5, <3>1, <3>2, <3>3 DEF Work
    <2>2. v = w
      BY <1>0, <1>5, <2>1
    <2>3. CASE PutEvent(w)
      <3>1. jobs[w] \in Putting
        BY <1>0, <2>3, JobByStep DEF PutEvent
      <3> QED
        BY <1>0, <2>3, <3>1 DEF PutEvent, Putting
    <2>4. CASE SaveEvent(w) \/ PutFails(w)
      <3>1. jobs[w] \in Putting
        BY <1>0, <2>4, JobByStep DEF SaveEvent, PutFails
      <3>2. /\ jobs[w].copies \in Seq(Copy) /\ jobs[w].copies # <<>>
            /\ jobs[w].step \in {"put", "save"}
        BY <3>1 DEF Putting
      <3> DEFINE rest == Tail(jobs[w].copies)
      <3>3. jobs'[w] = IF rest = <<>> THEN NoJob
                       ELSE [step |-> "put", copies |-> rest]
        BY <1>0, <2>4 DEF SaveEvent, PutFails, NextCopy
      <3> HIDE DEF rest
      <3>4. jobs'[w].step = "idle" \/ jobs'[w].copies = rest
        BY <3>3 DEF NoJob
      <3> QED
        BY <3>2, <3>4 DEF rest
    <2>5. CASE Sweep(w)
      <3>1. \E ids : jobs' = [jobs EXCEPT ![w] = [step |-> "remove", ids |-> ids]]
        BY <2>5 DEF Sweep
      <3> QED
        BY <1>0, <3>1
    <2>6. CASE RemoveEvents(w)
      BY <1>0, <2>6 DEF RemoveEvents, NoJob
    <2> QED
      BY <1>5, <2>2, <2>3, <2>4, <2>5, <2>6 DEF Work
  <1>6. ASSUME NEW h \in Handlers,
               \/ BeginCreate(h) \/ Occur(h) \/ DeleteFuture(h) \/ Detach(h)
               \/ DeleteSeriesRow(h) \/ DeleteRow(h) \/ DeleteParent(h)
               \/ BeginMove(h) \/ BeginApprove(h) \/ StatementFails(h)
        PROVE  jobs' = jobs
    BY <1>6 DEF BeginCreate, Occur, DeleteFuture, Detach, DeleteSeriesRow,
       DeleteRow, DeleteParent, BeginMove, BeginApprove, StatementFails
  <1>7. CASE PurgeBookings \/ PurgeSeries \/ Tick \/ UNCHANGED vars
    BY <1>7 DEF PurgeBookings, PurgeSeries, Tick, vars
  <1> QED
    BY <1>2, <1>3, <1>4, <1>5, <1>6, <1>7 DEF Next, Handle

LEMMA JobBelieved ==
  ASSUME TypeInv, [Next]_vars, NEW w \in Workers, NEW i \in Ids, NEW s,
         JobHolds(w, i, s)'
  PROVE  Holds(i, s)
  <1>0. PICK k \in DOMAIN jobs'[w].copies :
          jobs'[w].copies[k].id = i /\ jobs'[w].copies[k].row.series = s
    BY DEF JobHolds
  <1>1. CASE jobs'[w] = jobs[w]
    BY <1>1 DEF JobHolds, Holds
  <1>2. ASSUME NEW h \in Handlers, handlers[h].step = "occur",
               jobs'[w].copies = handlers[h].made
        PROVE  Holds(i, s)
    BY <1>0, <1>2 DEF Holds
  <1>3. ASSUME NEW h \in Handlers, handlers[h].step = "write",
               jobs'[w].copies = <<[id |-> handlers[h].id,
                                    row |-> handlers[h].row]>>
        PROVE  Holds(i, s)
    <2> DEFINE c == [id |-> handlers[h].id, row |-> handlers[h].row]
    <2>1. c.id = handlers[h].id /\ c.row = handlers[h].row
      OBVIOUS
    <2>2. jobs'[w].copies = <<c>>
      BY <1>3
    <2> HIDE DEF c
    <2>3. jobs'[w].copies[k] = c
      BY <1>0, <2>2
    <2>4. handlers[h].id = i /\ handlers[h].row.series = s
      BY <1>0, <2>1, <2>3
    <2> QED
      BY <1>3, <2>4 DEF Holds
  <1>4. ASSUME jobs[w].step \in {"put", "save"}, jobs[w].copies \in Seq(Copy),
               jobs[w].copies # <<>>,
               jobs'[w].copies \in {jobs[w].copies, Tail(jobs[w].copies)}
        PROVE  Holds(i, s)
    <2> DEFINE c == jobs[w].copies
    <2>1. \E j \in DOMAIN c : jobs'[w].copies[k] = c[j]
      <3>1. CASE jobs'[w].copies = c
        BY <1>0, <3>1
      <3>2. CASE jobs'[w].copies = Tail(c)
        <4>1. c \in Seq(Copy) /\ c # <<>>
          BY <1>4
        <4>2. k \in DOMAIN Tail(c)
          BY <1>0, <3>2
        <4> HIDE DEF c
        <4>3. k + 1 \in DOMAIN c /\ Tail(c)[k] = c[k + 1]
          BY <4>1, <4>2
        <4> QED
          BY <3>2, <4>3
      <3> QED
        BY <1>4, <3>1, <3>2
    <2> QED
      BY <1>0, <1>4, <2>1 DEF Holds
  <1> QED
    BY <1>1, <1>2, <1>3, <1>4, JobMoves DEF JobHolds

LEMMA HoldsChange ==
  ASSUME TypeInv, NothingFails, [Next]_vars, NEW i \in Ids, NEW s, Holds(i, s)'
  PROVE  Believed(i, s)
  <1>1. \/ i \in Live' /\ bookings'[i].series = s
        \/ \E h \in Handlers : HandlerHolds(h, i, s)'
        \/ \E w \in Workers : JobHolds(w, i, s)'
    BY DEF Holds, HandlerHolds, JobHolds
  <1> QED
    BY <1>1, RowBelieved, HandlerBelieved, JobBelieved DEF Believed

-----------------------------------------------------------------------------

LEMMA StepMadeOnce ==
  ASSUME TypeInv, NothingFails, [Next]_vars, MadeOnce
  PROVE  MadeOnce'
  <1>1. ASSUME NEW h \in Handlers, handlers'[h].step = "occur"
        PROVE  handlers'[h].series \in opened'
    <2>1. CASE handlers'[h] = handlers[h]
      BY <1>1, <2>1, SeriesChange DEF MadeOnce
    <2>2. CASE BeginCreate(h)
      <3>1. PICK sid, plan, approved :
              /\ opened' = opened \cup {sid}
              /\ \/ handlers' = handlers
                 \/ Become(h, [step |-> "occur", series |-> sid, todo |-> plan,
                               approved |-> approved, made |-> <<>>])
        BY <2>2 DEF BeginCreate
      <3>2. CASE handlers' = handlers
        BY <2>1, <3>2
      <3>3. CASE Become(h, [step |-> "occur", series |-> sid, todo |-> plan,
                            approved |-> approved, made |-> <<>>])
        <4>1. handlers'[h].series = sid
          BY <3>3 DEF Become, TypeInv
        <4> QED
          BY <3>1, <4>1
      <3> QED
        BY <3>1, <3>2, <3>3
    <2>3. CASE Occur(h)
      <3>1. handlers[h] \in Occurring
        BY <2>3, OccurMakes
      <3>2. PICK made : Become(h, [handlers[h] EXCEPT !.todo = Tail(@),
                                                      !.made = made])
        BY <2>3 DEF Occur
      <3> DEFINE r == [handlers[h] EXCEPT !.todo = Tail(@), !.made = made]
      <3>3. r.series = handlers[h].series
        BY <3>1 DEF Occurring
      <3>4. Become(h, r)
        BY <3>2
      <3> HIDE DEF r
      <3>5. handlers'[h].series = handlers[h].series
        BY <3>3, <3>4 DEF Become, TypeInv
      <3> QED
        BY <2>3, <3>5, SeriesChange DEF Occur, MadeOnce
    <2>4. CASE Handle(h) /\ ~BeginCreate(h) /\ ~Occur(h) /\ handlers'[h] # handlers[h]
      <3>1. CASE \/ EndCreate(h) \/ DeleteSeriesRow(h) \/ DeleteParent(h)
                 \/ WriteOne(h)
        BY <1>1, <3>1 DEF EndCreate, DeleteSeriesRow, DeleteParent, WriteOne,
                          Finish, Become, Idle, TypeInv
      <3>2. CASE BeginDeleteSeries(h) \/ BeginDeleteOne(h)
        <4>1. \/ \E sid : Become(h, [step |-> "future", series |-> sid])
              \/ \E i, sid : Become(h, [step |-> "row", id |-> i, series |-> sid])
          BY <3>2 DEF BeginDeleteSeries, BeginDeleteOne
        <4>2. CASE \E sid : Become(h, [step |-> "future", series |-> sid])
          BY <1>1, <4>2 DEF Become, TypeInv
        <4>3. CASE \E i, sid : Become(h, [step |-> "row", id |-> i, series |-> sid])
          BY <1>1, <4>3 DEF Become, TypeInv
        <4> QED
          BY <4>1, <4>2, <4>3
      <3>3. CASE DeleteFuture(h) \/ Detach(h)
        <4>1. handlers[h] \in Unmaking
          BY <3>3, HandlerByStep DEF DeleteFuture, Detach, TypeInv
        <4> QED
          BY <1>1, <3>3, <4>1 DEF DeleteFuture, Detach, Become, Unmaking, TypeInv
      <3>4. CASE DeleteRow(h)
        <4>1. handlers[h] \in DeletingOne
          BY <3>4, HandlerByStep DEF DeleteRow, TypeInv
        <4> QED
          BY <1>1, <3>4, <4>1 DEF DeleteRow, Finish, Become, Idle, DeletingOne,
                                  TypeInv
      <3>5. CASE BeginApprove(h)
        <4>1. \E i, row : Become(h, [step |-> "write", id |-> i, row |-> row])
          BY <3>5 DEF BeginApprove
        <4> QED
          BY <1>1, <4>1 DEF Become, TypeInv
      <3> QED
        BY <2>4, <3>1, <3>2, <3>3, <3>4, <3>5, NoFailure DEF Handle
    <2> QED
      BY <2>1, <2>2, <2>3, <2>4, OthersStay
  <1>2. CASE issued' = issued
    BY <1>1, <1>2, SeriesChange DEF MadeOnce, Issued
  <1>3. ASSUME NEW h \in Handlers, NEW id \in Ids \ Used,
               handlers[h].step = "occur", opened' = opened,
               issued' = issued \cup {<<id, handlers[h].series>>}
        PROVE  MadeOnce'
    <2> DEFINE sid == handlers[h].series
    <2>1. sid \in opened
      BY <1>3 DEF MadeOnce
    <2>2. \A s : ~Issued(id, s)
      <3>1. ASSUME NEW s, <<id, s>> \in issued PROVE FALSE
        <4>1. <<id, s>>[1] = id
          OBVIOUS
        <4> DEFINE p == <<id, s>>
        <4>2. p \in issued /\ p[1] = id
          BY <3>1, <4>1
        <4> HIDE DEF p
        <4> QED
          BY <1>3, <4>2 DEF Used
      <3> QED
        BY <3>1 DEF Issued
    <2>3. \A i, s : Issued(i, s)' <=> Issued(i, s) \/ (i = id /\ s = sid)
      BY <1>3 DEF Issued
    <2> HIDE DEF sid
    <2> QED
      BY <1>1, <1>3, <2>1, <2>2, <2>3 DEF MadeOnce
  <1> QED
    BY <1>2, <1>3, IssuedChange

LEMMA UsedIsIssued ==
  ASSUME TypeInv, NEW i \in Used
  PROVE  i \in Ids /\ \E sid \in SeriesIds : Issued(i, sid)
  BY DEF TypeInv, TypeOK, Used, Issued

LEMMA IssuedIsUsed ==
  ASSUME NEW i, NEW sid, Issued(i, sid)
  PROVE  i \in Used
  <1> DEFINE p == <<i, sid>>
  <1>1. p \in issued /\ p[1] = i
    BY DEF Issued
  <1> HIDE DEF p
  <1> QED
    BY <1>1 DEF Used

LEMMA StepNames ==
  ASSUME TypeInv, NothingFails, [Next]_vars, MadeOnce, NamesInv
  PROVE  NamesInv'
  <1>1. \A i, sid : Issued(i, sid) => Issued(i, sid)'
    BY IssuedChange DEF Issued
  <1>2. ASSUME NEW i \in Ids, NEW s, Holds(i, s)' PROVE i \in Used'
    <2>1. CASE i \in Used
      <3>1. PICK sid \in SeriesIds : Issued(i, sid)
        BY <2>1, UsedIsIssued
      <3>2. <<i, sid>> \in issued'
        BY <1>1, <3>1 DEF Issued
      <3> DEFINE p == <<i, sid>>
      <3>3. p \in issued' /\ p[1] = i
        BY <3>2
      <3> HIDE DEF p
      <3> QED
        BY <3>3 DEF Used
    <2>2. CASE <<i, s>> \in issued'
      <3> DEFINE p == <<i, s>>
      <3>1. p \in issued' /\ p[1] = i
        BY <2>2
      <3> HIDE DEF p
      <3> QED
        BY <3>1 DEF Used
    <2> QED
      BY <1>2, <2>1, <2>2, HoldsChange DEF Believed, NamesInv
  <1>3. ASSUME NEW i \in Ids, NEW sid \in SeriesIds, NEW s,
               Issued(i, sid)', Holds(i, s)'
        PROVE  s = sid \/ (s = None /\ Leaving(sid)')
    <2>1. CASE Issued(i, sid)
      <3>1. sid \in opened /\ (Leaving(sid) => Leaving(sid)')
        BY <2>1, LeavingStays DEF MadeOnce
      <3>2. CASE Holds(i, s)
        BY <2>1, <3>1, <3>2 DEF NamesInv
      <3>3. ASSUME s = None, NEW h \in Handlers, Detach(h),
                   Holds(i, handlers[h].series)
            PROVE  Leaving(sid)'
        <4>1. handlers[h] \in Unmaking
          BY <3>3, HandlerByStep DEF Detach, TypeInv
        <4>2. handlers[h].series # None
          BY <4>1 DEF Unmaking
        <4>3. handlers[h].series = sid
          BY <2>1, <3>3, <4>2 DEF NamesInv
        <4>4. handlers'[h].step = "series" /\ handlers'[h].series = sid
          BY <3>3, <4>1, <4>3 DEF Detach, Become, Unmaking, TypeInv
        <4> QED
          BY <4>4 DEF Leaving
      <3>4. i \in Used
        BY <2>1, IssuedIsUsed
      <3> QED
        BY <1>3, <3>2, <3>3, <3>4, HoldsChange DEF Believed
    <2>2. CASE ~Issued(i, sid)
      <3>1. PICK h \in Handlers, id \in Ids \ Used :
              issued' = issued \cup {<<id, handlers[h].series>>}
        BY <1>3, <2>2, IssuedChange DEF Issued
      <3>2. i = id /\ sid = handlers[h].series
        BY <1>3, <2>2, <3>1 DEF Issued
      <3>3. ~Holds(i, s) /\ \A t : ~Holds(i, t)
        BY <3>1, <3>2 DEF NamesInv
      <3>4. <<i, s>> \in issued'
        BY <1>3, <3>3, HoldsChange DEF Believed
      <3>5. ~Issued(i, s)
        BY <3>1, <3>2, IssuedIsUsed
      <3> QED
        BY <3>1, <3>2, <3>4, <3>5 DEF Issued
    <2> QED
      BY <2>1, <2>2
  <1> QED
    BY <1>2, <1>3 DEF NamesInv

LEMMA StepWatched ==
  ASSUME TypeInv, NothingFails, [Next]_vars, MadeOnce, NamesInv, EmptyIsWatched
  PROVE  EmptyIsWatched'
  <1> SUFFICES ASSUME NEW sid \in series', NEW i0 \in Ids, Issued(i0, sid)',
                      Of(sid)' = {}
               PROVE  Watched(sid)'
    BY DEF EmptyIsWatched
  <1>0. series' \subseteq SeriesIds /\ sid # None
    BY StepTyped DEF TypeInv, TypeOK
  <1>1. Issued(i0, sid)
    <2>1. SUFFICES ASSUME ~Issued(i0, sid) PROVE FALSE
      OBVIOUS
    <2>2. PICK h \in Handlers, id \in Ids \ Used :
            /\ issued' = issued \cup {<<id, handlers[h].series>>}
            /\ id \in Live' /\ bookings'[id].series = handlers[h].series
      BY <2>1, IssuedChange DEF Issued
    <2>3. sid = handlers[h].series
      BY <2>1, <2>2 DEF Issued
    <2> QED
      BY <2>2, <2>3 DEF Of
  <1>2. sid \in series /\ sid \in SeriesIds
    <2>1. sid \in opened
      BY <1>0, <1>1 DEF MadeOnce
    <2> QED
      BY <1>0, <2>1, SeriesChange
  <1>3. ASSUME NEW g \in Handlers, handlers[g].step = "series",
               handlers[g].series = sid
        PROVE  Watched(sid)'
    <2>1. Leaving(sid)'
      BY <1>1, <1>2, <1>3, LeavingStays DEF Leaving, MadeOnce
    <2> QED
      BY <2>1 DEF Leaving, Watched
  <1>4. CASE Of(sid) = {}
    <2>1. Watched(sid)
      BY <1>1, <1>2, <1>4 DEF EmptyIsWatched
    <2>2. ASSUME purge = "orphans" PROVE Watched(sid)'
      <3>1. ~PurgeSeries
        BY <1>4 DEF PurgeSeries
      <3>2. purge' = "orphans"
        <4>1. ASSUME NEW h \in Handlers, Handle(h) PROVE purge' = purge
          BY <4>1 DEF Handle, BeginCreate, Occur, EndCreate,
             BeginDeleteSeries, DeleteFuture, Detach, DeleteSeriesRow,
             BeginDeleteOne, DeleteRow, DeleteParent, BeginMove, BeginApprove,
             WriteOne, StatementFails
        <4>2. ASSUME NEW w \in Workers, Work(w) PROVE purge' = purge
          BY <4>2 DEF Work, PutEvent, PutFails, SaveEvent, Sweep,
         RemoveEvents
        <4>3. CASE PurgeBookings \/ Tick \/ UNCHANGED vars
          BY <2>2, <4>3 DEF PurgeBookings, Tick, vars
        <4> QED
          BY <2>2, <3>1, <4>1, <4>2, <4>3 DEF Next
      <3> QED
        BY <3>2 DEF Watched
    <2>3. ASSUME NEW h \in Handlers, handlers[h].step \in {"parent", "detach"},
                 handlers[h].series = sid
          PROVE  Watched(sid)'
      <3>1. CASE handlers'[h] = handlers[h]
        BY <2>3, <3>1 DEF Watched
      <3>2. CASE Handle(h)
        <4>1. DeleteParent(h) \/ Detach(h)
          <5>1. /\ ~BeginCreate(h) /\ ~BeginDeleteSeries(h)
                /\ ~BeginDeleteOne(h) /\ ~BeginApprove(h)
            BY <2>3 DEF BeginCreate, BeginDeleteSeries, BeginDeleteOne,
                        BeginApprove, Request, Idle
          <5>2. /\ ~Occur(h) /\ ~EndCreate(h)
            BY <2>3 DEF Occur, EndCreate
          <5>3. /\ ~DeleteFuture(h) /\ ~DeleteSeriesRow(h) /\ ~DeleteRow(h)
                /\ ~WriteOne(h)
            BY <2>3 DEF DeleteFuture, DeleteSeriesRow, DeleteRow, WriteOne
          <5> QED
            BY <3>2, <5>1, <5>2, <5>3, NoFailure DEF Handle
        <4>2. ~DeleteParent(h)
          BY <1>4, <2>3 DEF DeleteParent
        <4>3. handlers[h] \in Unmaking
          BY <4>1, <4>2, HandlerByStep DEF Detach, TypeInv
        <4>4. handlers'[h].step = "series" /\ handlers'[h].series = sid
          BY <2>3, <4>1, <4>2, <4>3 DEF Detach, Become, Unmaking, TypeInv
        <4> QED
          BY <4>4 DEF Watched
      <3> QED
        BY <3>1, <3>2, OthersStay
    <2> QED
      BY <1>3, <2>1, <2>2, <2>3 DEF Watched
  <1>5. CASE Of(sid) # {}
    <2>1. PICK j \in Live : bookings[j].series = sid
      BY <1>5 DEF Of
    <2>2. j \in Ids /\ Holds(j, sid)
      BY <2>1 DEF Live, Holds
    <2>3. Issued(j, sid)
      <3>1. PICK t \in SeriesIds : Issued(j, t)
        BY <2>2, UsedIsIssued DEF NamesInv
      <3> QED
        BY <1>0, <2>2, <3>1 DEF NamesInv
    <2>4. ~(j \in Live' /\ bookings'[j].series = sid)
      BY DEF Of
    <2>5. ASSUME NEW s, Holds(j, s), s # sid PROVE Watched(sid)'
      <3>1. Leaving(sid)
        BY <1>2, <2>2, <2>3, <2>5 DEF NamesInv
      <3> QED
        BY <1>2, <1>3, <3>1 DEF Leaving
    <2>6. ASSUME NEW h \in Handlers, DeleteFuture(h) \/ Detach(h),
                 handlers[h].series = sid
          PROVE  Watched(sid)'
      <3>1. handlers[h] \in Unmaking
        BY <2>6, HandlerByStep DEF DeleteFuture, Detach, TypeInv
      <3>2. /\ handlers'[h].step \in {"detach", "series"}
            /\ handlers'[h].series = sid
        BY <2>6, <3>1 DEF DeleteFuture, Detach, Become, Unmaking, TypeInv
      <3> QED
        BY <3>2 DEF Watched
    <2>7. ASSUME NEW h \in Handlers, DeleteRow(h), handlers[h].id = j
          PROVE  Watched(sid)'
      <3>1. Holds(j, handlers[h].series)
        BY <2>7 DEF DeleteRow, Holds
      <3>2. CASE handlers[h].series = sid
        <4>1. handlers[h] \in DeletingOne
          BY <2>7, HandlerByStep DEF DeleteRow, TypeInv
        <4>2. Become(h, [handlers[h] EXCEPT !.step = "parent"])
          BY <1>0, <2>7, <3>2 DEF DeleteRow
        <4>3. /\ [handlers[h] EXCEPT !.step = "parent"].step = "parent"
              /\ [handlers[h] EXCEPT !.step = "parent"].series = sid
          BY <3>2, <4>1 DEF DeletingOne
        <4> DEFINE r == [handlers[h] EXCEPT !.step = "parent"]
        <4> HIDE DEF r
        <4>4. handlers'[h] = r /\ r.step = "parent" /\ r.series = sid
          BY <4>2, <4>3 DEF Become, TypeInv, r
        <4> QED
          BY <4>4 DEF Watched
      <3> QED
        BY <2>5, <3>1, <3>2
    <2>8. ASSUME NEW h \in Handlers, WriteOne(h), handlers[h].id = j,
                 j \in Live', bookings'[j].series = handlers[h].row.series
          PROVE  Watched(sid)'
      <3>1. Holds(j, handlers[h].row.series)
        BY <2>8 DEF WriteOne, Holds
      <3> QED
        BY <2>4, <2>5, <2>8, <3>1
    <2>9. ASSUME NEW w \in Workers, SaveEvent(w),
                 Head(jobs[w].copies).id = j, j \in Live',
                 bookings'[j].series = Head(jobs[w].copies).row.series
          PROVE  Watched(sid)'
      <3>1. jobs[w].copies \in Seq(Copy) /\ jobs[w].copies # <<>>
        BY <2>9, JobByStep DEF SaveEvent, TypeInv, Putting
      <3>2. 1 \in DOMAIN jobs[w].copies /\ Head(jobs[w].copies) = jobs[w].copies[1]
        BY <3>1
      <3>3. Holds(j, Head(jobs[w].copies).row.series)
        BY <2>9, <3>2 DEF SaveEvent, Holds
      <3> QED
        BY <2>4, <2>5, <2>9, <3>3
    <2>10. CASE PurgeBookings
      BY <2>10 DEF PurgeBookings, Watched
    <2> QED
      BY <2>1, <2>4, <2>6, <2>7, <2>8, <2>9, <2>10, RowChange
  <1> QED
    BY <1>4, <1>5

LEMMA InitLastInv == Init => LastInv
  <1> SUFFICES ASSUME Init PROVE LastInv
    OBVIOUS
  <1>1. Live = {}
    BY DEF Init, Live
  <1>2. \A i, s : ~Holds(i, s)
    BY <1>1 DEF Init, Holds, Idle, NoJob
  <1> QED
    BY <1>2 DEF Init, LastInv, MadeOnce, NamesInv, EmptyIsWatched, Issued, Idle

(* Whatever is deleted, detached, purged or written back at the same time: *)
(* when all is quiet, a series whose bookings are gone is gone itself, as  *)
(* long as no statement failed and no occurrence was moved.                *)
THEOREM LastBookingTakesSeriesWithIt ==
  NothingFails => (Spec => []LastBookingTakesSeries)
  <1> SUFFICES ASSUME NothingFails PROVE Spec => []LastBookingTakesSeries
    OBVIOUS
  <1>1. TypeInv /\ LastInv /\ [Next]_vars => LastInv'
    BY StepMadeOnce, StepNames, StepWatched DEF LastInv
  <1>2. LastInv => LastBookingTakesSeries
    <2> SUFFICES ASSUME LastInv, Quiet, NEW sid \in series, NEW i \in Ids,
                        <<i, sid>> \in issued, Of(sid) = {}
                 PROVE  FALSE
      BY DEF LastBookingTakesSeries
    <2>1. Watched(sid)
      BY DEF LastInv, EmptyIsWatched, Issued
    <2> QED
      BY <2>1 DEF Watched, Quiet, Idle
  <1> QED
    BY <1>1, <1>2, InitLastInv, InitTyped, StepTyped, PTL DEF Spec
=============================================================================
