------------------------------ MODULE Intervals ------------------------------
(***************************************************************************)
(* The three questions the booking repository asks about time ranges, as   *)
(* the WHERE clauses and the sweep of repository/booking-repository.go     *)
(* answer them.  A booking is any record with fields enter and leave; both *)
(* are integers; Bookings uses one tick per sample of the capacity sweep.  *)
(* The operators are pure; Bookings and Ledger are built from them.        *)
(***************************************************************************)
EXTENDS Integers, FiniteSets

(* The instants a booking stands for: its end points belong to it.         *)
Covers(b, t) == b.enter <= t /\ t <= b.leave

(* Bookings of one space that share an instant, by the definition of the   *)
(* word (the later of the two starts is shared, if any instant is).        *)
ShareInstant(b, enter, leave) ==
    \E t \in {b.enter, enter} : Covers(b, t) /\ enter <= t /\ t <= leave

-----------------------------------------------------------------------------
(* Mutated forms: a clause somebody might write for the one in the code.   *)

(* A conflict clause that tests only the end points of the request: it     *)
(* forgets a booking that lies within the request.                         *)
ConflictsWithEndPointsOnly(b, enter, leave) ==
    \/ enter >= b.enter /\ enter <= b.leave
    \/ leave >= b.enter /\ leave <= b.leave

-----------------------------------------------------------------------------
(* WHERE clause of GetConflicts (and of GetConcurrent): closed ranges, a   *)
(* booking that starts the very instant another ends is a conflict.        *)
ConflictsWith(b, enter, leave) ==
    \/ enter >= b.enter /\ enter <= b.leave
    \/ leave >= b.enter /\ leave <= b.leave
    \/ b.enter >= enter /\ b.enter <= leave
    \/ b.leave >= enter /\ b.leave <= leave

(* WHERE clause of GetTimeRangeByUser: half-open, back to back is allowed. *)
OverlapsForUser(b, enter, leave) ==
    \/ enter <= b.enter /\ leave > b.enter
    \/ enter < b.leave /\ leave >= b.leave
    \/ enter >= b.enter /\ leave <= b.leave

(* getNumActive of GetConcurrent: strictly inside the booking.             *)
ActiveAt(b, t) == b.enter < t /\ t < b.leave
=============================================================================
