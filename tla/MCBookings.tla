----------------------------- MODULE MCBookings -----------------------------
(***************************************************************************)
(* Instances of Bookings for the model checker, and the refinement of the  *)
(* ledger: the calendar id is not part of the promise, a row that is read  *)
(* but not written yet is no booking.                                      *)
(***************************************************************************)
EXTENDS Bookings, TLC

(* Three ranges, two of which share no instant.                            *)
TwoAndBoth == {<<0, 1>>, <<2, 3>>, <<0, 3>>}
(* A range without an instant strictly inside, which the capacity does not *)
(* see, and one with.                                                      *)
ShortAndLong == {<<0, 1>>, <<0, 3>>}
(* Two ranges that share one minute but no sample strictly inside both, and*)
(* one around them.                                                        *)
SharedMinute == {<<0, 2>>, <<1, 3>>, <<0, 3>>}
OneSlot == {<<0, 1>>}
(* A booking, one within it, and one that leaves before it enters: nothing *)
(* stops an unrestricted admin from that.                                  *)
WithinAndReversed == {<<0, 2>>, <<1, 1>>, <<2, 0>>}

Symmetry == UNION {Permutations(Ids), Permutations(Handlers),
                   Permutations(Users), Permutations(Spaces)}

Forget(row) == [user |-> row.user, space |-> row.space, enter |-> row.enter,
                leave |-> row.leave, approved |-> row.approved]

Table == [i \in Ids |-> IF bookings[i] = None THEN None
                                              ELSE Forget(bookings[i])]

Promise == INSTANCE Ledger WITH table <- Table, spent <- issued

(* A row without its calendar id is no more None than the row itself.      *)
ASSUME ForgetAssumption == None \notin Promise!Entry

(* One request at a time and no calendars: every step is a step of the     *)
(* ledger or leaves it alone.                                              *)
KeepsThePromise == Promise!LedgerSpec
=============================================================================
