-------------------------- MODULE Intervals_proofs --------------------------
(***************************************************************************)
(* The WHERE clauses of the booking repository say what they are meant to, *)
(* for all time ranges that do not end before they begin.                  *)
(***************************************************************************)
EXTENDS Intervals, TLAPS

Range == [enter : Int, leave : Int]

(* GetConflicts finds a booking if and only if it shares an instant, end   *)
(* points included, with the requested range: its four clauses miss no     *)
(* booking and report none that is no conflict.                            *)
THEOREM ConflictIsSharedInstant ==
  ASSUME NEW b \in Range, NEW enter \in Int, NEW leave \in Int,
         b.enter <= b.leave, enter <= leave
  PROVE  ConflictsWith(b, enter, leave) <=> ShareInstant(b, enter, leave)
  BY DEF Range, ConflictsWith, ShareInstant, Covers

(* GetTimeRangeByUser finds a booking if and only if the two ranges have   *)
(* more than an end point in common.                                       *)
THEOREM UserOverlapIsProper ==
  ASSUME NEW b \in Range, NEW enter \in Int, NEW leave \in Int,
         b.enter < b.leave, enter < leave
  PROVE  OverlapsForUser(b, enter, leave)
            <=> b.enter < leave /\ enter < b.leave
  BY DEF Range, OverlapsForUser

(* What the sweep of GetConcurrent counts is a conflict as well: a booking *)
(* active at an instant of the range is one that GetConflicts would find   *)
(* in its own space.                                                       *)
THEOREM ActiveIsConflict ==
  ASSUME NEW b \in Range, NEW enter \in Int, NEW leave \in Int,
         NEW t \in enter .. leave, ActiveAt(b, t)
  PROVE  ConflictsWith(b, enter, leave)
  BY DEF Range, ConflictsWith, ActiveAt
=============================================================================
