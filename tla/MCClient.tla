------------------------------ MODULE MCClient -------------------------------
(* A small instance of every page.                                         *)
EXTENDS Client

CONSTANTS a1, a2, s1, s2, l1, l2

(* A series as often repeated as bookings of it succeed.                   *)
AsManyAsAsked == [o \in {1, 2} |-> o]

(* The first account has two calendars, the second one.                    *)
TwoAndOne == [account \in {1, 2} |-> 3 - account]

(* A corner, a point nearly level with it and one nearly above that.       *)
Mouse == {<<0, 0>>, <<5, 1>>, <<5, 6>>}

Smallest == [kind \in {"door", "plant"} |-> <<2, 2>>]
=============================================================================
