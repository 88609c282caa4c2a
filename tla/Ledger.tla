------------------------------- MODULE Ledger -------------------------------
(***************************************************************************)
(* What the booking API promises its clients, with every operation taken   *)
(* as one indivisible step on one table: a seat is never given to two      *)
(* bookings at the same instant, an area never holds more bookings at once *)
(* than its capacity, approval is only ever gained, and a booking that was *)
(* removed is gone for good.  Bookings refines this specification when     *)
(* requests are handled one at a time and nobody uses calendars.           *)
(***************************************************************************)
EXTENDS Intervals

CONSTANTS
    Ids,            \* booking ids
    Spaces,         \* the spaces of one location
    Users,
    Slots,          \* the time ranges clients ask for, pairs <<enter, leave>>
    MaxConcurrent,  \* capacity of the location, 0 for none
    None

VARIABLES
    table,          \* table[id]: the booking, or None
    spent           \* ids that were handed out, whether still in use or not

ledgerVars == <<table, spent>>

Entry == [user : Users, space : Spaces, enter : Int, leave : Int,
          approved : BOOLEAN]

Held == {i \in Ids : table[i] # None}

(* No instant of e belongs to another booking of the same space.           *)
SeatFree(self, e) ==
    \A i \in Held \ {self} :
        table[i].space = e.space => ~ShareInstant(table[i], e.enter, e.leave)

(* With e added, no instant strictly inside e exceeds the capacity.        *)
RoomLeft(self, e) ==
    MaxConcurrent # 0 =>
        \A t \in e.enter .. e.leave :
            ActiveAt(e, t) =>
                Cardinality({i \in Held \ {self} : ActiveAt(table[i], t)})
                    < MaxConcurrent

LedgerInit ==
    /\ table = [i \in Ids |-> None]
    /\ spent = {}

Book(i, e) ==
    /\ i \notin spent
    /\ SeatFree(i, e)
    /\ RoomLeft(i, e)
    /\ table' = [table EXCEPT ![i] = e]
    /\ spent' = spent \cup {i}

(* Approval travels with the booking: a move neither grants nor revokes it.*)
Move(i, e) ==
    /\ i \in Held
    /\ e.approved = table[i].approved
    /\ SeatFree(i, e)
    /\ RoomLeft(i, e)
    /\ table' = [table EXCEPT ![i] = e]
    /\ UNCHANGED spent

Approve(i) ==
    /\ i \in Held
    /\ table' = [table EXCEPT ![i].approved = TRUE]
    /\ UNCHANGED spent

Remove(i) ==
    /\ i \in Held
    /\ table' = [table EXCEPT ![i] = None]
    /\ UNCHANGED spent

LedgerNext ==
    \E i \in Ids :
        \/ \E u \in Users, s \in Spaces, slot \in Slots, a \in BOOLEAN :
              LET e == [user |-> u, space |-> s, enter |-> slot[1],
                        leave |-> slot[2], approved |-> a]
              IN Book(i, e) \/ Move(i, e)
        \/ Approve(i)
        \/ Remove(i)

LedgerSpec == LedgerInit /\ [][LedgerNext]_ledgerVars
=============================================================================
