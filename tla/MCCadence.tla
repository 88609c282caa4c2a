----------------------------- MODULE MCCadence -----------------------------
(***************************************************************************)
(* Requests for Cadence: series that start on any day of a week, weekly    *)
(* ones with up to three weekdays, in the order of the week or in the      *)
(* order somebody clicked on them.                                         *)
(***************************************************************************)
EXTENDS Cadence

Lists(n) == [1 .. n -> 0 .. 6]
Sorted == {s \in UNION {Lists(n) : n \in 0 .. 3} :
              \A j, k \in DOMAIN s : j < k => s[j] < s[k]}
ClickOrder == {s \in Lists(2) : s[1] > s[2]}

Weekly(lists) ==
    {[cadence |-> "weekly", cycle |-> c, weekdays |-> w, enter |-> e,
      end |-> e + l] :
        c \in 1 .. 2, w \in lists, e \in 0 .. 6, l \in {0, 1, 8, 12, 20}}

Daily ==
    {[cadence |-> "daily", cycle |-> c, weekdays |-> <<>>, enter |-> e,
      end |-> e + l] : c \in 1 .. 3, e \in 0 .. 1, l \in 0 .. 8}

InOrder == Weekly(Sorted) \cup Daily
AsClicked == Weekly(ClickOrder)
=============================================================================
