------------------------------ MODULE WebPage -------------------------------
(***************************************************************************)
(* What every page of the web client (ui/src/pages) is made of: a React    *)
(* component with its state, the calls to the server it is waiting for,    *)
(* and the part of the database it works on.  Only one page is mounted at  *)
(* a time, and its state is made anew whenever it is mounted: a behaviour  *)
(* is one visit to one page.  The handlers of a page run one at a time;    *)
(* only at an await do others run in between.                              *)
(*                                                                         *)
(* A call that fails without an application code is answered by none of    *)
(* the handlers of the page: Ajax.query shows a dialogue of its own, from  *)
(* which the user can only load another document, and its promise never    *)
(* settles.                                                                *)
(***************************************************************************)
EXTENDS Integers, Sequences, FiniteSets

CONSTANT MaxClicks  \* what the user does in one visit (bound)

ASSUME MaxClicksAssumption == MaxClicks \in Nat

VARIABLES
    page,       \* the page that is mounted
    state,      \* the state of its component, the fields of the class with it
    calls,      \* the calls whose answer the page waits for
    server,     \* what the server keeps of what the page shows
    blocked,    \* whether the dialogue of a failed call is in front
    clicks

webVars == <<page, state, calls, server, blocked, clicks>>

(* A list without its i-th entry.                                          *)
RemovedAt(s, i) ==
    [j \in 1 .. Len(s) - 1 |-> IF j < i THEN s[j] ELSE s[j + 1]]

(* The user does something, unless a dialogue of Ajax is in the way.       *)
Click(p) ==
    /\ page = p /\ ~blocked
    /\ clicks < MaxClicks
    /\ clicks' = clicks + 1
    /\ UNCHANGED <<page, blocked>>

(* The page goes on with an answer, or with something it does by itself.   *)
Goes(p) == page = p /\ UNCHANGED <<page, blocked, clicks>>

(* Ajax.handleGlobalError and the handlers _app.tsx gives it.              *)
Blocks(p) ==
    /\ page = p
    /\ blocked' = TRUE
    /\ UNCHANGED <<page, state, clicks>>
=============================================================================
