----------------------------- MODULE MCSessions -----------------------------
(***************************************************************************)
(* Instances of Sessions for the model checker.                            *)
(***************************************************************************)
EXTENDS Sessions, TLC

(* Two queries in one tab, where something goes wrong once, and one query  *)
(* in each of two tabs.                                                    *)
CONSTANTS t1, t2, q1, q2

SameTab == (q1 :> t1) @@ (q2 :> t1)
TwoTabs == (q1 :> t1) @@ (q2 :> t2)
OneTabOrTwo == {SameTab, TwoTabs}
OneFaultInOneTab == (SameTab :> 1) @@ (TwoTabs :> 0)
=============================================================================
