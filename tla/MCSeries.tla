------------------------------ MODULE MCSeries ------------------------------
(***************************************************************************)
(* Instances of Series for the model checker.                              *)
(***************************************************************************)
EXTENDS Series

(* A series of two days, and one that is over the limit of two.            *)
ShortAndTooLong == {<<0, 1>>, <<0, 1, 2>>}
Short == {<<0, 1>>}
TwoDays == {<<1, 2>>}

AllKinds == KindsOfRequests
AllButMoves == KindsOfRequests \ {"move"}
SeriesOnly == {"create", "deleteSeries"}
=============================================================================
