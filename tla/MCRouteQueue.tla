---------------------------- MODULE MCRouteQueue ----------------------------
(* RouteQueue for TLC: two or three slots, a clock that wraps within the run. *)
EXTENDS RouteQueue

MCStartMs == {5}
=============================================================================
