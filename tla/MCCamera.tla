------------------------------ MODULE MCCamera ------------------------------
(* Camera for TLC: a radio task and the portal, two recorder instances. *)
EXTENDS Camera

CONSTANTS R, V1, V2

MCCommanders == {R, Portal}
MCRecorders == {V1, V2}
MCFrameLens == {1, 2}
=============================================================================
