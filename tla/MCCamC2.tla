------------------------------ MODULE MCCamC2 ------------------------------
(* CamC2 for TLC: two slots, two peers, two inbound numbers. *)
EXTENDS CamC2

CONSTANTS A, B, R

MCIds == {A, B}
MCRadioTasks == {R}
MCSeqs == 1..2
=============================================================================
