---------------------------- MODULE MCRadioTask -----------------------------
(* RadioTask for TLC. *)
EXTENDS RadioTask
=============================================================================
