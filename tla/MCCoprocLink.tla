---------------------------- MODULE MCCoprocLink ----------------------------
(* CoprocLink for TLC. *)
EXTENDS CoprocLink
=============================================================================
