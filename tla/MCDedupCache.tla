---------------------------- MODULE MCDedupCache ----------------------------
(* DedupCache for TLC. *)
EXTENDS DedupCache, TLC

CONSTANTS h1, h2, h3

MCHashes == {h1, h2, h3}
=============================================================================
