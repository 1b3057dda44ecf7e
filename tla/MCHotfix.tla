------------------------------ MODULE MCHotfix ------------------------------
(* Small instances of Hotfix for TLC: addresses as ranges. *)
EXTENDS Hotfix

MCMain == 0 .. 2
MCPatch == 10 .. 11
=============================================================================
