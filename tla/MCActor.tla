------------------------------ MODULE MCActor ------------------------------
(* Small instances of Actor for TLC. *)
EXTENDS ActorRpc
=============================================================================
