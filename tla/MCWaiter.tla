------------------------------ MODULE MCWaiter ------------------------------
(* Small instances of Waiter for TLC. *)
EXTENDS Waiter
=============================================================================
