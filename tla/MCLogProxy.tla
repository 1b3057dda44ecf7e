----------------------------- MODULE MCLogProxy -----------------------------
(* Small instances of LogProxy for TLC, and its refinement of LogQueue. *)
EXTENDS LogProxy

Q == INSTANCE LogQueue WITH Entries <- Entry

(* The log proxy is the queue of LogQueue: order, no duplicate, no change  *)
(* of an entry while its buffer is on its way, nothing written that Write  *)
(* refused.                                                                *)
ImplementsQueue == Q!Spec
=============================================================================
