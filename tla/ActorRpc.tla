------------------------------ MODULE ActorRpc ------------------------------
(***************************************************************************)
(* The actor implements the call contract of Rpc.                          *)
(***************************************************************************)
EXTENDS Actor

CallMsgs == {m \in Message : m.kind = "call"}

(* What each way to return from TimeCall means in Rpc. *)
Ended(r) == CASE r = "none" -> "new"
              [] r = "callTimeout" -> "notSent"
              [] r = "handleTimeout" -> "unknown"
              [] r = "ok" -> "ok"

(* Where a call stands for its caller: in TimeCall, or how it returned. *)
Phase == [m \in CallMsgs |->
  IF m \in sends \cup waiting THEN "open" ELSE Ended(res[m])]

Executed == [m \in CallMsgs |-> \E i \in 1 .. taken : posted[i] = m]

R == INSTANCE Rpc WITH Calls <- CallMsgs, phase <- Phase, executed <- Executed

(* TimeCall keeps the contract of Rpc: at most one execution, no answer     *)
(* without execution, no execution after ErrActorCallTimeout.               *)
ImplementsRpc == R!Spec
=============================================================================
