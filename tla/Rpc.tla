-------------------------------- MODULE Rpc --------------------------------
(***************************************************************************)
(* What TimeCall promises a caller, whatever the actor, its mailbox and    *)
(* its timers do: each call is executed at most once, an answer comes only *)
(* after execution, ErrActorCallTimeout ("notSent") means that the call    *)
(* has not been executed and never will be, and ErrActorHandleTimeout      *)
(* ("unknown") leaves open whether it has been or will be.                 *)
(***************************************************************************)
CONSTANT Calls

VARIABLES phase, executed

Init ==
  /\ phase = [m \in Calls |-> "new"]
  /\ executed = [m \in Calls |-> FALSE]

Begin(m) ==
  /\ phase[m] = "new"
  /\ phase' = [phase EXCEPT ![m] = "open"]
  /\ UNCHANGED executed

Execute(m) ==
  /\ phase[m] \in {"open", "unknown"} /\ ~executed[m]
  /\ executed' = [executed EXCEPT ![m] = TRUE]
  /\ UNCHANGED phase

Answer(m) ==
  /\ phase[m] = "open" /\ executed[m]
  /\ phase' = [phase EXCEPT ![m] = "ok"]
  /\ UNCHANGED executed

Refuse(m) ==
  /\ phase[m] = "open" /\ ~executed[m]
  /\ phase' = [phase EXCEPT ![m] = "notSent"]
  /\ UNCHANGED executed

GiveUp(m) ==
  /\ phase[m] = "open"
  /\ phase' = [phase EXCEPT ![m] = "unknown"]
  /\ UNCHANGED executed

Next == \E m \in Calls :
  Begin(m) \/ Execute(m) \/ Answer(m) \/ Refuse(m) \/ GiveUp(m)

Spec == Init /\ [][Next]_<<phase, executed>>
=============================================================================
