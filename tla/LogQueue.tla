------------------------------ MODULE LogQueue ------------------------------
(***************************************************************************)
(* What the log proxy promises: a queue.  An entry whose Write returned    *)
(* nil is accepted, one whose Write returned an error never is.  Accepted  *)
(* entries leave in order, some at a time, each written once and unchanged *)
(* or lost, those at the end of what leaves, when the io.Writer fails.     *)
(***************************************************************************)
EXTENDS Integers, Sequences

CONSTANT Entries

VARIABLES accepted, refused, settled, written

Init == accepted = <<>> /\ refused = {} /\ settled = 0 /\ written = <<>>

Accepted == {accepted[i] : i \in 1 .. Len(accepted)}

Accept(e) ==
  /\ e \notin Accepted \cup refused
  /\ accepted' = Append(accepted, e)
  /\ UNCHANGED <<refused, settled, written>>

Refuse(e) ==
  /\ e \notin Accepted \cup refused
  /\ refused' = refused \cup {e}
  /\ UNCHANGED <<accepted, settled, written>>

(* The next entries, up to number k, leave, and those up to m are written. *)
Settle(k) ==
  /\ settled' = k
  /\ \E m \in settled .. k :
       written' = written \o SubSeq(accepted, settled + 1, m)
  /\ UNCHANGED <<accepted, refused>>

Next ==
  \/ \E e \in Entries : Accept(e) \/ Refuse(e)
  \/ \E k \in settled + 1 .. Len(accepted) : Settle(k)

Spec == Init /\ [][Next]_<<accepted, refused, settled, written>>
=============================================================================
