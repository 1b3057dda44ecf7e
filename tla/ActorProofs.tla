---------------------------- MODULE ActorProofs ----------------------------
(***************************************************************************)
(* Theorems about Actor, for any clients, timers, capacity and bounds, for *)
(* whatever may panic, and for either polarity of the loop.                *)
(***************************************************************************)
EXTENDS ActorRpc, TLAPS

USE ActorAssumption

LEMMA InitType == Init => TypeOK
<1> SUFFICES ASSUME Init PROVE TypeOK
  OBVIOUS
<1> USE DEF Init
<1>1. /\ cur \in Event /\ ret \in ActorRet
  BY DEF Event, Ev, ActorRet
<1>2. /\ posted \in Seq(Message) /\ taken \in 0 .. Len(posted)
      /\ sent \in [Clients -> 0 .. MaxSends]
      /\ intr \in [{"start", "stop"} -> 0 .. MaxTickerCmds]
  OBVIOUS
<1> QED
  BY <1>1, <1>2 DEF TypeOK

(* What handleRet and the flag of doLoop leave in the variables of the loop. *)
LEMMA ConcludeType ==
  ASSUME TypeOK, NEW r \in ActorRet, Conclude(r)
  PROVE  /\ apc' \in {"Select", "Exited"}
         /\ cur' \in Event /\ ret' \in ActorRet
         /\ ticker' \in BOOLEAN /\ out' \in BOOLEAN /\ stops' \in Nat
<1>1. apc' \in {"Select", "Exited"}
  BY DEF Conclude, Continue
<1>2. cur' \in Event /\ ret' \in ActorRet
  BY DEF Conclude, Ev, Event, ActorRet
<1>3. ticker' \in BOOLEAN /\ out' \in BOOLEAN
  BY Zenon DEF TypeOK, Conclude, HandleRet, OutTimer
<1>4. stops' \in Nat
  BY DEF TypeOK, Conclude, HandleRet
<1> QED
  BY <1>1, <1>2, <1>3, <1>4

LEMMA StepType == TypeOK /\ [Next]_vars => TypeOK'
<1> SUFFICES ASSUME TypeOK, [Next]_vars PROVE TypeOK'
  OBVIOUS
<1> USE DEF TypeOK, loopVars, mailVars, clientVars, replyVars
<1>1. ASSUME NEW r \in ActorRet, InitReturn(r) PROVE TypeOK'
  BY <1>1 DEF InitReturn
<1>2. ASSUME NEW r \in ActorRet, HandleReturnReply(r) PROVE TypeOK'
  BY <1>2 DEF HandleReturnReply
<1>3. ASSUME NEW r \in ActorRet, HandleReturn(r) PROVE TypeOK'
  BY <1>3, ConcludeType DEF HandleReturn
<1>4. CASE InitRendezvous
  <2>1. ticker' \in BOOLEAN /\ out' \in BOOLEAN
    BY <1>4, Zenon DEF InitRendezvous, HandleRet, OutTimer
  <2>2. stops' \in Nat
    BY <1>4 DEF InitRendezvous, HandleRet
  <2> QED
    BY <1>4, <2>1, <2>2 DEF InitRendezvous, Ev, Event, ActorRet
<1>5. CASE InitPanic
  BY <1>5 DEF InitPanic
<1>6. CASE HandlePanic
  BY <1>6 DEF HandlePanic, Ev, Event
<1>7. CASE SendRet
  BY <1>7, ConcludeType DEF SendRet
<1>8. CASE RecvMail
  BY <1>8 DEF RecvMail
<1>9. CASE RecvTick
  BY <1>9 DEF RecvTick, Ev, Event
<1>10. CASE RecvOut
  BY <1>10 DEF RecvOut, Ev, Event
<1>11. ASSUME NEW k \in {"start", "stop"}, RecvInterrupt(k) PROVE TypeOK'
  BY <1>11 DEF RecvInterrupt, Continue, OutTimer
<1>12. CASE InitTimeout
  BY <1>12 DEF InitTimeout
<1>13. CASE KeepCaller
  BY <1>13 DEF KeepCaller, Message, Event
<1>14. ASSUME NEW m \in Message, SendReply(m) PROVE TypeOK'
  BY <1>14 DEF SendReply
<1>15. ASSUME NEW c \in Clients, TimeCall(c) PROVE TypeOK'
  BY <1>15 DEF TimeCall, BeginSend, Call, Message
<1>16. ASSUME NEW c \in Clients, CastMsg(c) PROVE TypeOK'
  BY <1>16 DEF CastMsg, BeginSend, Cast, Message
<1>17. ASSUME NEW m \in Message, Post(m) PROVE TypeOK'
  BY <1>17 DEF Post
<1>18. ASSUME NEW m \in Message, CallTimeout(m) PROVE TypeOK'
  BY <1>18 DEF CallTimeout
<1>19. ASSUME NEW m \in Message, HandleTimeout(m) PROVE TypeOK'
  BY <1>19 DEF HandleTimeout
<1>20. ASSUME NEW m \in Message, RecvReply(m) PROVE TypeOK'
  BY <1>20 DEF RecvReply
<1>21. ASSUME NEW t \in Timers, AfterCast(t) PROVE TypeOK'
  BY <1>21 DEF AfterCast
<1>22. ASSUME NEW t \in Timers, CancelAfter(t) PROVE TypeOK'
  BY <1>22 DEF CancelAfter
<1>23. ASSUME NEW t \in Timers, FireAfter(t) PROVE TypeOK'
  BY <1>23 DEF FireAfter, Cast, Message
<1>24. ASSUME NEW k \in {"start", "stop"}, TickerCmd(k) PROVE TypeOK'
  BY <1>24 DEF TickerCmd
<1>25. CASE UNCHANGED vars
  BY <1>25 DEF vars
<1> QED
  BY <1>1, <1>2, <1>3, <1>4, <1>5, <1>6, <1>7, <1>8, <1>9, <1>10, <1>11, <1>12,
     <1>13, <1>14, <1>15, <1>16, <1>17, <1>18, <1>19, <1>20, <1>21, <1>22,
     <1>23, <1>24, <1>25
     DEF Next, LoopStep, ClientStep

(* Every variable keeps its type, the buffer of the mailbox included.      *)
THEOREM TypeCorrect == Spec => []TypeOK
<1>1. Init => TypeOK
  BY InitType
<1>2. TypeOK /\ [Next]_vars => TypeOK'
  BY StepType
<1> QED
  BY <1>1, <1>2, PTL DEF Spec

-----------------------------------------------------------------------------
(* Order.  SenderOrder is not inductive: it needs to know that a goroutine *)
(* is at one send at a time, and that what it is about to send comes after *)
(* everything of its own that is in the mailbox.                           *)
SendOrder ==
  /\ \A m \in sends, i \in 1 .. Len(posted) :
       posted[i].src = m.src => posted[i].seq < m.seq
  /\ \A m, n \in sends : m.src = n.src => m = n

Issued ==
  /\ \A m \in sends : m.src \in Clients => m.seq <= sent[m.src]
  /\ \A i \in 1 .. Len(posted) :
       posted[i].src \in Clients => posted[i].seq <= sent[posted[i].src]

Unfired ==
  \A t \in Timers : timers[t] # "fired" =>
    /\ \A m \in sends : m.src # t
    /\ \A i \in 1 .. Len(posted) : posted[i].src # t

OrderInv == SendOrder /\ Issued /\ Unfired /\ SenderOrder

LEMMA InitOrder == Init => OrderInv
BY DEF Init, OrderInv, SendOrder, Issued, Unfired, SenderOrder

(* Actions that neither send, nor deliver, nor touch the AfterCast timers. *)
LEMMA LoopKeepsSenders ==
  ASSUME LoopStep \/ InitTimeout \/ KeepCaller \/ \E m \in Message : SendReply(m)
  PROVE  UNCHANGED <<posted, sends, sent, timers>>
<1> USE DEF loopVars, mailVars, clientVars
<1>1. CASE LoopStep
  BY <1>1 DEF LoopStep, InitReturn, HandleReturnReply, HandleReturn,
     InitRendezvous, InitPanic, HandlePanic, SendRet, RecvMail, RecvTick,
     RecvOut, RecvInterrupt
<1> QED
  BY <1>1 DEF InitTimeout, KeepCaller, SendReply

(* A new message of c, whose goroutine is idle. *)
LEMMA BeginOrder ==
  ASSUME TypeOK, OrderInv, NEW c \in Clients, Idle(c), NEW m \in Message,
         m.src = c, m.seq = sent[c] + 1, BeginSend(c, m)
  PROVE  OrderInv'
<1> USE DEF TypeOK, BeginSend, loopVars, mailVars
<1>1. sends' = sends \cup {m} /\ posted' = posted /\ timers' = timers
  OBVIOUS
<1>2. sent[c] \in Nat /\ sent'[c] = sent[c] + 1
  OBVIOUS
<1>3. \A d \in Clients : d # c => sent'[d] = sent[d]
  OBVIOUS
<1>4. \A n \in sends : n.src # c
  BY DEF Idle
<1>5. \A i \in 1 .. Len(posted) : posted[i].seq \in Nat
  <2>1. \A i \in 1 .. Len(posted) : posted[i] \in Message
    OBVIOUS
  <2>2. \A n \in Message : n.seq \in Nat
    BY DEF Message
  <2> QED
    BY ONLY <2>1, <2>2
<1>6. SendOrder'
  BY <1>1, <1>2, <1>4, <1>5 DEF OrderInv, SendOrder, Issued
<1>7. Issued'
  <2>1. \A n \in sends : n.src \in Clients => n.seq <= sent'[n.src]
    <3>1. \A n \in sends : n.src \in Clients => n.seq <= sent[n.src]
      BY DEF OrderInv, Issued
    <3> QED
      BY ONLY <1>3, <1>4, <3>1
  <2>2. m.seq <= sent'[m.src]
    BY <1>2
  <2>3. \A i \in 1 .. Len(posted) :
          posted[i].src \in Clients => posted[i].seq <= sent'[posted[i].src]
    <3>1. \A i \in 1 .. Len(posted) :
            posted[i].src \in Clients => posted[i].seq <= sent[posted[i].src]
      BY DEF OrderInv, Issued
    <3> QED
      BY ONLY <1>2, <1>3, <1>5, <3>1
  <2> QED
    BY ONLY <1>1, <2>1, <2>2, <2>3 DEF Issued
<1>8. Unfired'
  BY <1>1, ActorAssumption DEF OrderInv, Unfired
<1>9. SenderOrder'
  BY <1>1 DEF OrderInv, SenderOrder
<1> QED
  BY <1>6, <1>7, <1>8, <1>9 DEF OrderInv

LEMMA StepOrder == TypeOK /\ OrderInv /\ [Next]_vars => OrderInv'
<1> SUFFICES ASSUME TypeOK, OrderInv, [Next]_vars PROVE OrderInv'
  OBVIOUS
<1> USE DEF OrderInv, SendOrder, Issued, Unfired, SenderOrder
<1> USE DEF loopVars, mailVars, clientVars, replyVars
<1>1. CASE UNCHANGED <<posted, sends, sent, timers>>
  BY <1>1
<1>2. ASSUME NEW c \in Clients, TimeCall(c) PROVE OrderInv'
  <2>1. Call(c, sent[c] + 1) \in Message
    BY <1>2 DEF TypeOK, TimeCall, BeginSend, Call, Message
  <2> QED
    BY <1>2, <2>1, BeginOrder DEF TimeCall, MayUse, Call
<1>3. ASSUME NEW c \in Clients, CastMsg(c) PROVE OrderInv'
  <2>1. Cast(c, sent[c] + 1) \in Message
    BY <1>3 DEF TypeOK, CastMsg, BeginSend, Cast, Message
  <2> QED
    BY <1>3, <2>1, BeginOrder DEF CastMsg, MayUse, Cast
<1>4. ASSUME NEW m \in Message, Post(m) PROVE OrderInv'
  <2>1. /\ posted' = Append(posted, m) /\ sends' = sends \ {m} /\ m \in sends
        /\ sent' = sent /\ timers' = timers
    BY <1>4 DEF Post
  <2>2. /\ Len(posted') = Len(posted) + 1 /\ posted'[Len(posted) + 1] = m
        /\ \A i \in 1 .. Len(posted) : posted'[i] = posted[i]
        /\ Len(posted) \in Nat
    BY <2>1 DEF TypeOK
  <2>3. SendOrder'
    BY <2>1, <2>2
  <2>4. Issued'
    BY <2>1, <2>2
  <2>5. Unfired'
    BY <2>1, <2>2
  <2>6. SenderOrder'
    BY <2>1, <2>2
  <2> QED
    BY <2>3, <2>4, <2>5, <2>6
<1>5. ASSUME NEW m \in Message, CallTimeout(m) PROVE OrderInv'
  BY <1>5 DEF CallTimeout
<1>6. ASSUME NEW t \in Timers, AfterCast(t) \/ CancelAfter(t) PROVE OrderInv'
  BY <1>6 DEF AfterCast, CancelAfter, TypeOK
<1>7. ASSUME NEW t \in Timers, FireAfter(t) PROVE OrderInv'
  <2>1. /\ timers[t] # "fired" /\ timers' = [timers EXCEPT ![t] = "fired"]
        /\ sends' = sends \cup {Cast(t, 1)} /\ posted' = posted /\ sent' = sent
        /\ Cast(t, 1).src = t /\ t \notin Clients
    BY <1>7, ActorAssumption DEF FireAfter, Cast
  <2>2. SendOrder'
    BY <2>1
  <2>3. Issued'
    BY <2>1
  <2>4. Unfired'
    BY <2>1 DEF TypeOK
  <2>5. SenderOrder'
    BY <2>1
  <2> QED
    BY <2>2, <2>3, <2>4, <2>5
<1> QED
  <2>1. ASSUME NEW m \in Message, HandleTimeout(m) \/ RecvReply(m) PROVE OrderInv'
    BY <1>1, <2>1 DEF HandleTimeout, RecvReply
  <2>2. ASSUME NEW k \in {"start", "stop"}, TickerCmd(k) PROVE OrderInv'
    BY <1>1, <2>2 DEF TickerCmd
  <2>3. CASE ClientStep
    BY <1>2, <1>3, <1>4, <1>5, <1>6, <1>7, <2>1, <2>2, <2>3 DEF ClientStep
  <2>4. CASE UNCHANGED vars
    BY <1>1, <2>4 DEF vars
  <2> QED
    BY <1>1, <2>3, <2>4, LoopKeepsSenders DEF Next

(* The messages of one sender are in the mailbox in the order it sent them *)
(* and none is there twice, however many senders wait for room.            *)
THEOREM OrderKept == Spec => []SenderOrder
<1>1. Init => OrderInv
  BY InitOrder
<1>2. TypeOK /\ OrderInv /\ [Next]_vars => OrderInv'
  BY StepOrder
<1>3. OrderInv => SenderOrder
  BY DEF OrderInv
<1> QED
  BY <1>1, <1>2, <1>3, TypeCorrect, PTL DEF Spec

-----------------------------------------------------------------------------
(* Start. *)
StartInv ==
  start # "returned" =>
    apc \in {"Init", "InitSend", "Crashed"} /\ taken = 0 /\ stops = 0

LEMMA ClientKeepsLoop ==
  ASSUME ClientStep \/ KeepCaller \/ \E m \in Message : SendReply(m)
  PROVE  UNCHANGED <<apc, stops, start, taken>>
<1> USE DEF loopVars, mailVars
<1>1. CASE ClientStep
  BY <1>1 DEF ClientStep, TimeCall, CastMsg, BeginSend, Post, CallTimeout,
     HandleTimeout, RecvReply, AfterCast, CancelAfter, FireAfter, TickerCmd
<1> QED
  BY <1>1 DEF KeepCaller, SendReply

LEMMA StepStart == StartInv /\ [Next]_vars => StartInv'
<1> SUFFICES ASSUME StartInv, [Next]_vars PROVE StartInv'
  OBVIOUS
<1> USE DEF StartInv, loopVars, mailVars
<1>1. CASE UNCHANGED <<apc, stops, start, taken>>
  BY <1>1
<1>2. CASE InitTimeout
  BY <1>2 DEF InitTimeout
<1>3. ASSUME NEW r \in ActorRet, InitReturn(r) PROVE StartInv'
  BY <1>3 DEF InitReturn
<1>4. CASE InitRendezvous
  BY <1>4 DEF InitRendezvous
<1>5. CASE InitPanic
  BY <1>5 DEF InitPanic
<1>6. CASE apc \notin {"Init", "InitSend", "Crashed"} /\ start' = start
  BY <1>6
<1>7. CASE LoopStep
  BY <1>3, <1>4, <1>5, <1>6, <1>7 DEF LoopStep, HandleReturnReply, HandleReturn,
     HandlePanic, SendRet, RecvMail, RecvTick, RecvOut, RecvInterrupt
<1> QED
  BY <1>1, <1>2, <1>7, ClientKeepsLoop DEF Next, vars

(* An actor whose Start timed out never receives and never stops.          *)
THEOREM NoServiceUnlessStarted == Spec => []NoServiceAfterInitTimeout
<1>1. Init => StartInv
  BY DEF Init, StartInv
<1>2. StartInv => NoServiceAfterInitTimeout
  BY DEF StartInv, NoServiceAfterInitTimeout
<1> QED
  BY <1>1, <1>2, StepStart, PTL DEF Spec

-----------------------------------------------------------------------------
(* What callers may conclude from how their call ended, and where replies  *)
(* go.  The arguments rest on the order of the mailbox (OrderInv): no      *)
(* message is in it twice.                                                 *)

(* Calls are made by Clients, and what has ended had begun. *)
CallsBegun ==
  /\ \A m \in sends : m.kind = "call" => m.src \in Clients
  /\ \A m \in waiting : m.src \in Clients /\ m.seq <= sent[m.src]
  /\ \A m \in Message :
       res[m] # "none" => m.src \in Clients /\ m.seq <= sent[m.src]

CallInv == CallsBegun /\ CallTimeoutNeverPosted

LEMMA InitCall == Init => CallInv
BY DEF Init, CallInv, CallsBegun, CallTimeoutNeverPosted

LEMMA LoopKeepsCalls ==
  ASSUME LoopStep \/ InitTimeout \/ KeepCaller \/ \E m \in Message : SendReply(m)
  PROVE  UNCHANGED <<posted, sends, sent, waiting, res, got>>
<1> USE DEF loopVars, mailVars, clientVars
<1>1. CASE LoopStep
  BY <1>1 DEF LoopStep, InitReturn, HandleReturnReply, HandleReturn,
     InitRendezvous, InitPanic, HandlePanic, SendRet, RecvMail, RecvTick,
     RecvOut, RecvInterrupt
<1> QED
  BY <1>1 DEF InitTimeout, KeepCaller, SendReply

(* A new message has not ended yet: its number is above all that began. *)
LEMMA BeginCall ==
  ASSUME TypeOK, CallInv, NEW c \in Clients, NEW m \in Message,
         m.src = c, m.seq = sent[c] + 1, BeginSend(c, m)
  PROVE  CallInv'
<1> USE DEF CallInv, CallsBegun, CallTimeoutNeverPosted
<1>1. /\ sends' = sends \cup {m} /\ posted' = posted /\ waiting' = waiting
      /\ res' = res
  BY DEF BeginSend, mailVars
<1>2. sent[c] \in Nat /\ sent'[c] = sent[c] + 1
  BY DEF TypeOK, BeginSend
<1>3. \A d \in Clients : d # c => sent'[d] = sent[d]
  BY DEF TypeOK, BeginSend
<1>4. \A n \in Message : n.seq \in Nat /\ (n.src \in Clients => sent[n.src] \in Nat)
  BY DEF TypeOK, Message
<1>5. waiting \subseteq Message
  BY DEF TypeOK
<1>6. \A n \in Message :
        n.src \in Clients /\ n.seq <= sent[n.src] => n.seq <= sent'[n.src]
  BY <1>2, <1>3, <1>4
<1>7. CallsBegun'
  BY <1>1, <1>5, <1>6
<1>8. res[m] = "none"
  BY <1>2
<1>9. CallTimeoutNeverPosted'
  BY <1>1, <1>8
<1> QED
  BY <1>7, <1>9

LEMMA StepCall == TypeOK /\ OrderInv /\ CallInv /\ [Next]_vars => CallInv'
<1> SUFFICES ASSUME TypeOK, OrderInv, CallInv, [Next]_vars PROVE CallInv'
  OBVIOUS
<1> USE DEF CallInv, CallsBegun, CallTimeoutNeverPosted, mailVars, loopVars
<1>1. CASE UNCHANGED <<posted, sends, sent, waiting, res>>
  BY <1>1
<1>2. ASSUME NEW c \in Clients, TimeCall(c) PROVE CallInv'
  <2>1. Call(c, sent[c] + 1) \in Message
    BY <1>2 DEF TypeOK, TimeCall, BeginSend, Call, Message
  <2> QED
    BY <1>2, <2>1, BeginCall DEF TimeCall, Call
<1>3. ASSUME NEW c \in Clients, CastMsg(c) PROVE CallInv'
  <2>1. Cast(c, sent[c] + 1) \in Message
    BY <1>3 DEF TypeOK, CastMsg, BeginSend, Cast, Message
  <2> QED
    BY <1>3, <2>1, BeginCall DEF CastMsg, Cast
<1>4. ASSUME NEW m \in Message, Post(m) PROVE CallInv'
  <2>1. /\ posted' = Append(posted, m) /\ sends' = sends \ {m} /\ m \in sends
        /\ waiting' = IF m.kind = "call" THEN waiting \cup {m} ELSE waiting
        /\ res' = res /\ sent' = sent
    BY <1>4 DEF Post
  <2>2. /\ Len(posted') = Len(posted) + 1 /\ posted'[Len(posted) + 1] = m
        /\ \A i \in 1 .. Len(posted) : posted'[i] = posted[i]
        /\ Len(posted) \in Nat
    BY <2>1 DEF TypeOK
  <2>3. m.src \in Clients => m.seq <= sent[m.src]
    BY <2>1 DEF OrderInv, Issued
  <2>4. CallsBegun'
    BY <2>1, <2>3
  <2>5. CallTimeoutNeverPosted'
    BY <2>1, <2>2
  <2> QED
    BY <2>4, <2>5
<1>5. ASSUME NEW m \in Message, CallTimeout(m) PROVE CallInv'
  <2>1. /\ m \in sends /\ m.kind = "call" /\ sends' = sends \ {m}
        /\ res' = [res EXCEPT ![m] = "callTimeout"]
        /\ posted' = posted /\ waiting' = waiting /\ sent' = sent
    BY <1>5 DEF CallTimeout
  <2>2. m.src \in Clients /\ m.seq <= sent[m.src]
    BY <2>1 DEF OrderInv, Issued
  <2>3. \A i \in 1 .. Len(posted) : posted[i] # m
    <3>1. m.seq \in Nat
      BY DEF Message
    <3> QED
      BY <2>1, <3>1 DEF OrderInv, SendOrder
  <2>4. CallsBegun'
    BY <2>1, <2>2 DEF TypeOK
  <2>5. CallTimeoutNeverPosted'
    BY <2>1, <2>3 DEF TypeOK
  <2> QED
    BY <2>4, <2>5
<1>6. ASSUME NEW m \in Message, HandleTimeout(m) \/ RecvReply(m) PROVE CallInv'
  <2>1. /\ m \in waiting /\ waiting' = waiting \ {m}
        /\ \E x \in {"handleTimeout", "ok"} : res' = [res EXCEPT ![m] = x]
        /\ posted' = posted /\ sends' = sends /\ sent' = sent
    BY <1>6 DEF HandleTimeout, RecvReply
  <2> QED
    BY <2>1 DEF TypeOK
<1>7. ASSUME NEW t \in Timers, AfterCast(t) \/ CancelAfter(t) PROVE CallInv'
  BY <1>1, <1>7 DEF AfterCast, CancelAfter, clientVars
<1>8. ASSUME NEW t \in Timers, FireAfter(t) PROVE CallInv'
  <2>1. /\ sends' = sends \cup {Cast(t, 1)}
        /\ Cast(t, 1).kind = "cast" /\ Cast(t, 1).src = t /\ t \notin Clients
        /\ posted' = posted /\ waiting' = waiting /\ res' = res /\ sent' = sent
    BY <1>8 DEF FireAfter, Cast
  <2> QED
    BY <2>1
<1> QED
  <2>1. ASSUME NEW k \in {"start", "stop"}, TickerCmd(k) PROVE CallInv'
    BY <1>1, <2>1 DEF TickerCmd, clientVars
  <2>2. CASE ClientStep
    BY <1>2, <1>3, <1>4, <1>5, <1>6, <1>7, <1>8, <2>1, <2>2 DEF ClientStep
  <2>3. CASE UNCHANGED vars
    BY <1>1, <2>3 DEF vars, clientVars
  <2> QED
    BY <1>1, <2>2, <2>3, LoopKeepsCalls DEF Next

(* The type and the order of the mailbox, together. *)
THEOREM OrderInvariant == Spec => [](TypeOK /\ OrderInv)
BY InitType, StepType, InitOrder, StepOrder, PTL DEF Spec

(* A caller that gets ErrActorCallTimeout may repeat the call: its message *)
(* is not in the mailbox and no goroutine will put it there.               *)
THEOREM RetryIsSafe == Spec => []CallTimeoutNeverPosted
<1>1. Init => CallInv
  BY InitCall
<1>2. TypeOK /\ OrderInv /\ CallInv /\ [Next]_vars => CallInv'
  BY StepCall
<1>3. CallInv => CallTimeoutNeverPosted
  BY DEF CallInv
<1> QED
  BY <1>1, <1>2, <1>3, OrderInvariant, PTL DEF Spec

-----------------------------------------------------------------------------
(* Replies.  The loop has received every message that it works on, that is *)
(* kept or that is answered, and a reply channel is empty until the one    *)
(* reply of its message is put there.                                      *)
Received(m) == \E i \in 1 .. taken : posted[i] = m
AtWork == apc \in {"Handle", "Reply"} /\ cur \in Message

WorkInv ==
  /\ AtWork => Received(cur) /\ (cur \notin kept => from[cur] = {})
  /\ apc = "Reply" => cur \in Message /\ cur \notin kept
KeptInv ==
  /\ \A m \in kept : Received(m)
  /\ \A m \in owed : from[m] = {}
FromInv ==
  \A m \in Message : from[m] \subseteq {m} /\ (from[m] # {} => Received(m))
ReplyInv == WorkInv /\ KeptInv /\ FromInv /\ ReplyMatchesCall

LEMMA InitReply == Init => ReplyInv
BY DEF Init, ReplyInv, WorkInv, KeptInv, FromInv, ReplyMatchesCall, AtWork

(* The mailbox and what was taken from it only grow. *)
LEMMA ReceivedStays ==
  ASSUME TypeOK, [Next]_vars, NEW m, Received(m)
  PROVE  Received(m)'
<1> USE DEF loopVars, mailVars, clientVars, replyVars
<1>1. CASE posted' = posted /\ taken' = taken
  BY <1>1 DEF Received
<1>2. CASE RecvMail
  BY <1>2 DEF RecvMail, Received, TypeOK
<1>3. ASSUME NEW n \in Message, Post(n) PROVE Received(m)'
  <2>1. posted' = Append(posted, n) /\ taken' = taken /\ taken \in 0 .. Len(posted)
    BY <1>3 DEF Post, TypeOK
  <2>2. \A i \in 1 .. Len(posted) : posted'[i] = posted[i]
    BY <2>1 DEF TypeOK
  <2> QED
    BY <2>1, <2>2 DEF Received
<1>4. CASE LoopStep
  BY <1>1, <1>2, <1>4 DEF LoopStep, InitReturn, HandleReturnReply, HandleReturn,
     InitRendezvous, InitPanic, HandlePanic, SendRet, RecvTick, RecvOut,
     RecvInterrupt
<1>5. CASE ClientStep
  BY <1>1, <1>3, <1>5 DEF ClientStep, TimeCall, CastMsg, BeginSend, CallTimeout,
     HandleTimeout, RecvReply, AfterCast, CancelAfter, FireAfter, TickerCmd
<1> QED
  BY <1>1, <1>4, <1>5 DEF Next, InitTimeout, KeepCaller, SendReply, vars

(* A message that the loop receives now it has not received before. *)
LEMMA ReceivedOnce ==
  ASSUME TypeOK, SenderOrder, taken < Len(posted)
  PROVE  ~Received(posted[taken + 1])
<1>1. SUFFICES ASSUME NEW i \in 1 .. taken, posted[i] = posted[taken + 1]
               PROVE  FALSE
  BY DEF Received
<1>2. taken + 1 \in 1 .. Len(posted) /\ i \in 1 .. Len(posted) /\ i < taken + 1
  BY DEF TypeOK
<1>3. posted[i].seq < posted[taken + 1].seq
  BY <1>1, <1>2 DEF SenderOrder
<1>4. posted[i] \in Message
  BY <1>2 DEF TypeOK
<1>5. posted[i].seq \in Nat
  BY <1>4 DEF Message
<1> QED
  BY <1>1, <1>3, <1>5

(* Steps that leave the replies alone and do not begin new work. *)
LEMMA RestReply ==
  ASSUME TypeOK, ReplyInv, [Next]_vars,
         UNCHANGED <<from, got, kept, owed>>,
         \A m \in Message : res'[m] = "ok" => res[m] = "ok",
         UNCHANGED <<apc, cur>> \/ apc' \notin {"Handle", "Reply"} \/ cur' \notin Message
           \/ (apc = "Handle" /\ cur \in Message /\ cur \notin kept /\ UNCHANGED cur),
         apc' = "Reply" => cur' \in Message /\ cur' \notin kept
  PROVE  ReplyInv'
<1>1. WorkInv'
  BY ReceivedStays DEF ReplyInv, WorkInv, AtWork
<1>2. KeptInv'
  BY ReceivedStays DEF ReplyInv, KeptInv
<1>3. FromInv'
  BY ReceivedStays DEF ReplyInv, FromInv
<1>4. ReplyMatchesCall'
  <2>1. \A m \in Message : res[m] = "ok" => Received(m)
    BY DEF ReplyInv, ReplyMatchesCall, Received
  <2>2. \A m \in Message : res[m] = "ok" => Received(m)'
    BY <2>1, ReceivedStays
  <2> QED
    BY <2>2 DEF ReplyInv, ReplyMatchesCall, Received
<1> QED
  BY <1>1, <1>2, <1>3, <1>4 DEF ReplyInv

LEMMA StepReply == TypeOK /\ SenderOrder /\ ReplyInv /\ [Next]_vars => ReplyInv'
<1> SUFFICES ASSUME TypeOK, SenderOrder, ReplyInv, [Next]_vars PROVE ReplyInv'
  OBVIOUS
<1> USE DEF loopVars, mailVars, clientVars, replyVars
<1>0. /\ \A k \in {"none", "tick", "timeout"} : Ev(k) \notin Message
      /\ \A m : Received(m) => Received(m)'
  <2>1. \A k \in {"none", "tick", "timeout"} : Ev(k) \notin Message
    BY DEF Ev, Message
  <2> QED
    BY <2>1, ReceivedStays
<1>1. CASE RecvMail
  <2> PICK m \in Message : m = posted[taken + 1]
    BY <1>1 DEF RecvMail, TypeOK
  <2>1. /\ taken < Len(posted) /\ taken' = taken + 1 /\ posted' = posted
        /\ apc' = "Handle" /\ cur' = m
        /\ UNCHANGED <<from, got, res, kept, owed>>
    BY <1>1 DEF RecvMail
  <2>2. m \in Message /\ taken + 1 \in 1 .. taken'
    BY <2>1 DEF TypeOK
  <2>3. Received(m)'
    BY <2>1, <2>2 DEF Received
  <2>4. ~Received(m)
    BY <2>1, ReceivedOnce
  <2>5. from[m] = {}
    BY <2>2, <2>4 DEF ReplyInv, FromInv
  <2>6. WorkInv'
    BY <2>1, <2>3, <2>5 DEF WorkInv, AtWork
  <2>7. KeptInv'
    BY <1>0, <2>1 DEF ReplyInv, KeptInv
  <2>8. FromInv'
    BY <1>0, <2>1 DEF ReplyInv, FromInv
  <2>9. ReplyMatchesCall'
    BY <1>0, <2>1 DEF ReplyInv, ReplyMatchesCall, Received
  <2> QED
    BY <2>6, <2>7, <2>8, <2>9 DEF ReplyInv
<1>2. CASE KeepCaller
  <2>1. /\ apc = "Handle" /\ AtWork /\ cur \notin kept
        /\ kept' = kept \cup {cur} /\ owed' = owed \cup {cur}
        /\ UNCHANGED <<apc, cur, from, got, res, posted, taken>>
    BY <1>2, <1>0 DEF KeepCaller, AtWork, TypeOK, Event
  <2>2. Received(cur) /\ from[cur] = {}
    BY <2>1 DEF ReplyInv, WorkInv
  <2>3. WorkInv'
    BY <2>1 DEF ReplyInv, WorkInv, AtWork, Received
  <2>4. KeptInv'
    BY <2>1, <2>2 DEF ReplyInv, KeptInv, Received
  <2> QED
    BY <2>1, <2>3, <2>4 DEF ReplyInv, FromInv, ReplyMatchesCall, Received
<1>3. ASSUME NEW m \in Message, SendReply(m) PROVE ReplyInv'
  <2>1. /\ m \in owed /\ m \in kept /\ from[m] = {} /\ Received(m)
        /\ from' = [from EXCEPT ![m] = {m}] /\ owed' = owed \ {m}
        /\ UNCHANGED <<apc, cur, got, res, kept, posted, taken>>
    BY <1>3 DEF SendReply, FromRoom, TypeOK, ReplyInv, KeptInv
  <2>2. \A n \in Message : from'[n] = IF n = m THEN {m} ELSE from[n]
    BY <2>1 DEF TypeOK
  <2>3. WorkInv'
    BY <2>1, <2>2 DEF ReplyInv, WorkInv, AtWork, Received
  <2>4. KeptInv'
    BY <2>1, <2>2 DEF TypeOK, ReplyInv, KeptInv, Received
  <2>5. FromInv'
    BY <2>1, <2>2 DEF ReplyInv, FromInv, Received
  <2> QED
    BY <2>1, <2>3, <2>4, <2>5 DEF ReplyInv, ReplyMatchesCall, Received
<1>4. CASE SendRet
  <2>1. /\ apc = "Reply" /\ cur \in Message /\ cur \notin kept /\ from[cur] = {}
        /\ Received(cur) /\ from' = [from EXCEPT ![cur] = {cur}]
        /\ apc' \in {"Select", "Exited"}
        /\ UNCHANGED <<got, res, kept, owed, posted, taken>>
    BY <1>4 DEF SendRet, FromRoom, Conclude, Continue, ReplyInv, WorkInv, AtWork
  <2>2. \A n \in Message : from'[n] = IF n = cur THEN {cur} ELSE from[n]
    BY <2>1 DEF TypeOK
  <2>3. WorkInv'
    BY <2>1 DEF WorkInv, AtWork
  <2>4. KeptInv'
    BY <2>1, <2>2 DEF TypeOK, ReplyInv, KeptInv, Received
  <2>5. FromInv'
    BY <2>1, <2>2 DEF ReplyInv, FromInv, Received
  <2> QED
    BY <2>1, <2>3, <2>4, <2>5 DEF ReplyInv, ReplyMatchesCall, Received
<1>5. ASSUME NEW m \in Message, RecvReply(m) PROVE ReplyInv'
  <2>0. from[m] = {m} /\ Received(m)
    BY <1>5 DEF RecvReply, ReplyInv, FromInv
  <2>1. /\ res' = [res EXCEPT ![m] = "ok"] /\ got' = [got EXCEPT ![m] = from[m]]
        /\ from' = [from EXCEPT ![m] = {}]
        /\ UNCHANGED <<apc, cur, kept, owed, posted, taken>>
    BY <1>5 DEF RecvReply
  <2>2. /\ \A n \in Message : from'[n] = (IF n = m THEN {} ELSE from[n])
        /\ \A n \in Message : got'[n] = (IF n = m THEN {m} ELSE got[n])
        /\ \A n \in Message : res'[n] = (IF n = m THEN "ok" ELSE res[n])
    BY <2>0, <2>1 DEF TypeOK
  <2>3. WorkInv'
    BY <2>1, <2>2 DEF ReplyInv, WorkInv, AtWork, Received
  <2>4. KeptInv'
    BY <2>1, <2>2 DEF TypeOK, ReplyInv, KeptInv, Received
  <2>5. FromInv'
    BY <2>1, <2>2 DEF ReplyInv, FromInv, Received
  <2>6. ReplyMatchesCall'
    BY <2>0, <2>1, <2>2 DEF ReplyInv, ReplyMatchesCall, Received
  <2> QED
    BY <2>3, <2>4, <2>5, <2>6 DEF ReplyInv
<1>6. ASSUME NEW r \in ActorRet, InitReturn(r) \/ HandleReturnReply(r) \/ HandleReturn(r)
      PROVE  ReplyInv'
  <2>1. CASE InitReturn(r)
    BY <2>1, RestReply DEF InitReturn
  <2>2. CASE HandleReturnReply(r)
    <3>1. cur \in Message
      BY <2>2 DEF HandleReturnReply, TypeOK, Event
    <3> QED
      BY <2>2, <3>1, RestReply DEF HandleReturnReply
  <2>3. CASE HandleReturn(r)
    BY <2>3, RestReply DEF HandleReturn, Conclude, Continue
  <2> QED
    BY <1>6, <2>1, <2>2, <2>3
<1>7. CASE InitRendezvous \/ InitPanic \/ HandlePanic
  BY <1>7, RestReply DEF InitRendezvous, InitPanic, HandlePanic
<1>8. CASE RecvTick \/ RecvOut
  BY <1>8, <1>0, RestReply DEF RecvTick, RecvOut
<1>9. ASSUME NEW k \in {"start", "stop"}, RecvInterrupt(k) PROVE ReplyInv'
  BY <1>9, RestReply DEF RecvInterrupt, Continue
<1>10. CASE apc' = apc /\ cur' = cur /\ UNCHANGED <<from, got, res, kept, owed>>
  BY <1>10, RestReply DEF ReplyInv, WorkInv
<1>11. ASSUME NEW m \in Message, CallTimeout(m) \/ HandleTimeout(m) PROVE ReplyInv'
  BY <1>11, RestReply DEF CallTimeout, HandleTimeout, TypeOK, ReplyInv, WorkInv
<1> QED
  <2>1. CASE ClientStep
    BY <1>5, <1>10, <1>11, <2>1 DEF ClientStep, TimeCall, CastMsg, BeginSend, Post,
       AfterCast, CancelAfter, FireAfter, TickerCmd
  <2>2. CASE LoopStep
    BY <1>1, <1>4, <1>6, <1>7, <1>8, <1>9, <2>2 DEF LoopStep
  <2>3. CASE InitTimeout \/ UNCHANGED vars
    BY <1>10, <2>3 DEF InitTimeout, vars
  <2> QED
    BY <1>2, <1>3, <2>1, <2>2, <2>3 DEF Next

(* Whoever answers a call, the loop in SendRet or a goroutine that kept    *)
(* the caller, finds room in its reply channel, caller or no caller.       *)
THEOREM RepliesNeverBlock == Spec => []ReplyNeverBlocks
<1>1. ReplyInv => ReplyNeverBlocks
  BY DEF ReplyInv, WorkInv, KeptInv, AtWork, ReplyNeverBlocks, FromRoom
<1> QED
  BY <1>1, InitReply, StepReply, OrderInvariant, OrderKept, PTL DEF Spec

(* A call that succeeds got the answer to its own message, which the loop  *)
(* has received.                                                           *)
THEOREM RepliesMatch == Spec => []ReplyMatchesCall
<1>1. ReplyInv => ReplyMatchesCall
  BY DEF ReplyInv
<1> QED
  BY <1>1, InitReply, StepReply, OrderInvariant, OrderKept, PTL DEF Spec

-----------------------------------------------------------------------------
(* Calls of a callback to its own actor.  While one is open the loop stays *)
(* in the callback, so that it has not received the message, and an empty  *)
(* reply channel follows from FromInv.                                     *)
BusyInv ==
  /\ CallbackBusy => apc \in {"Init", "Handle"}
  /\ \A m \in sends \cup waiting : m.src \in Inner => ~Received(m)
  /\ \A m \in Message : m.src \in Inner => res[m] # "ok"

LEMMA InitBusy == Init => BusyInv
BY DEF Init, BusyInv, CallbackBusy

(* Steps that open no call and receive no message. *)
LEMMA RestBusy ==
  ASSUME TypeOK, BusyInv, taken' = taken,
         sends' \cup waiting' \subseteq sends \cup waiting,
         posted' = posted \/ \E n \in Message : posted' = Append(posted, n),
         \A m \in Message : res'[m] = "ok" => res[m] = "ok" \/ m.src \notin Inner,
         apc' = apc \/ ~CallbackBusy
  PROVE  BusyInv'
<1>1. \A m : Received(m)' => Received(m)
  <2>1. taken \in 0 .. Len(posted)
    BY DEF TypeOK
  <2>2. ASSUME NEW n \in Message, posted' = Append(posted, n)
        PROVE  \A i \in 1 .. Len(posted) : posted'[i] = posted[i]
    BY <2>2 DEF TypeOK
  <2>3. \A i \in 1 .. taken : posted'[i] = posted[i]
    BY <2>1, <2>2
  <2> QED
    BY <2>3 DEF Received
<1>2. CallbackBusy' => CallbackBusy
  BY DEF CallbackBusy
<1> QED
  BY <1>1, <1>2 DEF BusyInv

LEMMA BeginBusy ==
  ASSUME TypeOK, OrderInv, BusyInv, NEW c \in Clients, MayUse(c),
         NEW m \in Message, m.src = c, m.seq = sent[c] + 1, BeginSend(c, m)
  PROVE  BusyInv'
<1>1. /\ sends' = sends \cup {m} /\ waiting' = waiting /\ res' = res
      /\ posted' = posted /\ taken' = taken /\ apc' = apc
  BY DEF BeginSend, mailVars, loopVars
<1>2. ~Received(m)
  <2>1. \A i \in 1 .. taken : posted[i].src = c => posted[i].seq <= sent[c]
    <3>1. taken \in 0 .. Len(posted) /\ Len(posted) \in Nat
      BY DEF TypeOK
    <3>2. \A i \in 1 .. Len(posted) :
            posted[i].src \in Clients => posted[i].seq <= sent[posted[i].src]
      BY DEF OrderInv, Issued
    <3>3. \A i \in 1 .. taken : i \in 1 .. Len(posted)
      BY <3>1
    <3> QED
      BY <3>2, <3>3
  <2>2. sent[c] \in Nat
    BY DEF TypeOK
  <2> QED
    BY <2>1, <2>2 DEF Received
<1>3. CallbackBusy' => CallbackBusy \/ c \in Inner
  BY <1>1 DEF CallbackBusy
<1> QED
  BY <1>1, <1>2, <1>3 DEF BusyInv, Received, MayUse

LEMMA StepBusy ==
  ASSUME TypeOK, OrderInv, ReplyInv, BusyInv, [Next]_vars
  PROVE  BusyInv'
<1> USE DEF loopVars, mailVars, clientVars, replyVars
<1>1. CASE RecvMail
  <2>1. apc = "Select" /\ UNCHANGED <<sends, waiting, res>>
    BY <1>1 DEF RecvMail
  <2>2. \A m \in sends \cup waiting : m.src \notin Inner
    BY <2>1 DEF BusyInv, CallbackBusy
  <2> QED
    BY <2>1, <2>2 DEF BusyInv, CallbackBusy
<1>2. ASSUME LoopStep, ~RecvMail PROVE BusyInv'
  <2>1. UNCHANGED <<taken, posted, sends, waiting, res>>
    BY <1>2 DEF LoopStep, InitReturn, HandleReturnReply, HandleReturn,
       InitRendezvous, InitPanic, HandlePanic, SendRet, RecvTick, RecvOut,
       RecvInterrupt
  <2>2. ~CallbackBusy
    BY <1>2 DEF LoopStep, InitReturn, HandleReturnReply, HandleReturn,
       InitRendezvous, InitPanic, HandlePanic, SendRet, RecvTick, RecvOut,
       RecvInterrupt, BusyInv
  <2> QED
    BY <2>1, <2>2, RestBusy
<1>3. ASSUME NEW c \in Clients, TimeCall(c) \/ CastMsg(c) PROVE BusyInv'
  <2>1. Call(c, sent[c] + 1) \in Message /\ Cast(c, sent[c] + 1) \in Message
    BY <1>3 DEF TypeOK, TimeCall, CastMsg, BeginSend, Call, Cast, Message
  <2> QED
    BY <1>3, <2>1, BeginBusy DEF TimeCall, CastMsg, Call, Cast
<1>4. ASSUME NEW m \in Message, Post(m) PROVE BusyInv'
  BY <1>4, RestBusy DEF Post
<1>5. ASSUME NEW m \in Message, CallTimeout(m) \/ HandleTimeout(m) PROVE BusyInv'
  BY <1>5, RestBusy DEF CallTimeout, HandleTimeout, TypeOK
<1>6. ASSUME NEW m \in Message, RecvReply(m) PROVE BusyInv'
  <2>1. m \in waiting /\ Received(m)
    BY <1>6 DEF RecvReply, ReplyInv, FromInv
  <2>2. m.src \notin Inner
    BY <2>1 DEF BusyInv
  <2> QED
    BY <1>6, <2>2, RestBusy DEF RecvReply, TypeOK
<1>7. ASSUME NEW t \in Timers, FireAfter(t) PROVE BusyInv'
  <2>1. /\ sends' = sends \cup {Cast(t, 1)} /\ Cast(t, 1).src \notin Inner
        /\ UNCHANGED <<waiting, res, posted, taken, apc>>
    BY <1>7 DEF FireAfter, Cast
  <2> QED
    BY <2>1 DEF BusyInv, CallbackBusy, Received
<1>8. CASE UNCHANGED <<apc, sends, waiting, res, posted, taken>>
  BY <1>8, RestBusy
<1> QED
  <2>1. CASE ClientStep
    BY <1>3, <1>4, <1>5, <1>6, <1>7, <1>8, <2>1 DEF ClientStep, AfterCast,
       CancelAfter, TickerCmd
  <2> QED
    BY <1>1, <1>2, <1>8, <2>1 DEF Next, InitTimeout, KeepCaller, SendReply, vars

(* What a callback calls its own actor for is never done while it waits:   *)
(* the call ends with a timeout.                                           *)
THEOREM SelfCallsNeverSucceed == Spec => []SelfCallsTimeOut
<1>1. BusyInv => SelfCallsTimeOut
  BY DEF BusyInv, SelfCallsTimeOut, Received
<1>2. Spec => [](TypeOK /\ OrderInv /\ ReplyInv)
  BY InitReply, StepReply, OrderInvariant, OrderKept, PTL DEF Spec
<1> QED
  BY <1>1, <1>2, InitBusy, StepBusy, PTL DEF Spec

-----------------------------------------------------------------------------
(* The actor implements the contract of Rpc, for any number of clients,    *)
(* timers and messages.                                                    *)

(* A call that waits has been posted, and a posted call waits or has ended. *)
WaitInv ==
  /\ \A m \in waiting :
       m.kind = "call" /\ \E i \in 1 .. Len(posted) : posted[i] = m
  /\ \A i \in 1 .. Len(posted) :
       posted[i].kind = "call" =>
         posted[i] \in waiting \/ res[posted[i]] # "none"

LEMMA InitWait == Init => WaitInv
BY DEF Init, WaitInv

LEMMA StepWait == TypeOK /\ OrderInv /\ CallInv /\ WaitInv /\ [Next]_vars => WaitInv'
<1> SUFFICES ASSUME TypeOK, OrderInv, CallInv, WaitInv, [Next]_vars PROVE WaitInv'
  OBVIOUS
<1> USE DEF WaitInv, mailVars, loopVars
<1>1. CASE UNCHANGED <<posted, waiting, res>>
  BY <1>1
<1>2. ASSUME NEW m \in Message, Post(m) PROVE WaitInv'
  <2>1. /\ posted' = Append(posted, m) /\ res' = res
        /\ waiting' = IF m.kind = "call" THEN waiting \cup {m} ELSE waiting
    BY <1>2 DEF Post
  <2>2. /\ Len(posted') = Len(posted) + 1 /\ posted'[Len(posted) + 1] = m
        /\ \A i \in 1 .. Len(posted) : posted'[i] = posted[i]
        /\ Len(posted) \in Nat
    BY <2>1 DEF TypeOK
  <2> QED
    BY <2>1, <2>2
<1>3. ASSUME NEW m \in Message,
             CallTimeout(m) \/ HandleTimeout(m) \/ RecvReply(m)
      PROVE  WaitInv'
  <2>1. /\ waiting \ {m} \subseteq waiting' /\ waiting' \subseteq waiting
        /\ posted' = posted
        /\ \E x \in {"callTimeout", "handleTimeout", "ok"} :
             res' = [res EXCEPT ![m] = x]
    BY <1>3 DEF CallTimeout, HandleTimeout, RecvReply
  <2> QED
    BY <2>1 DEF TypeOK
<1> QED
  <2>1. CASE ClientStep
    BY <1>1, <1>2, <1>3, <2>1 DEF ClientStep, TimeCall, CastMsg, BeginSend,
       AfterCast, CancelAfter, FireAfter, TickerCmd, clientVars
  <2>2. CASE UNCHANGED vars
    BY <1>1, <2>2 DEF vars, clientVars
  <2> QED
    BY <1>1, <2>1, <2>2, LoopKeepsCalls DEF Next

(* All that the steps below need to know of a state. *)
RpcInv == TypeOK /\ OrderInv /\ CallInv /\ ReplyInv /\ WaitInv

LEMMA RpcInvariant == Spec => []RpcInv
<1>1. Init => RpcInv
  BY InitType, InitOrder, InitCall, InitReply, InitWait DEF RpcInv
<1>2. RpcInv /\ [Next]_vars => RpcInv'
  BY StepType, StepOrder, StepCall, StepReply, StepWait DEF RpcInv, OrderInv
<1> QED
  BY <1>1, <1>2, PTL DEF Spec

-----------------------------------------------------------------------------
Posted(m) == \E i \in 1 .. Len(posted) : posted[i] = m

(* A message at the send is not in the mailbox. *)
LEMMA SendingNotPosted == ASSUME RpcInv, NEW m \in sends PROVE ~Posted(m)
<1>1. m.seq \in Nat
  BY DEF RpcInv, TypeOK, Message
<1> QED
  BY <1>1 DEF RpcInv, OrderInv, SendOrder, Posted

LEMMA EndedIs ==
  /\ Ended("none") = "new" /\ Ended("callTimeout") = "notSent"
  /\ Ended("handleTimeout") = "unknown" /\ Ended("ok") = "ok"
BY DEF Ended

(* Steps that neither begin nor end a call nor take one from the mailbox.  *)
LEMMA RpcStutter ==
  ASSUME RpcInv, UNCHANGED <<res, taken>>,
         \A m \in CallMsgs :
           m \in sends' \cup waiting' <=> m \in sends \cup waiting,
         \A i \in 1 .. taken : posted'[i] = posted[i]
  PROVE  UNCHANGED <<Phase, Executed>>
<1>1. Phase' = Phase
  BY DEF Phase
<1>2. Executed' = Executed
  BY DEF Executed, CallMsgs, Message
<1> QED
  BY <1>1, <1>2

LEMMA RpcInit == Init => R!Init
BY EndedIs DEF Init, R!Init, Phase, Executed, CallMsgs

LEMMA RpcStep == RpcInv /\ [Next]_vars => [R!Next]_<<Phase, Executed>>
<1> SUFFICES ASSUME RpcInv, [Next]_vars
             PROVE  R!Next \/ UNCHANGED <<Phase, Executed>>
  OBVIOUS
<1> USE DEF loopVars, mailVars, clientVars, replyVars
<1>1. ASSUME NEW c \in Clients, TimeCall(c) PROVE R!Next
  <2> DEFINE m == Call(c, sent[c] + 1)
  <2>1. m \in CallMsgs
    BY <1>1 DEF RpcInv, TypeOK, TimeCall, BeginSend, Call, Message, CallMsgs
  <2>2. sent[c] \in Nat /\ m.src = c /\ m.seq = sent[c] + 1
    BY DEF RpcInv, TypeOK, Call
  <2>3. m \notin sends \cup waiting /\ res[m] = "none"
    BY <2>1, <2>2 DEF RpcInv, OrderInv, Issued, CallInv, CallsBegun, CallMsgs
  <2>4. /\ sends' = sends \cup {m} /\ waiting' = waiting /\ res' = res
        /\ posted' = posted /\ taken' = taken
    BY <1>1 DEF TimeCall, BeginSend
  <2>5. Phase[m] = "new"
    BY <2>1, <2>3, EndedIs DEF Phase
  <2>6. Phase' = [Phase EXCEPT ![m] = "open"]
    BY <2>1, <2>4 DEF Phase
  <2>7. Executed' = Executed
    BY <2>4 DEF Executed
  <2>8. R!Begin(m)
    BY <2>5, <2>6, <2>7 DEF R!Begin
  <2> QED
    BY <2>1, <2>8 DEF R!Next
<1>2. ASSUME NEW m \in Message, CallTimeout(m) PROVE R!Next
  <2>1. /\ m \in CallMsgs /\ m \in sends /\ sends' = sends \ {m}
        /\ res' = [res EXCEPT ![m] = "callTimeout"]
        /\ waiting' = waiting /\ posted' = posted /\ taken' = taken
    BY <1>2 DEF CallTimeout, CallMsgs
  <2>2. ~Posted(m)
    BY <2>1, SendingNotPosted
  <2>3. m \notin waiting /\ ~Executed[m]
    BY <2>1, <2>2 DEF RpcInv, TypeOK, WaitInv, Posted, Executed
  <2>4. Phase[m] = "open" /\ Phase' = [Phase EXCEPT ![m] = "notSent"]
    BY <2>1, <2>3, EndedIs DEF RpcInv, TypeOK, Phase, CallMsgs
  <2>5. Executed' = Executed
    BY <2>1 DEF Executed
  <2>6. R!Refuse(m)
    BY <2>3, <2>4, <2>5 DEF R!Refuse
  <2> QED
    BY <2>1, <2>6 DEF R!Next
<1>3. ASSUME NEW m \in Message, HandleTimeout(m) \/ RecvReply(m) PROVE R!Next
  <2>1. /\ m \in waiting /\ waiting' = waiting \ {m}
        /\ sends' = sends /\ posted' = posted /\ taken' = taken
    BY <1>3 DEF HandleTimeout, RecvReply
  <2>2. m \in CallMsgs /\ Posted(m)
    BY <2>1 DEF RpcInv, WaitInv, CallMsgs, Posted
  <2>3. m \notin sends
    BY <2>2, SendingNotPosted
  <2>4. Executed' = Executed
    BY <2>1 DEF Executed
  <2>5. Phase[m] = "open"
    BY <2>1, <2>2 DEF Phase
  <2>6. CASE HandleTimeout(m)
    <3>1. res' = [res EXCEPT ![m] = "handleTimeout"]
      BY <2>6 DEF HandleTimeout
    <3>2. Phase' = [Phase EXCEPT ![m] = "unknown"]
      BY <2>1, <2>3, <3>1, EndedIs DEF RpcInv, TypeOK, Phase, CallMsgs
    <3> QED
      BY <2>2, <2>4, <2>5, <3>2 DEF R!GiveUp, R!Next
  <2>7. CASE RecvReply(m)
    <3>1. res' = [res EXCEPT ![m] = "ok"] /\ from[m] # {}
      BY <2>7 DEF RecvReply
    <3>2. Phase' = [Phase EXCEPT ![m] = "ok"]
      BY <2>1, <2>3, <3>1, EndedIs DEF RpcInv, TypeOK, Phase, CallMsgs
    <3>3. Executed[m]
      BY <2>2, <3>1 DEF RpcInv, ReplyInv, FromInv, Received, Executed
    <3> QED
      BY <2>2, <2>4, <2>5, <3>2, <3>3 DEF R!Answer, R!Next
  <2> QED
    BY <1>3, <2>6, <2>7
<1>4. CASE RecvMail
  <2> PICK m \in Message : m = posted[taken + 1]
    BY <1>4 DEF RecvMail, RpcInv, TypeOK
  <2>1. /\ taken \in Nat /\ taken + 1 \in 1 .. Len(posted) /\ taken' = taken + 1
        /\ UNCHANGED <<posted, sends, waiting, res>>
    BY <1>4 DEF RecvMail, RpcInv, TypeOK
  <2>2. Phase' = Phase
    BY <2>1 DEF Phase
  <2>3. ~Received(m)
    BY <2>1, ReceivedOnce DEF RpcInv, OrderInv
  <2>4. \A n : Received(n)' <=> Received(n) \/ n = m
    BY <2>1 DEF Received
  <2>5. CASE m \in CallMsgs
    <3>1. Executed' = [Executed EXCEPT ![m] = TRUE] /\ ~Executed[m]
      BY <2>3, <2>4, <2>5 DEF Executed, Received
    <3>2. m \notin sends
      BY <2>1, SendingNotPosted DEF Posted
    <3>3. /\ m \in waiting \/ res[m] # "none"
          /\ res[m] # "callTimeout" /\ res[m] # "ok"
      BY <2>1, <2>3, <2>5 DEF RpcInv, WaitInv, CallInv, CallTimeoutNeverPosted,
         ReplyInv, ReplyMatchesCall, Received, CallMsgs
    <3>4. Phase[m] \in {"open", "unknown"}
      BY <2>5, <3>2, <3>3, EndedIs DEF RpcInv, TypeOK, Phase
    <3> QED
      BY <2>2, <2>5, <3>1, <3>4 DEF R!Execute, R!Next
  <2>6. CASE m \notin CallMsgs
    <3>1. Executed' = Executed
      BY <2>4, <2>6 DEF Executed, Received, CallMsgs
    <3> QED
      BY <2>2, <3>1
  <2> QED
    BY <2>5, <2>6
<1>5. ASSUME NEW c \in Clients, CastMsg(c) PROVE UNCHANGED <<Phase, Executed>>
  BY <1>5, RpcStutter DEF CastMsg, BeginSend, Cast, CallMsgs
<1>6. ASSUME NEW t \in Timers, FireAfter(t) PROVE UNCHANGED <<Phase, Executed>>
  BY <1>6, RpcStutter DEF FireAfter, Cast, CallMsgs
<1>7. ASSUME NEW m \in Message, Post(m) PROVE UNCHANGED <<Phase, Executed>>
  <2>1. /\ m \in sends /\ sends' = sends \ {m} /\ posted' = Append(posted, m)
        /\ waiting' = IF m.kind = "call" THEN waiting \cup {m} ELSE waiting
        /\ UNCHANGED <<res, taken>>
    BY <1>7 DEF Post
  <2>2. \A i \in 1 .. taken : posted'[i] = posted[i]
    BY <2>1 DEF RpcInv, TypeOK
  <2>3. \A n \in CallMsgs :
          n \in sends' \cup waiting' <=> n \in sends \cup waiting
    BY <2>1 DEF CallMsgs
  <2> QED
    BY <2>1, <2>2, <2>3, RpcStutter
<1>8. CASE UNCHANGED <<posted, taken, sends, waiting, res>>
  BY <1>8, RpcStutter
<1> QED
  <2>1. CASE ClientStep
    BY <1>1, <1>2, <1>3, <1>5, <1>6, <1>7, <1>8, <2>1
       DEF ClientStep, AfterCast, CancelAfter, TickerCmd
  <2>2. CASE LoopStep
    BY <1>4, <1>8, <2>2, LoopKeepsCalls DEF LoopStep, InitReturn, HandleReturnReply,
       HandleReturn, InitRendezvous, InitPanic, HandlePanic, SendRet, RecvTick,
       RecvOut, RecvInterrupt
  <2>3. CASE InitTimeout \/ KeepCaller \/ \E m \in Message : SendReply(m)
    BY <1>8, <2>3 DEF InitTimeout, KeepCaller, SendReply
  <2>4. CASE UNCHANGED vars
    BY <1>8, <2>4 DEF vars
  <2> QED
    BY <2>1, <2>2, <2>3, <2>4 DEF Next

(* TimeCall keeps the contract of Rpc: executed at most once, answered     *)
(* only after execution, never executed after ErrActorCallTimeout.         *)
THEOREM CallsImplementRpc == Spec => ImplementsRpc
<1>1. Init => R!Init
  BY RpcInit
<1>2. RpcInv /\ [Next]_vars => [R!Next]_<<Phase, Executed>>
  BY RpcStep
<1> QED
  BY <1>1, <1>2, RpcInvariant, PTL DEF Spec, ImplementsRpc, R!Spec
=============================================================================
