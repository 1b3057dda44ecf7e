------------------------------- MODULE Actor -------------------------------
(***************************************************************************)
(* One actor of gen/actor.go: the goroutine that runs `loop`, the          *)
(* goroutine that called Start, the goroutines that Call and Cast, the     *)
(* timer goroutines of AfterCast, the goroutines spawned by StartTicker    *)
(* and StopTicker, and whoever answers a call later with SendReply.        *)
(*                                                                         *)
(* Channels.  Mailbox is buffered; its history is kept whole: `posted` is  *)
(* everything ever put into it and `taken` how much the loop received, so  *)
(* the buffer is posted[taken+1 .. Len(posted)].  The reply channel of a   *)
(* call holds one value (`from`).  InterruptBox and initRetCh are          *)
(* unbuffered: a send and its receive are one step.                        *)
(*                                                                         *)
(* Time.  A timer that has been armed may fire at any moment.              *)
(*                                                                         *)
(* The handler H is the user's code: what it returns, whether it keeps the *)
(* caller to answer later, and whether it panics are free choices.         *)
(* Log calls are left out (see the README).                                *)
(***************************************************************************)
EXTENDS Integers, Sequences

CONSTANTS
  Clients,       \* goroutines that Call and Cast
  Inner,         \* those of them that are the loop goroutine itself, in a
                 \* callback of H that calls or casts to its own actor
  Timers,        \* AfterCast timers, each used once
  Nobody,        \* the source of what is not a message
  MaxSends,      \* bound: messages per client
  MaxTickerCmds, \* bound: StartTicker and StopTicker calls
  MailboxCap,    \* capacity of Mailbox (1000 in Start)
  DefaultOut,    \* whether Actor.DefaultOut is non-zero
  Panics,        \* which callbacks of H may panic
  LoopOn         \* the first result of handleRet and handleInteruput on
                 \* which doLoop keeps the loop going.  The code is TRUE:
                 \* doLoop passes it on unchanged.  FALSE is the reading of
                 \* `loop` itself, which negates the same result.

ASSUME ActorAssumption ==
  /\ Clients \cap Timers = {} /\ Inner \subseteq Clients
  /\ Nobody \notin Clients \cup Timers
  /\ MaxSends \in Nat \ {0}
  /\ MaxTickerCmds \in Nat
  /\ MailboxCap \in Nat \ {0}
  /\ DefaultOut \in BOOLEAN
  /\ Panics \subseteq {"init", "handle", "stop"}
  /\ LoopOn \in BOOLEAN

VARIABLES
  apc,      \* where the loop goroutine is
  cur,      \* what Handle, Tick or Timeout is working on
  ret,      \* the ActorRet that is about to be sent (Init's or a call's)
  ticker,   \* doLoop's ticker # nil
  out,      \* doLoop's out # nil
  stops,    \* how often H.Stop has been called
  start,    \* the goroutine in Start: its select, or how it returned
  posted,   \* everything ever sent to Mailbox, in order
  taken,    \* how many of them the loop has received
  sends,    \* messages whose goroutine is at the send to Mailbox
  waiting,  \* calls whose goroutine is in TimeCall's inner select
  sent,     \* how many messages each client has started
  res,      \* how TimeCall returned
  from,     \* contents of each call's reply channel: the calls answered
  got,      \* what the caller received from it
  kept,     \* calls whose caller the handler kept (and returns CallNoRep)
  owed,     \* those of them it has not answered yet
  timers,   \* the AfterCast timers
  intr      \* goroutines of safeSendTicker waiting at InterruptBox

loopVars   == <<apc, cur, ret, ticker, out, stops>>
mailVars   == <<posted, taken>>
clientVars == <<sends, waiting, sent, res, got>>
replyVars  == <<from, kept, owed>>
vars == <<loopVars, start, mailVars, clientVars, replyVars, timers, intr>>

-----------------------------------------------------------------------------
Message == [src : Clients \cup Timers, seq : 1 .. MaxSends,
            kind : {"call", "cast"}]
Call(c, n) == [src |-> c, seq |-> n, kind |-> "call"]
Cast(c, n) == [src |-> c, seq |-> n, kind |-> "cast"]

Event == [src : {Nobody}, seq : {0}, kind : {"none", "tick", "timeout"}]
Ev(k) == [src |-> Nobody, seq |-> 0, kind |-> k]

(* ActorRet, what the loop looks at: isStopped and whether time is non-zero. *)
NewGenRet  == [isStopped |-> FALSE, tm |-> FALSE]
NewTimeRet == [isStopped |-> FALSE, tm |-> TRUE]
NewStopRet == [isStopped |-> TRUE, tm |-> FALSE]
ActorRet == {NewGenRet, NewTimeRet, NewStopRet}

(* outTimer(d): a timer for d, else for DefaultOut, else none. *)
OutTimer(tm) == tm \/ DefaultOut

MailboxRoom == Len(posted) - taken < MailboxCap

(* Mutant: an unbuffered reply channel, ready only while the caller receives. *)
FromRoomUnbuffered(m) == m \in waiting

(* from is made with a buffer of one. *)
FromRoom(m) == from[m] = {}

Alive == apc # "Crashed"

(* The loop goroutine is in a call or a send that its callback has made. *)
CallbackBusy == \E m \in sends \cup waiting : m.src \in Inner

Init ==
  /\ apc = "Init" /\ cur = Ev("none") /\ ret = NewGenRet
  /\ ticker = FALSE /\ out = FALSE /\ stops = 0
  /\ start = "waiting"
  /\ posted = <<>> /\ taken = 0
  /\ sends = {} /\ waiting = {}
  /\ sent = [c \in Clients |-> 0]
  /\ res = [m \in Message |-> "none"]
  /\ from = [m \in Message |-> {}]
  /\ got = [m \in Message |-> {}]
  /\ kept = {} /\ owed = {}
  /\ timers = [t \in Timers |-> "unset"]
  /\ intr = [start |-> 0, stop |-> 0]

-----------------------------------------------------------------------------
(* handleRet on a result r with the ticker tk: H.Stop, or the next timers. *)
HandleRet(tk, r) ==
  IF r.isStopped
  THEN stops' = stops + 1 /\ ticker' = FALSE /\ out' = FALSE
  ELSE stops' = stops /\ ticker' = tk /\ out' = OutTimer(r.tm)

(* Where doLoop's result sends the loop. *)
Continue(first) == apc' = IF first = LoopOn THEN "Select" ELSE "Exited"

(* The end of a doLoop iteration whose callback returned r.  When H.Stop    *)
(* panics, the recover of doLoop leaves its named results (true, nil, nil). *)
Conclude(r) ==
  /\ cur' = Ev("none") /\ ret' = NewGenRet
  /\ HandleRet(ticker, r)
  /\ \/ Continue(r.isStopped)
     \/ r.isStopped /\ "stop" \in Panics /\ apc' = "Select"

(* H.Init returns. *)
InitReturn(r) ==
  /\ apc = "Init" /\ ~CallbackBusy
  /\ apc' = "InitSend" /\ ret' = r
  /\ UNCHANGED <<cur, ticker, out, stops, start, mailVars, clientVars,
                 replyVars, timers, intr>>

(* Mutant: initRetCh with a buffer of one, so that nobody need receive. *)
InitRendezvousBuffered ==
  /\ apc = "InitSend"
  /\ start' = IF start = "waiting" THEN "returned" ELSE start
  /\ HandleRet(FALSE, ret)
  /\ cur' = Ev("none") /\ ret' = NewGenRet
  /\ apc' = IF ret.isStopped THEN "Exited" ELSE "Select"
  /\ UNCHANGED <<mailVars, clientVars, replyVars, timers, intr>>

(* loop meets Start's select at initRetCh and runs handleRet; a panic of   *)
(* H.Stop here is outside doLoop's recover and ends the process.           *)
InitRendezvous ==
  /\ apc = "InitSend" /\ start = "waiting"
  /\ start' = "returned"
  /\ HandleRet(FALSE, ret)
  /\ cur' = Ev("none") /\ ret' = NewGenRet
  /\ \/ apc' = IF ret.isStopped THEN "Exited" ELSE "Select"
     \/ ret.isStopped /\ "stop" \in Panics /\ apc' = "Crashed"
  /\ UNCHANGED <<mailVars, clientVars, replyVars, timers, intr>>

(* H.Init panics: nothing recovers, the process dies. *)
InitPanic ==
  /\ apc = "Init" /\ "init" \in Panics /\ ~CallbackBusy
  /\ apc' = "Crashed"
  /\ UNCHANGED <<cur, ret, ticker, out, stops, start, mailVars, clientVars,
                 replyVars, timers, intr>>

(* GenInitTimeout passes in Start. *)
InitTimeout ==
  /\ start = "waiting" /\ start' = "timedOut"
  /\ UNCHANGED <<loopVars, mailVars, clientVars, replyVars, timers, intr>>

-----------------------------------------------------------------------------
(* The select of loopWithTickOut, loopWithTick, loopWithOut and simpleLoop: *)
(* the four differ in which of ticker and out are there to be received.     *)

(* Mutant: InterruptBox closed while the loop still selects on it. *)
RecvInterruptClosed(k) ==
  /\ apc = "Select"
  /\ intr' = [intr EXCEPT ![k] = @ - 1]
  /\ ticker' = (k = "start") /\ out' = OutTimer(FALSE)
  /\ Continue(FALSE)
  /\ UNCHANGED <<cur, ret, stops, start, mailVars, clientVars, replyVars,
                 timers>>

RecvInterrupt(k) ==
  /\ apc = "Select" /\ intr[k] > 0
  /\ intr' = [intr EXCEPT ![k] = @ - 1]
  /\ ticker' = (k = "start") /\ out' = OutTimer(FALSE)
  /\ Continue(FALSE)
  /\ UNCHANGED <<cur, ret, stops, start, mailVars, clientVars, replyVars,
                 timers>>

(* Mutant: the mailbox is looked at only when no ticker runs. *)
RecvMailAfterTicks ==
  /\ apc = "Select" /\ taken < Len(posted) /\ ~ticker
  /\ taken' = taken + 1
  /\ cur' = posted[taken + 1] /\ apc' = "Handle"
  /\ UNCHANGED <<ret, ticker, out, stops, start, posted, clientVars,
                 replyVars, timers, intr>>

RecvMail ==
  /\ apc = "Select" /\ taken < Len(posted)
  /\ taken' = taken + 1
  /\ cur' = posted[taken + 1] /\ apc' = "Handle"
  /\ UNCHANGED <<ret, ticker, out, stops, start, posted, clientVars,
                 replyVars, timers, intr>>

RecvTick ==
  /\ apc = "Select" /\ ticker
  /\ cur' = Ev("tick") /\ apc' = "Handle"
  /\ UNCHANGED <<ret, ticker, out, stops, start, mailVars, clientVars,
                 replyVars, timers, intr>>

RecvOut ==
  /\ apc = "Select" /\ out
  /\ out' = FALSE
  /\ cur' = Ev("timeout") /\ apc' = "Handle"
  /\ UNCHANGED <<ret, ticker, stops, start, mailVars, clientVars,
                 replyVars, timers, intr>>

-----------------------------------------------------------------------------
(* The handler keeps ctx.Caller() of the call it works on; it will return  *)
(* CallNoRep and answer once with SendReply, before or after returning.    *)
KeepCaller ==
  /\ apc = "Handle" /\ cur.kind = "call" /\ cur \notin kept /\ ~CallbackBusy
  /\ kept' = kept \cup {cur} /\ owed' = owed \cup {cur}
  /\ UNCHANGED <<loopVars, start, mailVars, clientVars, from, timers, intr>>

(* Mutant: handleMail puts the caller into a ctx shared by all handlers. *)
SendReplyShared(m) ==
  LET to == IF cur.kind = "call" THEN cur ELSE m IN
  /\ m \in owed /\ FromRoom(to)
  /\ from' = [from EXCEPT ![to] = @ \cup {m}]
  /\ owed' = owed \ {m}
  /\ UNCHANGED <<loopVars, start, mailVars, clientVars, kept, timers, intr>>

SendReply(m) ==
  /\ m \in owed /\ FromRoom(m)
  /\ from' = [from EXCEPT ![m] = @ \cup {m}]
  /\ owed' = owed \ {m}
  /\ UNCHANGED <<loopVars, start, mailVars, clientVars, kept, timers, intr>>

(* Handle returns a value for a call whose caller was not kept: handleMail *)
(* is about to send it.                                                     *)
HandleReturnReply(r) ==
  /\ apc = "Handle" /\ cur.kind = "call" /\ cur \notin kept /\ ~CallbackBusy
  /\ apc' = "Reply" /\ ret' = r
  /\ UNCHANGED <<cur, ticker, out, stops, start, mailVars, clientVars,
                 replyVars, timers, intr>>

(* SendRet, then handleRet. *)
SendRet ==
  /\ apc = "Reply" /\ FromRoom(cur)
  /\ from' = [from EXCEPT ![cur] = @ \cup {cur}]
  /\ Conclude(ret)
  /\ UNCHANGED <<start, mailVars, clientVars, kept, owed, timers, intr>>

(* Mutant: H.Handle in a goroutine of its own: the loop goes on without it. *)
HandleReturnSpawned(r) ==
  /\ apc = "Handle" /\ (cur.kind = "call" => cur \in kept)
  /\ Conclude(r)
  /\ UNCHANGED <<start, mailVars, clientVars, replyVars, timers, intr>>

(* CallNoRep, a cast, a tick or a timeout: nothing to send. *)
HandleReturn(r) ==
  /\ apc = "Handle" /\ (cur.kind = "call" => cur \in kept) /\ ~CallbackBusy
  /\ Conclude(r)
  /\ UNCHANGED <<start, mailVars, clientVars, replyVars, timers, intr>>

(* Handle, Tick, Timeout or typeName of a nil message panics: doLoop       *)
(* recovers with (true, nil, nil), no reply is sent, the timers are gone.  *)
HandlePanic ==
  /\ apc = "Handle" /\ "handle" \in Panics /\ ~CallbackBusy
  /\ apc' = "Select" /\ ticker' = FALSE /\ out' = FALSE
  /\ cur' = Ev("none")
  /\ UNCHANGED <<ret, stops, start, mailVars, clientVars, replyVars, timers,
                 intr>>

-----------------------------------------------------------------------------
(* Goroutines that use the actor. *)

Idle(c) == \A m \in sends \cup waiting : m.src # c

(* A goroutine is free to call; a callback is while the loop is in it. *)
MayUse(c) ==
  /\ Idle(c)
  /\ c \in Inner => apc \in {"Init", "Handle"} /\ ~CallbackBusy

BeginSend(c, m) ==
  /\ sent[c] < MaxSends
  /\ sent' = [sent EXCEPT ![c] = @ + 1]
  /\ sends' = sends \cup {m}
  /\ UNCHANGED <<loopVars, start, mailVars, waiting, res, got, replyVars,
                 timers, intr>>

(* Mutant: Cast through spawnSafeSendChan, returning before the send. *)
CastMsgSpawned(c) == BeginSend(c, Cast(c, sent[c] + 1))

(* TimeCall and Cast up to the send; the goroutine stays in it. *)
TimeCall(c) == MayUse(c) /\ BeginSend(c, Call(c, sent[c] + 1))
CastMsg(c)  == MayUse(c) /\ BeginSend(c, Cast(c, sent[c] + 1))

(* A send to Mailbox goes through: a call then waits for its reply. *)
Post(m) ==
  /\ m \in sends /\ MailboxRoom
  /\ posted' = Append(posted, m)
  /\ sends' = sends \ {m}
  /\ waiting' = IF m.kind = "call" THEN waiting \cup {m} ELSE waiting
  /\ UNCHANGED <<loopVars, start, taken, sent, res, got, replyVars, timers,
                 intr>>

(* Mutant: one last try to send, without waiting, when the timer fires. *)
CallTimeoutLastTry(m) ==
  /\ m \in sends /\ m.kind = "call"
  /\ sends' = sends \ {m}
  /\ posted' = IF MailboxRoom THEN Append(posted, m) ELSE posted
  /\ res' = [res EXCEPT ![m] = "callTimeout"]
  /\ UNCHANGED <<loopVars, start, taken, waiting, sent, got, replyVars, timers,
                 intr>>

(* overTimer fires in the outer select: ErrActorCallTimeout. *)
CallTimeout(m) ==
  /\ m \in sends /\ m.kind = "call"
  /\ sends' = sends \ {m}
  /\ res' = [res EXCEPT ![m] = "callTimeout"]
  /\ UNCHANGED <<loopVars, start, mailVars, waiting, sent, got, replyVars,
                 timers, intr>>

(* Mutant: the same error code as the outer select. *)
HandleTimeoutSameCode(m) ==
  /\ m \in waiting
  /\ waiting' = waiting \ {m}
  /\ res' = [res EXCEPT ![m] = "callTimeout"]
  /\ UNCHANGED <<loopVars, start, mailVars, sends, sent, got, replyVars,
                 timers, intr>>

(* Mutant: no timer in the inner select. *)
HandleTimeoutNever(m) == FALSE

(* overTimer fires in the inner select: ErrActorHandleTimeout. *)
HandleTimeout(m) ==
  /\ m \in waiting
  /\ waiting' = waiting \ {m}
  /\ res' = [res EXCEPT ![m] = "handleTimeout"]
  /\ UNCHANGED <<loopVars, start, mailVars, sends, sent, got, replyVars,
                 timers, intr>>

(* The reply arrives. *)
RecvReply(m) ==
  /\ m \in waiting /\ from[m] # {}
  /\ waiting' = waiting \ {m}
  /\ res' = [res EXCEPT ![m] = "ok"]
  /\ got' = [got EXCEPT ![m] = from[m]]
  /\ from' = [from EXCEPT ![m] = {}]
  /\ UNCHANGED <<loopVars, start, mailVars, sends, sent, kept, owed, timers,
                 intr>>

(* AfterCast arms a timer; Stop of the ActorTimer cancels it; when it      *)
(* fires, its goroutine is at the send.                                    *)
AfterCast(t) ==
  /\ timers[t] = "unset"
  /\ timers' = [timers EXCEPT ![t] = "armed"]
  /\ UNCHANGED <<loopVars, start, mailVars, clientVars, replyVars, intr>>

CancelAfter(t) ==
  /\ timers[t] = "armed"
  /\ timers' = [timers EXCEPT ![t] = "stopped"]
  /\ UNCHANGED <<loopVars, start, mailVars, clientVars, replyVars, intr>>

FireAfter(t) ==
  /\ timers[t] = "armed"
  /\ timers' = [timers EXCEPT ![t] = "fired"]
  /\ sends' = sends \cup {Cast(t, 1)}
  /\ UNCHANGED <<loopVars, start, mailVars, waiting, sent, res, got,
                 replyVars, intr>>

(* StartTicker and StopTicker spawn safeSendTicker, which waits at         *)
(* InterruptBox.  Its test of IsStopped never sends it away: only Actor.stop *)
(* sets the flag, and nothing calls Actor.stop.                            *)
TickerCmd(k) ==
  /\ intr.start + intr.stop < MaxTickerCmds
  /\ intr' = [intr EXCEPT ![k] = @ + 1]
  /\ UNCHANGED <<loopVars, start, mailVars, clientVars, replyVars, timers>>

-----------------------------------------------------------------------------
LoopStep ==
  \/ \E r \in ActorRet : InitReturn(r) \/ HandleReturnReply(r) \/ HandleReturn(r)
  \/ InitRendezvous \/ InitPanic \/ HandlePanic \/ SendRet
  \/ RecvMail \/ RecvTick \/ RecvOut
  \/ \E k \in {"start", "stop"} : RecvInterrupt(k)

ClientStep ==
  \/ \E c \in Clients : TimeCall(c) \/ CastMsg(c)
  \/ \E m \in Message :
       Post(m) \/ CallTimeout(m) \/ HandleTimeout(m) \/ RecvReply(m)
  \/ \E t \in Timers : AfterCast(t) \/ CancelAfter(t) \/ FireAfter(t)
  \/ \E k \in {"start", "stop"} : TickerCmd(k)

Next ==
  /\ Alive
  /\ \/ LoopStep
     \/ InitTimeout
     \/ KeepCaller
     \/ \E m \in Message : SendReply(m)
     \/ ClientStep

(* Timers fire, the loop goroutine is scheduled and callbacks return.  The  *)
(* select picks among its ready cases at random, so a message that stays    *)
(* ready is received in the end however many ticks come with it.            *)
Fairness ==
  /\ WF_vars(Alive /\ LoopStep)
  /\ SF_vars(Alive /\ RecvMail)
  /\ \A m \in Message :
       WF_vars(Alive /\ (CallTimeout(m) \/ HandleTimeout(m)))

Spec == Init /\ [][Next]_vars /\ Fairness

-----------------------------------------------------------------------------
TypeOK ==
  /\ apc \in {"Init", "InitSend", "Select", "Handle", "Reply", "Exited",
              "Crashed"}
  /\ cur \in Message \cup Event
  /\ ret \in ActorRet
  /\ ticker \in BOOLEAN /\ out \in BOOLEAN /\ stops \in Nat
  /\ start \in {"waiting", "returned", "timedOut"}
  /\ posted \in Seq(Message) /\ taken \in 0 .. Len(posted)
  /\ sends \subseteq Message /\ waiting \subseteq Message
  /\ sent \in [Clients -> 0 .. MaxSends]
  /\ res \in [Message -> {"none", "callTimeout", "handleTimeout", "ok"}]
  /\ from \in [Message -> SUBSET Message]
  /\ got \in [Message -> SUBSET Message]
  /\ kept \subseteq Message /\ owed \subseteq kept
  /\ timers \in [Timers -> {"unset", "armed", "stopped", "fired"}]
  /\ intr \in [{"start", "stop"} -> 0 .. MaxTickerCmds]

(* Cast and TimeCall return only when the message is in the mailbox or     *)
(* given up, so the actor receives what one goroutine sends in the order   *)
(* it was sent, and nothing twice, however many goroutines and AfterCast   *)
(* timers compete for a full mailbox.                                      *)
SenderOrder ==
  \A i, j \in 1 .. Len(posted) :
    i < j /\ posted[i].src = posted[j].src => posted[i].seq < posted[j].seq

(* ErrActorCallTimeout (not ErrActorHandleTimeout) tells the caller that   *)
(* the actor does not have the message and never will: it may be retried.  *)
CallTimeoutNeverPosted ==
  \A m \in Message :
    res[m] = "callTimeout" =>
      m \notin sends /\ \A i \in 1 .. Len(posted) : posted[i] # m

(* The loop goroutine in SendRet and whoever calls SendReply find room in  *)
(* the reply channel, also when the caller timed out and nobody receives.  *)
ReplyNeverBlocks ==
  /\ apc = "Reply" => FromRoom(cur)
  /\ \A m \in owed : FromRoom(m)

(* A TimeCall that returns a value returns the answer to its own message,  *)
(* which the loop has received, also when the answer was deferred and the  *)
(* loop has worked on other calls since.                                   *)
ReplyMatchesCall ==
  \A m \in Message :
    /\ got[m] \subseteq {m}
    /\ res[m] = "ok" => \E i \in 1 .. taken : posted[i] = m

(* After Start has returned ErrActorInitTimeout the actor handles nothing  *)
(* and is not stopped either: its goroutine stays at initRetCh.            *)
NoServiceAfterInitTimeout ==
  start = "timedOut" => taken = 0 /\ stops = 0

(* A callback that calls its own actor gets one of the two timeouts and    *)
(* never an answer: the loop receives its message, if it was posted, only  *)
(* when the callback has given it up, and then executes it all the same.   *)
SelfCallsTimeOut ==
  \A m \in Message : m.src \in Inner =>
    /\ res[m] # "ok"
    /\ m \in waiting => \A i \in 1 .. taken : posted[i] # m

(* Every TimeCall returns, whatever the actor does.                        *)
CallReturns ==
  \A m \in Message :
    (m.kind = "call" /\ m \in sends \cup waiting)
      ~> (m \notin sends \cup waiting \/ ~Alive)

(* A callback casts to its own actor while the mailbox is full: Cast has no *)
(* timer, and nobody else receives.                                        *)
StuckInCast ==
  ~MailboxRoom /\ \E m \in sends : m.src \in Inner /\ m.kind = "cast"

(* A message in the mailbox is received as long as the loop runs, also     *)
(* when ticks and ticker commands keep the select busy, and also when a    *)
(* callback calls its own actor and can only wait for the timer.  A Cast   *)
(* in that place would wait for ever.                                      *)
PostedIsServed ==
  \A m \in Message :
    (\E i \in 1 .. Len(posted) : posted[i] = m)
      ~> \/ \E i \in 1 .. taken : posted[i] = m
         \/ apc \in {"Exited", "Crashed"} \/ start = "timedOut"
         \/ StuckInCast

(* The comment of callNoReply: returning it "does not block gen_server",  *)
(* so an actor none of whose callbacks asked to stop and that deferred a   *)
(* reply is still there.  And once one has asked with a "gen stop sendRet" *)
(* (comment of NewStopRet), nothing is received any more.                  *)
ServesUntilStopped ==
  /\ apc = "Exited" /\ stops = 0 => kept = {}
  /\ apc = "Handle" => stops = 0
=============================================================================
