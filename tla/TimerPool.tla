----------------------------- MODULE TimerPool -----------------------------
(***************************************************************************)
(* timerpool: GetTimer and PutTimer, used the way Writer.Write uses them:  *)
(* one goroutine gets a timer, selects on it, and puts it back.            *)
(*                                                                         *)
(* The timers are those of the Go version in go.mod (1.21): the runtime    *)
(* takes an expired timer off its heap, unlocks, and only then sends the   *)
(* tick to C, which holds one; Stop in between finds the timer gone and C  *)
(* empty.  A tick is the number of the arming it belongs to.               *)
(***************************************************************************)
EXTENDS Integers, FiniteSets

CONSTANTS
  Users,    \* goroutines, as in Write
  Timers,   \* timers that can be made
  NoTimer,
  MaxArmed  \* bound: armings of one timer

ASSUME TimerPoolAssumption == NoTimer \notin Timers /\ MaxArmed \in Nat \ {0}

VARIABLES
  pool,     \* globalTimerPool
  made,     \* timers in existence
  armed,    \* timers on the runtime's heap
  arming,   \* how often each timer has been armed
  flight,   \* ticks the runtime is about to send
  chan,     \* C of each timer: a tick, or 0
  pc,       \* where each goroutine is
  timer,    \* the timer it uses
  early,    \* goroutines that received the tick of another arming
  raced     \* timers that PutTimer drained while a tick was on its way

rtVars   == <<armed, arming, flight, chan>>
userVars == <<pc, timer, early, raced>>
vars == <<pool, made, rtVars, userVars>>

Init ==
  /\ pool = {} /\ made = {} /\ armed = {}
  /\ arming = [t \in Timers |-> 0]
  /\ flight = [t \in Timers |-> {}]
  /\ chan = [t \in Timers |-> 0]
  /\ pc = [u \in Users |-> "idle"]
  /\ timer = [u \in Users |-> NoTimer]
  /\ early = {} /\ raced = {}

-----------------------------------------------------------------------------
(* NewTimer and Reset both arm t for u. *)
Arm(u, t) ==
  /\ arming[t] < MaxArmed
  /\ arming' = [arming EXCEPT ![t] = @ + 1]
  /\ armed' = armed \cup {t}
  /\ pc' = [pc EXCEPT ![u] = "select"]
  /\ timer' = [timer EXCEPT ![u] = t]
  /\ UNCHANGED <<flight, chan, early, raced>>

(* Mutant: GetTimer returns the pooled timer without Reset. *)
GetPooledUnreset(u, t) ==
  /\ pc[u] = "idle" /\ t \in pool
  /\ pool' = pool \ {t}
  /\ pc' = [pc EXCEPT ![u] = "select"]
  /\ timer' = [timer EXCEPT ![u] = t]
  /\ UNCHANGED <<made, rtVars, early, raced>>

GetPooled(u, t) ==
  /\ pc[u] = "idle" /\ t \in pool
  /\ pool' = pool \ {t}
  /\ Arm(u, t)
  /\ UNCHANGED made

(* sync.Pool may find nothing also when there is something. *)
GetNew(u, t) ==
  /\ pc[u] = "idle" /\ t \notin made
  /\ made' = made \cup {t}
  /\ Arm(u, t)
  /\ UNCHANGED pool

(* The select of Write: the timer, or the other case. *)
RecvTick(u) ==
  /\ pc[u] = "select" /\ chan[timer[u]] # 0
  /\ chan' = [chan EXCEPT ![timer[u]] = 0]
  /\ early' = IF chan[timer[u]] = arming[timer[u]] THEN early
              ELSE early \cup {u}
  /\ pc' = [pc EXCEPT ![u] = "stop"]
  /\ UNCHANGED <<pool, made, armed, arming, flight, timer, raced>>

OtherCase(u) ==
  /\ pc[u] = "select"
  /\ pc' = [pc EXCEPT ![u] = "stop"]
  /\ UNCHANGED <<pool, made, rtVars, timer, early, raced>>

(* Mutant: PutTimer drains without stopping. *)
StopOmitted(u) ==
  /\ pc[u] = "stop"
  /\ pc' = [pc EXCEPT ![u] = "drain"]
  /\ UNCHANGED <<pool, made, rtVars, timer, early, raced>>

(* PutTimer: Stop; what it returns decides whether C is drained. *)
Stop(u) ==
  /\ pc[u] = "stop"
  /\ armed' = armed \ {timer[u]}
  /\ pc' = [pc EXCEPT ![u] = IF timer[u] \in armed THEN "put" ELSE "drain"]
  /\ UNCHANGED <<pool, made, arming, flight, chan, timer, early, raced>>

(* Mutant: no drain. *)
DrainOmitted(u) ==
  /\ pc[u] = "drain"
  /\ pc' = [pc EXCEPT ![u] = "put"]
  /\ raced' = IF flight[timer[u]] = {} THEN raced ELSE raced \cup {timer[u]}
  /\ UNCHANGED <<pool, made, rtVars, timer, early>>

Drain(u) ==
  /\ pc[u] = "drain"
  /\ chan' = [chan EXCEPT ![timer[u]] = 0]
  /\ pc' = [pc EXCEPT ![u] = "put"]
  /\ raced' = IF flight[timer[u]] = {} THEN raced ELSE raced \cup {timer[u]}
  /\ UNCHANGED <<pool, made, armed, arming, flight, timer, early>>

(* Mutant: the reference is cleared before the timer is put back. *)
PutCleared(u) ==
  /\ pc[u] = "put"
  /\ timer' = [timer EXCEPT ![u] = NoTimer]
  /\ pool' = pool \cup {timer'[u]}
  /\ pc' = [pc EXCEPT ![u] = "idle"]
  /\ early' = early \ {u}
  /\ UNCHANGED <<made, rtVars, raced>>

Put(u) ==
  /\ pc[u] = "put"
  /\ pool' = pool \cup {timer[u]}
  /\ pc' = [pc EXCEPT ![u] = "idle"]
  /\ timer' = [timer EXCEPT ![u] = NoTimer]
  /\ early' = early \ {u}
  /\ UNCHANGED <<made, rtVars, raced>>

-----------------------------------------------------------------------------
(* The runtime, and the collector emptying the pool. *)
Expire(t) ==
  /\ t \in armed
  /\ armed' = armed \ {t}
  /\ flight' = [flight EXCEPT ![t] = @ \cup {arming[t]}]
  /\ UNCHANGED <<pool, made, arming, chan, userVars>>

SendTick(t, k) ==
  /\ k \in flight[t]
  /\ flight' = [flight EXCEPT ![t] = @ \ {k}]
  /\ chan' = [chan EXCEPT ![t] = IF @ = 0 THEN k ELSE @]
  /\ UNCHANGED <<pool, made, armed, arming, userVars>>

Collect(t) ==
  /\ t \in pool
  /\ pool' = pool \ {t}
  /\ UNCHANGED <<made, rtVars, userVars>>

-----------------------------------------------------------------------------
Runtime(t) == Expire(t) \/ \E k \in 1 .. MaxArmed : SendTick(t, k)
User(u) == RecvTick(u) \/ Stop(u) \/ Drain(u) \/ Put(u)

Next ==
  \/ \E u \in Users : User(u) \/ OtherCase(u)
  \/ \E u \in Users, t \in Timers : GetPooled(u, t) \/ GetNew(u, t)
  \/ \E t \in Timers : Runtime(t) \/ Collect(t)

(* Timers expire, ticks arrive and goroutines run; the other case of the   *)
(* select may never be ready.                                              *)
Fairness ==
  /\ \A t \in Timers : WF_vars(Runtime(t))
  /\ \A u \in Users : WF_vars(User(u))

Spec == Init /\ [][Next]_vars /\ Fairness

-----------------------------------------------------------------------------
TypeOK ==
  /\ pool \subseteq made /\ made \subseteq Timers /\ armed \subseteq made
  /\ arming \in [Timers -> 0 .. MaxArmed]
  /\ flight \in [Timers -> SUBSET (1 .. MaxArmed)]
  /\ chan \in [Timers -> 0 .. MaxArmed]
  /\ pc \in [Users -> {"idle", "select", "stop", "drain", "put"}]
  /\ timer \in [Users -> Timers \cup {NoTimer}]
  /\ early \subseteq Users /\ raced \subseteq Timers

(* A timer in the pool is on nobody's hands and will not expire: what the  *)
(* next GetTimer returns is armed by it alone.                             *)
PooledAtRest ==
  /\ pool \cap armed = {}
  /\ \A u \in Users : timer[u] \notin pool
  /\ \A u, v \in Users : timer[u] = timer[v] => u = v \/ timer[u] = NoTimer

(* A goroutine times out by the tick of an earlier use only with a timer   *)
(* that once expired in the middle of PutTimer: a tick that had arrived by  *)
(* then never reaches the next user.                                       *)
EarlyOnlyWhenRaced == \A u \in early : timer[u] \in raced

(* Who selects on a timer of the pool gets a tick in the end, or its other *)
(* case: draining never swallows the tick of the current arming.           *)
SelectEnds == \A u \in Users : (pc[u] = "select") ~> (pc[u] # "select")
=============================================================================
