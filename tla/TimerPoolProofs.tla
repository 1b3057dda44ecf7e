-------------------------- MODULE TimerPoolProofs --------------------------
(***************************************************************************)
(* Theorems about TimerPool, for any goroutines and timers and any number  *)
(* of armings.                                                             *)
(***************************************************************************)
EXTENDS TimerPool, TLAPS

USE TimerPoolAssumption

(* Whose timer is where: an idle goroutine has none, PutTimer has stopped  *)
(* what it is about to drain or to put back, and what is armed is in use.  *)
Held ==
  /\ \A u \in Users : timer[u] = NoTimer <=> pc[u] = "idle"
  /\ \A u \in Users : timer[u] # NoTimer => timer[u] \in made
  /\ \A u \in Users : pc[u] \in {"drain", "put"} => timer[u] \notin armed
  /\ \A t \in armed : \E u \in Users : timer[u] = t /\ pc[u] \in {"select", "stop"}
  /\ \A t \in armed : arming[t] # 0

Quiet(t) == flight[t] = {} /\ chan[t] = 0

(* Ticks of a timer that has not raced: only those of the current arming,  *)
(* none while it is armed, none where GetTimer may take it from.           *)
Fresh(t) ==
  /\ flight[t] \subseteq {arming[t]} /\ chan[t] \in {0, arming[t]}
  /\ t \in armed => Quiet(t)
  /\ (\A u \in Users : timer[u] = t => pc[u] = "put") => Quiet(t)

Ticks == \A t \in Timers : t \in raced \/ Fresh(t)

Inv == TypeOK /\ Held /\ PooledAtRest /\ Ticks /\ EarlyOnlyWhenRaced

LEMMA InitInv == Init => Inv
BY DEF Init, Inv, TypeOK, Held, PooledAtRest, Ticks, Fresh, Quiet, EarlyOnlyWhenRaced

(* Arming a timer that nobody has. *)
LEMMA ArmInv ==
  ASSUME Inv, NEW u \in Users, NEW t \in Timers, pc[u] = "idle",
         \A v \in Users : timer[v] # t, Arm(u, t),
         made' = made \cup {t}, pool' = pool \ {t}
  PROVE  Inv'
<1> USE DEF Inv
<1>1. /\ arming' = [arming EXCEPT ![t] = @ + 1] /\ armed' = armed \cup {t}
      /\ pc' = [pc EXCEPT ![u] = "select"] /\ timer' = [timer EXCEPT ![u] = t]
      /\ flight' = flight /\ chan' = chan /\ early' = early /\ raced' = raced
      /\ arming[t] \in 0 .. MaxArmed /\ arming[t] < MaxArmed
  BY DEF Arm, TypeOK
<1>2. TypeOK'
  BY <1>1 DEF TypeOK
<1>3. \A v \in Users : /\ timer'[v] = (IF v = u THEN t ELSE timer[v])
                       /\ pc'[v] = (IF v = u THEN "select" ELSE pc[v])
  BY <1>1 DEF TypeOK
<1>4. Held'
  BY <1>1, <1>3 DEF Held, TypeOK
<1>5. PooledAtRest'
  BY <1>1, <1>3 DEF PooledAtRest, TypeOK
<1>6. t \in raced \/ Quiet(t)
  BY DEF Ticks, Fresh
<1>7. ASSUME NEW s \in Timers, s \notin raced PROVE Fresh(s)'
  <2>1. CASE s = t
    BY <1>1, <1>3, <1>6, <1>7, <2>1 DEF Fresh, Quiet, TypeOK
  <2>2. CASE s # t
    <3>1. Fresh(s)
      BY <1>7 DEF Ticks
    <3>2. arming'[s] = arming[s] /\ (s \in armed' <=> s \in armed)
      BY <1>1, <2>2 DEF TypeOK
    <3>3. (\A v \in Users : timer'[v] = s => pc'[v] = "put")
            => \A v \in Users : timer[v] = s => pc[v] = "put"
      <4>1. timer[u] # s
        BY DEF Held, TypeOK
      <4> QED
        BY <1>3, <2>2, <4>1
    <3> QED
      BY <1>1, <3>1, <3>2, <3>3 DEF Fresh, Quiet
  <2> QED
    BY <2>1, <2>2
<1>8. EarlyOnlyWhenRaced'
  BY <1>1, <1>3 DEF EarlyOnlyWhenRaced, Held, TypeOK
<1> QED
  BY <1>1, <1>2, <1>4, <1>5, <1>7, <1>8 DEF Ticks

LEMMA StepInv == Inv /\ [Next]_vars => Inv'
<1> SUFFICES ASSUME Inv, [Next]_vars PROVE Inv'
  OBVIOUS
<1> USE DEF Inv, rtVars, userVars
<1>1. ASSUME NEW u \in Users, NEW t \in Timers, GetPooled(u, t) \/ GetNew(u, t)
      PROVE  Inv'
  <2>1. CASE GetPooled(u, t)
    BY <2>1, ArmInv DEF GetPooled, PooledAtRest, TypeOK
  <2>2. CASE GetNew(u, t)
    BY <2>2, ArmInv DEF GetNew, Held, TypeOK
  <2> QED
    BY <1>1, <2>1, <2>2
<1>2. ASSUME NEW u \in Users, RecvTick(u) \/ OtherCase(u) PROVE Inv'
  <2> DEFINE t == timer[u]
  <2>1. /\ pc[u] = "select" /\ t \in Timers /\ t \in made
        /\ pc' = [pc EXCEPT ![u] = "stop"]
        /\ \/ chan' = [chan EXCEPT ![t] = 0]
           \/ chan' = chan
        /\ \/ early' = early
           \/ early' = early \cup {u} /\ chan[t] # 0 /\ chan[t] # arming[t]
        /\ UNCHANGED <<pool, made, armed, arming, flight, timer, raced>>
    BY <1>2 DEF RecvTick, OtherCase, Held, TypeOK
  <2> HIDE DEF t
  <2>2. TypeOK'
    BY <2>1 DEF TypeOK
  <2>3. \A v \in Users : pc'[v] = (IF v = u THEN "stop" ELSE pc[v])
    BY <2>1 DEF TypeOK
  <2>4. Held'
    BY <2>1, <2>3 DEF Held
  <2>5. PooledAtRest'
    BY <2>1 DEF PooledAtRest
  <2>6. \A s \in Timers : chan'[s] = chan[s] \/ (s = t /\ chan'[s] = 0)
    BY <2>1 DEF TypeOK
  <2>7. ASSUME NEW s \in Timers, s \notin raced PROVE Fresh(s)'
    BY <2>1, <2>3, <2>6, <2>7 DEF Ticks, Fresh, Quiet
  <2>8. EarlyOnlyWhenRaced'
    BY <2>1 DEF EarlyOnlyWhenRaced, Ticks, Fresh, t
  <2> QED
    BY <2>1, <2>2, <2>4, <2>5, <2>7, <2>8 DEF Ticks
<1>3. ASSUME NEW u \in Users, Stop(u) PROVE Inv'
  <2> DEFINE t == timer[u]
             to == IF t \in armed THEN "put" ELSE "drain"
  <2>1. /\ pc[u] = "stop" /\ t \in Timers /\ t \in made
        /\ pc' = [pc EXCEPT ![u] = to] /\ armed' = armed \ {t}
        /\ UNCHANGED <<pool, made, arming, flight, chan, timer, early, raced>>
    BY <1>3 DEF Stop, Held, TypeOK
  <2>2. TypeOK'
    BY <2>1 DEF TypeOK
  <2>3. \A v \in Users : pc'[v] = (IF v = u THEN to ELSE pc[v])
    BY <2>1 DEF TypeOK
  <2>4. \A v \in Users : timer[v] = t => v = u
    BY <2>1 DEF PooledAtRest
  <2>5. Held'
    BY <2>1, <2>3, <2>4 DEF Held
  <2>6. PooledAtRest'
    BY <2>1 DEF PooledAtRest
  <2>7. ASSUME NEW s \in Timers, s \notin raced PROVE Fresh(s)'
    <3>1. Fresh(s)
      BY <2>7 DEF Ticks
    <3>2. CASE s # t
      BY <2>1, <2>3, <3>1, <3>2 DEF Fresh, Quiet
    <3>3. CASE s = t
      BY <2>1, <2>3, <3>1, <3>3 DEF Fresh, Quiet
    <3> QED
      BY <3>2, <3>3
  <2>8. EarlyOnlyWhenRaced'
    BY <2>1 DEF EarlyOnlyWhenRaced
  <2> QED
    BY <2>1, <2>2, <2>5, <2>6, <2>7, <2>8 DEF Ticks
<1>4. ASSUME NEW u \in Users, Drain(u) PROVE Inv'
  <2> DEFINE t == timer[u]
  <2>1. /\ pc[u] = "drain" /\ t \in Timers /\ t \in made
        /\ pc' = [pc EXCEPT ![u] = "put"] /\ chan' = [chan EXCEPT ![t] = 0]
        /\ raced' = IF flight[t] = {} THEN raced ELSE raced \cup {t}
        /\ UNCHANGED <<pool, made, armed, arming, flight, timer, early>>
    BY <1>4 DEF Drain, Held, TypeOK
  <2> HIDE DEF t
  <2>2. TypeOK'
    BY <2>1 DEF TypeOK
  <2>3. /\ \A v \in Users : pc'[v] = (IF v = u THEN "put" ELSE pc[v])
        /\ \A s \in Timers : chan'[s] = IF s = t THEN 0 ELSE chan[s]
    BY <2>1 DEF TypeOK
  <2>4. t \notin armed
    BY <2>1 DEF Held, t
  <2>5. Held'
    BY <2>1, <2>3, <2>4 DEF Held, t
  <2>6. PooledAtRest'
    BY <2>1 DEF PooledAtRest
  <2>7. ASSUME NEW s \in Timers, s \notin raced' PROVE Fresh(s)'
    <3>1. Fresh(s)
      BY <2>1, <2>7 DEF Ticks
    <3>2. CASE s # t
      BY <2>1, <2>3, <3>1, <3>2 DEF Fresh, Quiet, t
    <3>3. CASE s = t
      BY <2>1, <2>3, <2>4, <2>7, <3>1, <3>3 DEF Fresh, Quiet
    <3> QED
      BY <3>2, <3>3
  <2>8. EarlyOnlyWhenRaced'
    BY <2>1 DEF EarlyOnlyWhenRaced
  <2> QED
    BY <2>2, <2>5, <2>6, <2>7, <2>8 DEF Ticks
<1>5. ASSUME NEW u \in Users, Put(u) PROVE Inv'
  <2> DEFINE t == timer[u]
  <2>1. /\ pc[u] = "put" /\ t \in Timers /\ t \in made /\ t \notin armed
        /\ pc' = [pc EXCEPT ![u] = "idle"] /\ timer' = [timer EXCEPT ![u] = NoTimer]
        /\ pool' = pool \cup {t} /\ early' = early \ {u}
        /\ UNCHANGED <<made, armed, arming, flight, chan, raced>>
    BY <1>5 DEF Put, Held, TypeOK
  <2>2. TypeOK'
    BY <2>1 DEF TypeOK
  <2>3. \A v \in Users : /\ timer'[v] = (IF v = u THEN NoTimer ELSE timer[v])
                         /\ pc'[v] = (IF v = u THEN "idle" ELSE pc[v])
    BY <2>1 DEF TypeOK
  <2>4. \A v \in Users : timer[v] = t => v = u
    BY <2>1 DEF PooledAtRest
  <2>5. Held'
    BY <2>1, <2>3 DEF Held
  <2>6. PooledAtRest'
    BY <2>1, <2>3, <2>4 DEF PooledAtRest, TypeOK
  <2>7. ASSUME NEW s \in Timers, s \notin raced PROVE Fresh(s)'
    <3>1. Fresh(s)
      BY <2>7 DEF Ticks
    <3>2. (\A v \in Users : timer'[v] = s => pc'[v] = "put")
            => \A v \in Users : timer[v] = s => pc[v] = "put"
      BY <2>1, <2>3
    <3> QED
      BY <2>1, <3>1, <3>2 DEF Fresh, Quiet
  <2>8. EarlyOnlyWhenRaced'
    BY <2>1, <2>3 DEF EarlyOnlyWhenRaced, TypeOK
  <2> QED
    BY <2>1, <2>2, <2>5, <2>6, <2>7, <2>8 DEF Ticks
<1>6. ASSUME NEW t \in Timers, Expire(t) PROVE Inv'
  <2>1. /\ t \in armed /\ armed' = armed \ {t} /\ arming[t] \in 0 .. MaxArmed
        /\ flight' = [flight EXCEPT ![t] = @ \cup {arming[t]}]
        /\ UNCHANGED <<pool, made, arming, chan, pc, timer, early, raced>>
    BY <1>6 DEF Expire, TypeOK
  <2>2. arming[t] # 0
    BY <2>1 DEF Held
  <2>3. TypeOK'
    BY <2>1, <2>2 DEF TypeOK
  <2>4. Held'
    BY <2>1 DEF Held
  <2>5. PooledAtRest'
    BY <2>1 DEF PooledAtRest
  <2>6. PICK u \in Users : timer[u] = t /\ pc[u] \in {"select", "stop"}
    BY <2>1 DEF Held
  <2>7. ASSUME NEW s \in Timers, s \notin raced PROVE Fresh(s)'
    BY <2>1, <2>6, <2>7 DEF Ticks, Fresh, Quiet, TypeOK
  <2> QED
    BY <2>1, <2>3, <2>4, <2>5, <2>7 DEF Ticks, EarlyOnlyWhenRaced
<1>7. ASSUME NEW t \in Timers, NEW k \in 1 .. MaxArmed, SendTick(t, k) PROVE Inv'
  <2>1. /\ k \in flight[t] /\ flight' = [flight EXCEPT ![t] = @ \ {k}]
        /\ chan' = [chan EXCEPT ![t] = IF @ = 0 THEN k ELSE @]
        /\ UNCHANGED <<pool, made, armed, arming, pc, timer, early, raced>>
    BY <1>7 DEF SendTick
  <2>2. TypeOK'
    BY <2>1 DEF TypeOK
  <2>3. ASSUME NEW s \in Timers, s \notin raced PROVE Fresh(s)'
    BY <2>1, <2>3 DEF Ticks, Fresh, Quiet, TypeOK
  <2> QED
    BY <2>1, <2>2, <2>3 DEF Ticks, EarlyOnlyWhenRaced, Held, PooledAtRest
<1>8. ASSUME NEW t \in Timers, Collect(t) PROVE Inv'
  BY <1>8 DEF Collect, TypeOK, Held, PooledAtRest, Ticks, Fresh, Quiet, EarlyOnlyWhenRaced
<1>9. CASE UNCHANGED vars
  BY <1>9 DEF vars, TypeOK, Held, PooledAtRest, Ticks, Fresh, Quiet, EarlyOnlyWhenRaced
<1> QED
  BY <1>1, <1>2, <1>3, <1>4, <1>5, <1>6, <1>7, <1>8, <1>9 DEF Next, User, Runtime

LEMMA Invariant == Spec => []Inv
BY InitInv, StepInv, PTL DEF Spec

-----------------------------------------------------------------------------
(* Every variable of the pool and its timers keeps its type.               *)
THEOREM TypeCorrect == Spec => []TypeOK
<1>1. Inv => TypeOK
  BY DEF Inv
<1> QED
  BY <1>1, Invariant, PTL

(* What GetTimer finds in the pool is stopped, and nobody else has it.     *)
THEOREM PooledTimersRest == Spec => []PooledAtRest
<1>1. Inv => PooledAtRest
  BY DEF Inv
<1> QED
  BY <1>1, Invariant, PTL

(* A tick of an earlier use ends a wait only if the timer expired in the   *)
(* middle of PutTimer.                                                     *)
THEOREM StaleTicksWereRaces == Spec => []EarlyOnlyWhenRaced
<1>1. Inv => EarlyOnlyWhenRaced
  BY DEF Inv
<1> QED
  BY <1>1, Invariant, PTL
=============================================================================
