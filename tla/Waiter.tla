------------------------------ MODULE Waiter ------------------------------
(***************************************************************************)
(* gen/wg.go: the registry AllWaiters and the WaitGroups it hands out.     *)
(*                                                                         *)
(* A WaitGroup is a number, 1 for the first one made.  A goroutine that    *)
(* has obtained a Waiter keeps it, so an operation on a Waiter may happen  *)
(* at any later time; AddAndSpawnExec, Wait and Done by key are            *)
(* FetchWaiter followed by the operation on what it found.  An operation   *)
(* on a key that is not there, or on NilWaiter, only logs.                 *)
(*                                                                         *)
(* A unit is one count of a WaitGroup and the work it stands for.  Users   *)
(* end each unit they Add once: with Run, DoneOne or Done by key.  Done by *)
(* key goes to the WaitGroup the key stands for by then, whoever's that is.*)
(***************************************************************************)
EXTENDS Integers, Sequences, FiniteSets

CONSTANTS
  NewKeys,        \* keys given to NewWaiter
  MayKeys,        \* keys given to MayWaiter
  Units,          \* units of work, each used once
  Waits,          \* calls of Wait and WaitInfinity, each used once
  NewCallers,     \* goroutines that call NewWaiter
  MaxWaiters      \* bound: WaitGroups made

ASSUME WaiterAssumption ==
  /\ IsFiniteSet(Units)
  /\ MaxWaiters \in Nat

VARIABLES
  registry, \* AllWaiters: the WaitGroup of each key, 0 when absent
  keyOf,    \* the key each WaitGroup was made for
  live,     \* WaitGroups stored for their key and not deleted since
  storing,  \* <<n, k>>: NewWaiter found k absent and has not stored yet
  count,    \* the counter of each WaitGroup
  unit,     \* where each unit is
  on,       \* the WaitGroup of each unit, 0 before
  caller,   \* where each caller of Wait and WaitInfinity is
  sleep,    \* the goroutine in wg.Wait: the caller's, or Wait's helper
  target,   \* the WaitGroup waited for
  seen,     \* the units that were not done when the call began
  fate,     \* "up", or why the process ended
  exposed,  \* history: WaitGroups stored while a NewWaiter of their key had
            \* found it absent and not stored yet
  strayed   \* history: WaitGroups that a Done by key counted down for units
            \* of another one, and those it should have counted down

regVars  == <<registry, keyOf, live, storing, exposed>>
unitVars == <<unit, on>>
waitVars == <<caller, target, seen>>
vars == <<regVars, count, unitVars, waitVars, sleep, fate, strayed>>

-----------------------------------------------------------------------------
Keys == NewKeys \cup MayKeys
WaitGroups == 1 .. MaxWaiters
Made == 1 .. Len(keyOf)
UnitsOf(w) == {u \in Units : on[u] = w /\ unit[u] # "done"}

Init ==
  /\ registry = [k \in Keys |-> 0] /\ keyOf = <<>>
  /\ live = {} /\ storing = {}
  /\ count = [w \in WaitGroups |-> 0]
  /\ unit = [u \in Units |-> "new"] /\ on = [u \in Units |-> 0]
  /\ caller = [x \in Waits |-> "none"] /\ sleep = [x \in Waits |-> "none"]
  /\ target = [x \in Waits |-> 0] /\ seen = [x \in Waits |-> {}]
  /\ fate = "up"
  /\ exposed = {} /\ strayed = {}

-----------------------------------------------------------------------------
(* sync.WaitGroup.Add: zero wakes those who wait, below zero panics.  None  *)
(* of the callers recovers: the process dies.                               *)
WgAdd(w, n) ==
  /\ count' = [count EXCEPT ![w] = @ + n]
  /\ fate' = IF count[w] + n < 0 THEN "negative" ELSE fate
  /\ sleep' = [x \in Waits |->
       IF count[w] + n = 0 /\ target[x] = w /\ sleep[x] = "blocked"
       THEN "woken" ELSE sleep[x]]

NoWg == UNCHANGED <<count, fate, sleep>>

-----------------------------------------------------------------------------
(* The registry. *)

(* AllWaiters.Store of a WaitGroup that has just been made. *)
StoreNew(k) ==
  LET new == Len(keyOf) + 1 IN
  /\ new <= MaxWaiters
  /\ keyOf' = Append(keyOf, k)
  /\ registry' = [registry EXCEPT ![k] = new]
  /\ live' = live \cup {new}
  /\ exposed' = IF \E s \in storing' : s[2] = k THEN exposed \cup {new}
                ELSE exposed

(* Mutant: what Load finds is not looked at. *)
NewWaiterLoadUnchecked(n, k) ==
  /\ \A k2 \in Keys : <<n, k2>> \notin storing
  /\ storing' = storing \cup {<<n, k>>}
  /\ UNCHANGED <<registry, keyOf, live, exposed, strayed>>
  /\ UNCHANGED <<count, fate, sleep, unitVars, waitVars>>

(* NewWaiter up to Load: a key in use ends the process (Fatalf). *)
NewWaiterLoad(n, k) ==
  /\ \A k2 \in Keys : <<n, k2>> \notin storing
  /\ IF registry[k] # 0
     THEN fate' = "fatal" /\ UNCHANGED storing
     ELSE storing' = storing \cup {<<n, k>>} /\ UNCHANGED fate
  /\ UNCHANGED <<registry, keyOf, live, exposed, strayed>>
  /\ UNCHANGED <<count, sleep, unitVars, waitVars>>

NewWaiterStore(n, k) ==
  /\ <<n, k>> \in storing
  /\ storing' = storing \ {<<n, k>>}
  /\ StoreNew(k)
  /\ UNCHANGED <<unitVars, waitVars, strayed>> /\ NoWg

(* Mutant: Load and Store instead of LoadOrStore, the Store late. *)
MayWaiterTwoSteps(k) ==
  /\ UNCHANGED <<storing, unitVars, waitVars, strayed>> /\ NoWg
  /\ StoreNew(k)

(* MayWaiter of a key that is absent (LoadOrStore is one step); of a key   *)
(* that is there it only returns what it found.                            *)
MayWaiter(k) ==
  /\ registry[k] = 0
  /\ UNCHANGED <<storing, unitVars, waitVars, strayed>> /\ NoWg
  /\ StoreNew(k)

DelWaiter(k) ==
  /\ registry[k] # 0
  /\ registry' = [registry EXCEPT ![k] = 0]
  /\ live' = live \ {registry[k]}
  /\ UNCHANGED <<keyOf, storing, exposed, unitVars, waitVars, strayed>> /\ NoWg

-----------------------------------------------------------------------------
(* Units. *)

(* Mutant: Add is left to the goroutine, after the work. *)
AddAndSpawnExecLate(w, u) ==
  /\ unit[u] = "new"
  /\ unit' = [unit EXCEPT ![u] = "running"]
  /\ on' = [on EXCEPT ![u] = w]
  /\ UNCHANGED <<regVars, waitVars, strayed>> /\ NoWg

(* AddAndSpawnExec: count, then start the goroutine. *)
AddAndSpawnExec(w, u) ==
  /\ unit[u] = "new"
  /\ unit' = [unit EXCEPT ![u] = "running"]
  /\ on' = [on EXCEPT ![u] = w]
  /\ WgAdd(w, 1)
  /\ UNCHANGED <<regVars, waitVars, strayed>>

(* Add(n) for the n units of U. *)
AddUnits(w, U) ==
  /\ \A u \in U : unit[u] = "new"
  /\ unit' = [u \in Units |-> IF u \in U THEN "added" ELSE unit[u]]
  /\ on' = [u \in Units |-> IF u \in U THEN w ELSE on[u]]
  /\ WgAdd(w, Cardinality(U))
  /\ UNCHANGED <<regVars, waitVars, strayed>>

Run(u) ==
  /\ unit[u] = "added"
  /\ unit' = [unit EXCEPT ![u] = "running"]
  /\ UNCHANGED <<regVars, on, waitVars, strayed>> /\ NoWg

(* mainFunc returns, or panics and is recovered. *)
WorkEnds(u, how) ==
  /\ unit[u] = "running"
  /\ unit' = [unit EXCEPT ![u] = how]
  /\ UNCHANGED <<regVars, on, waitVars, strayed>> /\ NoWg

(* mainFunc never returns. *)
WorkHangs(u) ==
  /\ unit[u] = "running"
  /\ unit' = [unit EXCEPT ![u] = "hung"]
  /\ UNCHANGED <<regVars, on, waitVars, strayed>> /\ NoWg

(* Mutant: done after mainFunc instead of in the deferred function. *)
WorkDoneUndeferred(u) ==
  /\ unit[u] = "returned"
  /\ unit' = [unit EXCEPT ![u] = "done"]
  /\ WgAdd(on[u], -1)
  /\ UNCHANGED <<regVars, on, waitVars, strayed>>

(* Mutant: work that panics is counted down by the recover and again. *)
WorkDoneTwice(u) ==
  /\ unit[u] \in {"returned", "panicked"}
  /\ unit' = [unit EXCEPT ![u] = IF @ = "panicked" THEN "returned" ELSE "done"]
  /\ WgAdd(on[u], -1)
  /\ UNCHANGED <<regVars, on, waitVars, strayed>>

(* w.done in the deferred function. *)
WorkDone(u) ==
  /\ unit[u] \in {"returned", "panicked"}
  /\ unit' = [unit EXCEPT ![u] = "done"]
  /\ WgAdd(on[u], -1)
  /\ UNCHANGED <<regVars, on, waitVars, strayed>>

(* DoneOne by a goroutine that kept the Waiter. *)
DoneOne(u) ==
  /\ unit[u] = "added"
  /\ unit' = [unit EXCEPT ![u] = "done"]
  /\ WgAdd(on[u], -1)
  /\ UNCHANGED <<regVars, on, waitVars, strayed>>

(* Done(key, n) for the n units of U, which were added to a WaitGroup of   *)
(* this key: it counts down what the key stands for now, if anything.      *)
Done(k, U) ==
  LET strays == {u \in U : on[u] # registry[k]} IN
  /\ \A u \in U : unit[u] = "added" /\ keyOf[on[u]] = k
  /\ unit' = [u \in Units |-> IF u \in U THEN "done" ELSE unit[u]]
  /\ IF registry[k] # 0 THEN WgAdd(registry[k], -Cardinality(U)) ELSE NoWg
  /\ strayed' = strayed \cup {on[u] : u \in strays}
                  \cup {w \in Made : strays # {} /\ w = registry[k]}
  /\ UNCHANGED <<regVars, on, waitVars>>

-----------------------------------------------------------------------------
(* Waiting. *)

(* WaitInfinity ("infinity") or Wait ("timed", which starts its helper). *)
WaitBegin(x, w, how) ==
  /\ caller[x] = "none"
  /\ caller' = [caller EXCEPT ![x] = how]
  /\ sleep' = [sleep EXCEPT ![x] = "entering"]
  /\ target' = [target EXCEPT ![x] = w]
  /\ seen' = [seen EXCEPT ![x] = UnitsOf(w)]
  /\ UNCHANGED <<regVars, count, unitVars, fate, strayed>>

(* sync.WaitGroup.Wait looks at the counter. *)
WgWaitEnter(x) ==
  /\ sleep[x] = "entering"
  /\ sleep' = [sleep EXCEPT
       ![x] = IF count[target[x]] = 0 THEN "passed" ELSE "blocked"]
  /\ UNCHANGED <<regVars, count, unitVars, waitVars, fate, strayed>>

(* It looks again when woken, and panics when the counter has moved on.    *)
WgWaitWake(x) ==
  /\ sleep[x] = "woken"
  /\ IF count[target[x]] # 0
     THEN fate' = "reused" /\ UNCHANGED sleep
     ELSE sleep' = [sleep EXCEPT ![x] = "passed"] /\ UNCHANGED fate
  /\ UNCHANGED <<regVars, count, unitVars, waitVars, strayed>>

(* wg.Wait returned to WaitInfinity, or Wait meets its helper at waitChan. *)
WaitReturn(x) ==
  /\ sleep[x] = "passed" /\ caller[x] \in {"infinity", "timed"}
  /\ caller' = [caller EXCEPT ![x] = "returned"]
  /\ sleep' = [sleep EXCEPT ![x] = "gone"]
  /\ UNCHANGED <<regVars, count, unitVars, target, seen, fate, strayed>>

(* The timer of Wait fires; nobody will receive from its helper. *)
WaitTimeout(x) ==
  /\ caller[x] = "timed"
  /\ caller' = [caller EXCEPT ![x] = "timedOut"]
  /\ UNCHANGED <<regVars, count, unitVars, target, seen, sleep, fate, strayed>>

-----------------------------------------------------------------------------
UnitStep(u) ==
  \/ Run(u) \/ WorkHangs(u) \/ WorkDone(u) \/ DoneOne(u)
  \/ \E how \in {"returned", "panicked"} : WorkEnds(u, how)

WaitStep(x) ==
  WgWaitEnter(x) \/ WgWaitWake(x) \/ WaitReturn(x) \/ WaitTimeout(x)

Next ==
  /\ fate = "up"
  /\ \/ \E k \in NewKeys, n \in NewCallers :
          NewWaiterLoad(n, k) \/ NewWaiterStore(n, k)
     \/ \E k \in MayKeys : MayWaiter(k)
     \/ \E k \in Keys :
          \/ DelWaiter(k)
          \/ \E U \in (SUBSET Units) \ {{}} : Done(k, U)
     \/ \E w \in Made :
          \/ \E u \in Units : AddAndSpawnExec(w, u)
          \/ \E U \in (SUBSET Units) \ {{}} : AddUnits(w, U)
          \/ \E x \in Waits, how \in {"infinity", "timed"} : WaitBegin(x, w, how)
     \/ \E u \in Units : UnitStep(u)
     \/ \E x \in Waits : WaitStep(x)

(* Goroutines run, work ends or hangs, users end what they Add, timers     *)
(* fire.                                                                   *)
Fairness ==
  /\ \A u \in Units : WF_vars(fate = "up" /\ UnitStep(u))
  /\ \A x \in Waits : WF_vars(fate = "up" /\ WaitStep(x))

Spec == Init /\ [][Next]_vars /\ Fairness

-----------------------------------------------------------------------------
TypeOK ==
  /\ registry \in [Keys -> 0 .. MaxWaiters]
  /\ keyOf \in Seq(Keys) /\ Len(keyOf) <= MaxWaiters
  /\ live \subseteq Made /\ exposed \subseteq Made /\ strayed \subseteq Made
  /\ storing \subseteq NewCallers \X Keys
  /\ count \in [WaitGroups -> Int]
  /\ \A w \in WaitGroups \ strayed : count[w] \in Nat
  /\ unit \in [Units -> {"new", "added", "running", "hung", "returned",
                         "panicked", "done"}]
  /\ on \in [Units -> 0 .. Len(keyOf)]
  /\ caller \in [Waits -> {"none", "infinity", "timed", "returned",
                           "timedOut"}]
  /\ sleep \in [Waits -> {"none", "entering", "blocked", "woken", "passed",
                          "gone"}]
  /\ target \in [Waits -> 0 .. Len(keyOf)]
  /\ seen \in [Waits -> SUBSET Units]
  /\ fate \in {"up", "fatal", "negative", "reused"}

(* The counter of every WaitGroup is the number of its units that are not  *)
(* done, work that panics being counted down like work that returns, until *)
(* a Done by key meant for one WaitGroup finds another one, or none.       *)
CountExact == \A w \in Made \ strayed : count[w] = Cardinality(UnitsOf(w))

(* A Done by key goes astray only when a WaitGroup of that key was deleted *)
(* while it had units, or was stored in the middle of a NewWaiter.         *)
StrayOnlyIfReplaced ==
  \A w \in strayed : \E v \in strayed :
    keyOf[v] = keyOf[w] /\ (v \notin live \/ v \in exposed)

(* A Wait that returns before its timer, and every WaitInfinity that       *)
(* returns, finds all the units done that were not when it was called,     *)
(* however its WaitGroup was deleted or its key given to another one, if   *)
(* no Done by key went astray there.                                       *)
NoEarlyReturn ==
  \A x \in Waits : caller[x] = "returned" /\ target[x] \notin strayed =>
    \A u \in seen[x] : unit[u] = "done"

(* A WaitGroup that was given out for a key and not deleted is the one     *)
(* that the key stands for: "create %s already in use".                    *)
LiveRegistered == \A w \in live : registry[keyOf[w]] = w

(* It is, whoever calls NewWaiter and MayWaiter of the key, unless it was  *)
(* stored while a NewWaiter was between its Load and its Store.            *)
LiveUnlessRaced == \A w \in live : registry[keyOf[w]] = w \/ w \in exposed

(* A wait without a timer cannot end: work hangs, or its count was taken   *)
(* from another WaitGroup.                                                 *)
Hopeless(x) ==
  /\ caller[x] = "infinity"
  /\ \/ target[x] \in strayed
     \/ \E u \in Units : on[u] = target[x] /\ unit[u] = "hung"

(* Every Wait returns, also when the work hangs, and every WaitInfinity    *)
(* once the work has ended, also when the work panics and when somebody    *)
(* adds more of it meanwhile.                                              *)
WaitReturns ==
  \A x \in Waits :
    (caller[x] \in {"infinity", "timed"})
      ~> (caller[x] \in {"returned", "timedOut"} \/ fate # "up" \/ Hopeless(x))
=============================================================================
