---------------------------- MODULE WaiterProofs ----------------------------
(***************************************************************************)
(* Theorems about Waiter, for any keys, units, waits and WaitGroups.       *)
(***************************************************************************)
EXTENDS Waiter, FiniteSetTheorems, TLAPS

USE WaiterAssumption

-----------------------------------------------------------------------------
(* What a key stands for was made for it and is live. *)
Registered ==
  \A k \in Keys : registry[k] # 0 => registry[k] \in live /\ keyOf[registry[k]] = k

(* Between its two steps, NewWaiter will only push out what is exposed. *)
StoreInv ==
  /\ LiveUnlessRaced
  /\ \A s \in storing : registry[s[2]] # 0 => registry[s[2]] \in exposed

(* CountExact, and zero for what is not made yet. *)
Counted == \A w \in WaitGroups \ strayed : count[w] = Cardinality(UnitsOf(w))

UnitInv == \A u \in Units : on[u] = 0 <=> unit[u] = "new"

(* A goroutine past wg.Wait has nothing left to wait for. *)
Settled(x) == \A u \in seen[x] : unit[u] = "done"
WaitInv ==
  \A x \in Waits :
    /\ sleep[x] = "none" <=> caller[x] = "none"
    /\ caller[x] # "none" => target[x] # 0
    /\ \A u \in seen[x] : unit[u] # "new" /\ on[u] = target[x]
    /\ sleep[x] \in {"woken", "passed", "gone"} /\ target[x] \notin strayed
         => Settled(x)
    /\ caller[x] = "returned" => sleep[x] = "gone"

Inv ==
  /\ TypeOK /\ Registered /\ StoreInv /\ Counted /\ StrayOnlyIfReplaced
  /\ UnitInv /\ WaitInv

-----------------------------------------------------------------------------
LEMMA Finite == \A w : IsFiniteSet(UnitsOf(w)) /\ Cardinality(UnitsOf(w)) \in Nat
<1> TAKE w
<1>1. UnitsOf(w) \in SUBSET Units
  BY DEF UnitsOf
<1> QED
  BY <1>1, FS_Subset, FS_CardinalityType

LEMMA InitInv == Init => Inv
<1> SUFFICES ASSUME Init PROVE Inv
  OBVIOUS
<1>1. \A w \in WaitGroups : UnitsOf(w) = {} /\ count[w] = 0
  BY DEF Init, UnitsOf, WaitGroups
<1>2. Counted
  BY <1>1, FS_EmptySet DEF Init, Counted
<1>3. TypeOK
  BY DEF Init, TypeOK, Made, Keys, WaitGroups
<1> QED
  BY <1>2, <1>3 DEF Init, Inv, Registered, StoreInv, LiveUnlessRaced, UnitInv,
     StrayOnlyIfReplaced, WaitInv, Settled

(* The registry moves; the units, the counters and the waits stay. *)
LEMMA RegStep ==
  ASSUME Inv, UNCHANGED <<count, unit, on, waitVars, sleep, strayed>>,
         Len(keyOf') \in Nat, Len(keyOf) <= Len(keyOf')
  PROVE  /\ Counted' /\ UnitInv' /\ WaitInv'
         /\ on' \in [Units -> 0 .. Len(keyOf')]
         /\ target' \in [Waits -> 0 .. Len(keyOf')]
         /\ strayed' \subseteq 1 .. Len(keyOf')
<1>1. \A w : UnitsOf(w)' = UnitsOf(w)
  BY DEF UnitsOf
<1>2. Counted'
  BY <1>1 DEF Inv, Counted
<1>3. UnitInv' /\ WaitInv'
  BY DEF Inv, UnitInv, WaitInv, Settled, waitVars
<1>4. Len(keyOf) \in Nat
  BY DEF Inv, TypeOK
<1>5. on' \in [Units -> 0 .. Len(keyOf')] /\ target' \in [Waits -> 0 .. Len(keyOf')]
  BY <1>4 DEF Inv, TypeOK, waitVars
<1>6. strayed' \subseteq 1 .. Len(keyOf')
  BY <1>4 DEF Inv, TypeOK, Made
<1> QED
  BY <1>2, <1>3, <1>5, <1>6

(* A WaitGroup that replaces one that is registered: that one is exposed. *)
LEMMA StoreStep ==
  ASSUME Inv, NEW k \in Keys, StoreNew(k),
         registry[k] # 0 => registry[k] \in exposed,
         storing' \subseteq storing,
         UNCHANGED <<unitVars, waitVars, strayed>>, NoWg
  PROVE  Inv'
<1> DEFINE new == Len(keyOf) + 1
<1>1. /\ Len(keyOf) \in Nat
      /\ keyOf' = Append(keyOf, k) /\ keyOf \in Seq(Keys)
      /\ registry' = [registry EXCEPT ![k] = new] /\ live' = live \cup {new}
      /\ new \in 1 .. MaxWaiters
      /\ exposed' = IF \E s \in storing' : s[2] = k THEN exposed \cup {new} ELSE exposed
  BY DEF StoreNew, Inv, TypeOK
<1>2. /\ keyOf' \in Seq(Keys) /\ Len(keyOf') = new /\ keyOf'[new] = k
      /\ \A i \in 1 .. Len(keyOf) : keyOf'[i] = keyOf[i]
  BY <1>1
<1>3. /\ live \subseteq 1 .. Len(keyOf) /\ exposed \subseteq 1 .. Len(keyOf)
      /\ strayed \subseteq 1 .. Len(keyOf)
  BY DEF Inv, TypeOK, Made
<1> HIDE DEF new
<1>4. /\ Counted' /\ UnitInv' /\ WaitInv'
      /\ on' \in [Units -> 0 .. Len(keyOf')]
      /\ target' \in [Waits -> 0 .. Len(keyOf')]
      /\ strayed' \subseteq 1 .. Len(keyOf')
  BY <1>1, <1>2, RegStep DEF NoWg, unitVars, new
<1>5. /\ registry' \in [Keys -> 0 .. MaxWaiters] /\ live' \subseteq 1 .. new
      /\ exposed' \subseteq 1 .. new
  <2>1. registry \in [Keys -> 0 .. MaxWaiters] /\ new \in 0 .. MaxWaiters
    BY <1>1 DEF Inv, TypeOK
  <2>2. registry' \in [Keys -> 0 .. MaxWaiters]
    BY <1>1, <2>1
  <2>3. 1 .. Len(keyOf) \subseteq 1 .. new /\ new \in 1 .. new
    BY <1>1 DEF new
  <2> QED
    BY <1>1, <1>3, <2>2, <2>3
<1>6. TypeOK'
  BY <1>1, <1>2, <1>4, <1>5 DEF Inv, TypeOK, Made, NoWg, unitVars, waitVars, new
<1>7. \A j \in Keys : registry'[j] = IF j = k THEN new ELSE registry[j]
  BY <1>1 DEF Inv, TypeOK
<1>8. Registered'
  BY <1>1, <1>2, <1>3, <1>7 DEF Inv, Registered
<1>9. StoreInv'
  <2>1. LiveUnlessRaced'
    <3>1. SUFFICES ASSUME NEW w \in live'
                   PROVE  registry'[keyOf'[w]] = w \/ w \in exposed'
      BY DEF LiveUnlessRaced
    <3>2. CASE w = new
      BY <1>2, <1>7, <3>2
    <3>3. CASE w \in live
      <4>1. w \in 1 .. Len(keyOf) /\ keyOf'[w] = keyOf[w] /\ keyOf[w] \in Keys
        BY <1>1, <1>2, <1>3, <3>3
      <4>2. registry[keyOf[w]] = w \/ w \in exposed
        BY <3>3 DEF Inv, StoreInv, LiveUnlessRaced
      <4>3. w # 0
        BY <4>1
      <4>4. exposed \subseteq exposed'
        BY <1>1
      <4> QED
        BY <1>7, <4>1, <4>2, <4>3, <4>4
    <3> QED
      BY <1>1, <3>1, <3>2, <3>3
  <2>2. ASSUME NEW s \in storing', registry'[s[2]] # 0
        PROVE  registry'[s[2]] \in exposed'
    <3>1. s \in storing /\ s[2] \in Keys
      BY DEF Inv, TypeOK
    <3>2. CASE s[2] = k
      BY <1>1, <1>7, <3>2
    <3>3. CASE s[2] # k
      BY <1>1, <1>7, <2>2, <3>1, <3>3 DEF Inv, StoreInv
    <3> QED
      BY <3>2, <3>3
  <2> QED
    BY <2>1, <2>2 DEF StoreInv
<1>10. StrayOnlyIfReplaced'
  <2>1. exposed \subseteq exposed' /\ strayed' = strayed
    BY <1>1
  <2>2. \A w \in strayed : keyOf'[w] = keyOf[w] /\ (w \notin live => w \notin live')
    BY <1>1, <1>2, <1>3 DEF new
  <2> QED
    BY <2>1, <2>2 DEF Inv, StrayOnlyIfReplaced
<1> QED
  BY <1>4, <1>6, <1>8, <1>9, <1>10 DEF Inv

LEMMA DelStep ==
  ASSUME Inv, NEW k \in Keys, DelWaiter(k)
  PROVE  Inv'
<1>1. /\ registry' = [registry EXCEPT ![k] = 0]
      /\ live' = live \ {registry[k]} /\ UNCHANGED <<keyOf, storing, exposed, strayed>>
      /\ UNCHANGED <<count, unit, on, caller, target, seen, sleep, fate>>
      /\ Len(keyOf) \in Nat
  BY DEF DelWaiter, NoWg, unitVars, waitVars, Inv, TypeOK
<1>2. Counted' /\ UnitInv' /\ WaitInv'
  BY <1>1, RegStep DEF waitVars
<1>3. TypeOK'
  <2>1. registry \in [Keys -> 0 .. MaxWaiters] /\ live \subseteq 1 .. Len(keyOf)
    BY DEF Inv, TypeOK, Made
  <2>2. registry' \in [Keys -> 0 .. MaxWaiters]
    BY <1>1, <2>1
  <2>3. live' \subseteq 1 .. Len(keyOf')
    BY <1>1, <2>1
  <2> QED
    BY <1>1, <2>2, <2>3 DEF Inv, TypeOK, Made
<1>4. \A j \in Keys : registry'[j] = IF j = k THEN 0 ELSE registry[j]
  BY <1>1 DEF Inv, TypeOK
<1>5. Registered'
  BY <1>1, <1>4 DEF Inv, Registered
<1>6. StoreInv'
  <2>1. \A w \in live : keyOf[w] \in Keys /\ w \in 1 .. Len(keyOf)
    BY DEF Inv, TypeOK, Made
  <2>2. \A s \in storing : s[2] \in Keys
    BY DEF Inv, TypeOK
  <2>3. LiveUnlessRaced'
    BY <1>1, <1>4, <2>1 DEF Inv, StoreInv, LiveUnlessRaced
  <2>4. \A s \in storing : registry'[s[2]] # 0 => registry'[s[2]] \in exposed
    BY <1>4, <2>2 DEF Inv, StoreInv
  <2> QED
    BY <1>1, <2>3, <2>4 DEF StoreInv
<1>7. StrayOnlyIfReplaced'
  BY <1>1 DEF Inv, StrayOnlyIfReplaced
<1> QED
  BY <1>2, <1>3, <1>5, <1>6, <1>7 DEF Inv

LEMMA LoadStep ==
  ASSUME Inv, NEW k \in Keys, NEW n \in NewCallers, NewWaiterLoad(n, k)
  PROVE  Inv'
<1>1. /\ UNCHANGED <<registry, keyOf, live, exposed, strayed>>
      /\ UNCHANGED <<count, unit, on, caller, target, seen, sleep>>
      /\ fate' \in {"up", "fatal", "negative", "reused"}
      /\ storing' = storing \/ (registry[k] = 0 /\ storing' = storing \cup {<<n, k>>})
      /\ Len(keyOf) \in Nat
  BY DEF NewWaiterLoad, unitVars, waitVars, Inv, TypeOK
<1>2. Counted' /\ UnitInv' /\ WaitInv'
  BY <1>1, RegStep DEF waitVars
<1>3. storing' \subseteq NewCallers \X Keys
  BY <1>1 DEF Inv, TypeOK
<1>4. TypeOK'
  BY <1>1, <1>3 DEF Inv, TypeOK, Made
<1>5. Registered' /\ StrayOnlyIfReplaced'
  BY <1>1 DEF Inv, Registered, StrayOnlyIfReplaced
<1>6. StoreInv'
  <2>1. \A s \in storing' : s \in storing \/ registry[s[2]] = 0
    BY <1>1
  <2> QED
    BY <1>1, <2>1 DEF Inv, StoreInv, LiveUnlessRaced
<1> QED
  BY <1>2, <1>4, <1>5, <1>6 DEF Inv

LEMMA RegistryStep ==
  ASSUME Inv, NEW k \in Keys,
         \/ MayWaiter(k) \/ DelWaiter(k)
         \/ \E n \in NewCallers : NewWaiterLoad(n, k) \/ NewWaiterStore(n, k)
  PROVE  Inv'
<1>1. CASE MayWaiter(k)
  BY <1>1, StoreStep DEF MayWaiter
<1>2. ASSUME NEW n \in NewCallers, NewWaiterStore(n, k) PROVE Inv'
  <2>1. registry[k] # 0 => registry[k] \in exposed
    BY <1>2 DEF NewWaiterStore, Inv, StoreInv
  <2> QED
    BY <1>2, <2>1, StoreStep DEF NewWaiterStore
<1> QED
  BY <1>1, <1>2, DelStep, LoadStep

-----------------------------------------------------------------------------
(* The units and their counters move, and what they wake; the registry and *)
(* the rest of the waits stay.                                             *)
LEMMA UnitsStep ==
  ASSUME Inv, UNCHANGED <<regVars, waitVars>>,
         unit' \in [Units -> {"new", "added", "running", "hung", "returned",
                              "panicked", "done"}],
         on' \in [Units -> 0 .. Len(keyOf)], UnitInv',
         \A u \in Units : unit[u] = "done" => unit'[u] = "done",
         \A u \in Units : unit[u] # "new" => unit'[u] # "new" /\ on'[u] = on[u],
         strayed \subseteq strayed', strayed' \subseteq Made, StrayOnlyIfReplaced',
         count' \in [WaitGroups -> Int], Counted',
         fate' \in {"up", "fatal", "negative", "reused"},
         sleep' \in [Waits -> {"none", "entering", "blocked", "woken", "passed", "gone"}],
         \A x \in Waits : sleep'[x] = sleep[x]
           \/ /\ sleep[x] = "blocked" /\ sleep'[x] = "woken"
              /\ target[x] \in WaitGroups /\ count'[target[x]] = 0
  PROVE  Inv'
<1>1. /\ Len(keyOf) \in Nat /\ seen \in [Waits -> SUBSET Units]
      /\ seen' = seen /\ target' = target /\ caller' = caller
  BY DEF Inv, TypeOK, waitVars
<1>2. ASSUME NEW w PROVE IsFiniteSet(UnitsOf(w)') /\ Cardinality(UnitsOf(w)') \in Nat
  <2>1. UnitsOf(w)' \in SUBSET Units
    BY DEF UnitsOf
  <2> QED
    BY <2>1, FS_Subset, FS_CardinalityType
<1>3. TypeOK'
  <2>1. \A w \in WaitGroups \ strayed' : count'[w] \in Nat
    BY <1>2 DEF Counted
  <2> QED
    BY <1>1, <2>1 DEF Inv, TypeOK, Made, regVars
<1>4. Registered' /\ StoreInv'
  BY DEF Inv, Registered, StoreInv, LiveUnlessRaced, regVars
<1>5. WaitInv'
  <2> SUFFICES ASSUME NEW x \in Waits
               PROVE  /\ sleep'[x] = "none" <=> caller'[x] = "none"
                      /\ caller'[x] # "none" => target'[x] # 0
                      /\ \A u \in seen'[x] : unit'[u] # "new" /\ on'[u] = target'[x]
                      /\ sleep'[x] \in {"woken", "passed", "gone"}
                           /\ target'[x] \notin strayed' => Settled(x)'
                      /\ caller'[x] = "returned" => sleep'[x] = "gone"
    BY DEF WaitInv
  <2>1. \A u \in seen'[x] : unit'[u] # "new" /\ on'[u] = target'[x]
    BY <1>1 DEF Inv, WaitInv
  <2>2. ASSUME NEW w \in WaitGroups \ strayed', w = target[x], count'[w] = 0
        PROVE  Settled(x)'
    <3>1. count'[w] = Cardinality(UnitsOf(w)')
      BY <2>2 DEF Counted
    <3>2. UnitsOf(w)' = {}
      BY <1>2, <2>2, <3>1, FS_EmptySet
    <3>3. \A u \in Units : on'[u] = w => unit'[u] = "done"
      BY <3>2 DEF UnitsOf
    <3> QED
      BY <1>1, <2>1, <2>2, <3>3 DEF Settled
  <2>3. Settled(x) => Settled(x)'
    BY <1>1 DEF Settled
  <2>4. sleep'[x] \in {"woken", "passed", "gone"} /\ target'[x] \notin strayed'
          => Settled(x)'
    BY <1>1, <2>2, <2>3 DEF Inv, WaitInv
  <2> QED
    BY <1>1, <2>1, <2>4 DEF Inv, WaitInv
<1> QED
  BY <1>3, <1>4, <1>5 DEF Inv

(* What WgAdd does to the waits and to the counters. *)
LEMMA AddedTo ==
  ASSUME Inv, NEW w \in Made, NEW n \in Int, WgAdd(w, n)
  PROVE  /\ w \in WaitGroups /\ count' \in [WaitGroups -> Int]
         /\ \A v \in WaitGroups : count'[v] = IF v = w THEN count[w] + n ELSE count[v]
         /\ fate' \in {"up", "fatal", "negative", "reused"}
         /\ sleep' \in [Waits -> {"none", "entering", "blocked", "woken", "passed", "gone"}]
         /\ \A x \in Waits : sleep'[x] = sleep[x]
              \/ /\ sleep[x] = "blocked" /\ sleep'[x] = "woken"
                 /\ target[x] \in WaitGroups /\ count'[target[x]] = 0
<1>1. w \in WaitGroups
  BY DEF Inv, TypeOK, Made, WaitGroups
<1>2. count \in [WaitGroups -> Int] /\ count[w] + n \in Int
  BY <1>1 DEF Inv, TypeOK
<1>3. /\ count' \in [WaitGroups -> Int]
      /\ \A v \in WaitGroups : count'[v] = IF v = w THEN count[w] + n ELSE count[v]
  BY <1>1, <1>2 DEF WgAdd
<1>4. /\ fate' \in {"up", "fatal", "negative", "reused"}
      /\ sleep' \in [Waits -> {"none", "entering", "blocked", "woken", "passed", "gone"}]
      /\ \A x \in Waits : sleep'[x] = sleep[x]
           \/ /\ sleep[x] = "blocked" /\ sleep'[x] = "woken"
              /\ target[x] = w /\ count[w] + n = 0
  BY DEF WgAdd, Inv, TypeOK
<1> QED
  BY <1>1, <1>3, <1>4

LEMMA WorkStep ==
  ASSUME Inv, NEW u \in Units,
         Run(u) \/ WorkHangs(u) \/ \E how \in {"returned", "panicked"} : WorkEnds(u, how)
  PROVE  Inv'
<1>1. /\ unit' \in [Units -> {"new", "added", "running", "hung", "returned",
                              "panicked", "done"}]
      /\ UNCHANGED <<regVars, waitVars, strayed, count, fate, sleep, on>>
      /\ \A v \in Units : unit[v] = "done" <=> unit'[v] = "done"
      /\ \A v \in Units : unit[v] = "new" <=> unit'[v] = "new"
  BY DEF Run, WorkHangs, WorkEnds, NoWg, Inv, TypeOK
<1>2. \A w : UnitsOf(w)' = UnitsOf(w)
  BY <1>1 DEF UnitsOf
<1>3. UnitInv'
  BY <1>1 DEF Inv, UnitInv
<1>4. Counted'
  BY <1>1, <1>2 DEF Inv, Counted
<1>5. StrayOnlyIfReplaced'
  BY <1>1 DEF Inv, StrayOnlyIfReplaced, regVars
<1>6. /\ on' \in [Units -> 0 .. Len(keyOf)] /\ strayed' \subseteq Made
      /\ count' \in [WaitGroups -> Int]
      /\ fate' \in {"up", "fatal", "negative", "reused"}
      /\ sleep' \in [Waits -> {"none", "entering", "blocked", "woken", "passed", "gone"}]
  BY <1>1 DEF Inv, TypeOK
<1> QED
  BY <1>1, <1>3, <1>4, <1>5, <1>6, UnitsStep

(* The units of U, all on w, are done. *)
LEMMA EndStep ==
  ASSUME Inv, NEW U \in SUBSET Units, NEW w \in Made,
         \A u \in U : on[u] = w /\ unit[u] # "done",
         unit' = [u \in Units |-> IF u \in U THEN "done" ELSE unit[u]],
         UNCHANGED <<regVars, on, waitVars, strayed>>, WgAdd(w, -Cardinality(U))
  PROVE  Inv'
<1>1. IsFiniteSet(U) /\ Cardinality(U) \in Nat /\ -Cardinality(U) \in Int
  BY FS_Subset, FS_CardinalityType
<1>2. /\ unit' \in [Units -> {"new", "added", "running", "hung", "returned",
                              "panicked", "done"}]
      /\ on' \in [Units -> 0 .. Len(keyOf)] /\ w # 0 /\ strayed' \subseteq Made
  BY DEF Inv, TypeOK, Made
<1>3. UnitInv' /\ StrayOnlyIfReplaced'
  BY <1>2 DEF Inv, UnitInv, StrayOnlyIfReplaced, regVars
<1>4. /\ UnitsOf(w)' = UnitsOf(w) \ U
      /\ UnitsOf(w) \cap U = U
      /\ \A v \in WaitGroups : v # w => UnitsOf(v)' = UnitsOf(v)
  BY DEF UnitsOf
<1>5. Cardinality(UnitsOf(w)') = Cardinality(UnitsOf(w)) + (-Cardinality(U))
  <2>1. Cardinality(UnitsOf(w) \ U) = Cardinality(UnitsOf(w)) - Cardinality(U)
    BY <1>4, Finite, FS_Difference
  <2> QED
    BY <1>1, <1>4, <2>1, Finite
<1>6. Counted'
  <2>1. \A v \in WaitGroups : count'[v] =
          IF v = w THEN count[w] + (-Cardinality(U)) ELSE count[v]
    BY <1>1, AddedTo
  <2>2. ASSUME NEW v \in WaitGroups \ strayed'
        PROVE  count'[v] = Cardinality(UnitsOf(v)')
    BY <1>4, <1>5, <2>1, <2>2 DEF Inv, Counted
  <2> QED
    BY <2>2 DEF Counted
<1>7. /\ \A u \in Units : unit[u] = "done" => unit'[u] = "done"
      /\ \A u \in Units : unit[u] # "new" => unit'[u] # "new" /\ on'[u] = on[u]
  OBVIOUS
<1> QED
  BY <1>1, <1>2, <1>3, <1>6, <1>7, AddedTo, UnitsStep

(* The units of U, all new, are added to w. *)
LEMMA AddStep ==
  ASSUME Inv, NEW U \in SUBSET Units, NEW w \in Made, NEW to \in {"added", "running"},
         \A u \in U : unit[u] = "new",
         unit' = [u \in Units |-> IF u \in U THEN to ELSE unit[u]],
         on' = [u \in Units |-> IF u \in U THEN w ELSE on[u]],
         UNCHANGED <<regVars, waitVars, strayed>>, WgAdd(w, Cardinality(U))
  PROVE  Inv'
<1>1. IsFiniteSet(U) /\ Cardinality(U) \in Nat /\ Cardinality(U) \in Int
  BY FS_Subset, FS_CardinalityType
<1>2. /\ unit' \in [Units -> {"new", "added", "running", "hung", "returned",
                              "panicked", "done"}]
      /\ on' \in [Units -> 0 .. Len(keyOf)] /\ w \in WaitGroups /\ w # 0
      /\ strayed' \subseteq Made
  BY DEF Inv, TypeOK, Made, WaitGroups
<1>3. UnitInv' /\ StrayOnlyIfReplaced'
  BY <1>2 DEF Inv, UnitInv, StrayOnlyIfReplaced, regVars
<1>4. \A u \in U : on[u] = 0 /\ unit[u] = "new"
  BY DEF Inv, UnitInv
<1>5. /\ UnitsOf(w)' = UnitsOf(w) \cup U
      /\ UnitsOf(w) \cap U = {}
      /\ \A v \in WaitGroups : v # w => UnitsOf(v)' = UnitsOf(v)
  BY <1>2, <1>4 DEF UnitsOf, WaitGroups
<1>6. Cardinality(UnitsOf(w)') = Cardinality(UnitsOf(w)) + Cardinality(U)
  <2>1. Cardinality(UnitsOf(w) \cup U)
          = Cardinality(UnitsOf(w)) + Cardinality(U) - Cardinality({})
    BY <1>1, <1>5, Finite, FS_Union
  <2> QED
    BY <1>1, <1>5, <2>1, Finite, FS_EmptySet
<1>7. Counted'
  BY <1>1, <1>5, <1>6, AddedTo DEF Inv, Counted
<1>8. /\ \A u \in Units : unit[u] = "done" => unit'[u] = "done"
      /\ \A u \in Units : unit[u] # "new" => unit'[u] # "new" /\ on'[u] = on[u]
  OBVIOUS
<1> QED
  BY <1>1, <1>2, <1>3, <1>7, <1>8, AddedTo, UnitsStep

LEMMA One == \A u : Cardinality({u}) = 1
BY FS_Singleton

LEMMA UnitStepInv ==
  ASSUME Inv, NEW u \in Units, UnitStep(u)
  PROVE  Inv'
<1>1. CASE WorkDone(u) \/ DoneOne(u)
  <2>1. /\ unit[u] \notin {"new", "done"} /\ on[u] \in Made
        /\ unit' = [v \in Units |-> IF v \in {u} THEN "done" ELSE unit[v]]
        /\ UNCHANGED <<regVars, on, waitVars, strayed>> /\ WgAdd(on[u], -1)
    BY <1>1 DEF WorkDone, DoneOne, Inv, TypeOK, UnitInv, Made
  <2>2. WgAdd(on[u], -Cardinality({u}))
    BY <2>1, One
  <2>3. \A v \in {u} : on[v] = on[u] /\ unit[v] # "done"
    BY <2>1
  <2>4. {u} \in SUBSET Units
    OBVIOUS
  <2> QED
    BY <2>1, <2>2, <2>3, <2>4, EndStep
<1> QED
  BY <1>1, WorkStep DEF UnitStep

LEMMA AddInv ==
  ASSUME Inv, NEW w \in Made,
         \/ \E u \in Units : AddAndSpawnExec(w, u)
         \/ \E U \in SUBSET Units : AddUnits(w, U)
  PROVE  Inv'
<1>1. ASSUME NEW u \in Units, AddAndSpawnExec(w, u) PROVE Inv'
  <2>1. /\ unit' = [v \in Units |-> IF v \in {u} THEN "running" ELSE unit[v]]
        /\ on' = [v \in Units |-> IF v \in {u} THEN w ELSE on[v]]
        /\ unit[u] = "new" /\ WgAdd(w, 1) /\ UNCHANGED <<regVars, waitVars, strayed>>
    BY <1>1 DEF AddAndSpawnExec, Inv, TypeOK
  <2>2. WgAdd(w, Cardinality({u}))
    BY <2>1, One
  <2>3. {u} \in SUBSET Units /\ \A v \in {u} : unit[v] = "new"
    BY <2>1
  <2> QED
    BY <2>1, <2>2, <2>3, AddStep
<1>2. ASSUME NEW U \in SUBSET Units, AddUnits(w, U) PROVE Inv'
  BY <1>2, AddStep DEF AddUnits
<1> QED
  BY <1>1, <1>2

(* A Done by key that finds the WaitGroup of its units is EndStep; one     *)
(* that does not makes every WaitGroup it is wrong about a strayed one.    *)
LEMMA DoneInv ==
  ASSUME Inv, NEW k \in Keys, NEW U \in (SUBSET Units) \ {{}}, Done(k, U)
  PROVE  Inv'
<1> DEFINE r == registry[k]
           strays == {u \in U : on[u] # r}
<1>1. /\ U \in SUBSET Units /\ \A u \in U : unit[u] = "added" /\ keyOf[on[u]] = k
      /\ unit' = [u \in Units |-> IF u \in U THEN "done" ELSE unit[u]]
      /\ r # 0 => WgAdd(r, -Cardinality(U))
      /\ r = 0 => NoWg
      /\ strayed' = strayed \cup {on[u] : u \in strays}
                      \cup {w \in Made : strays # {} /\ w = r}
      /\ UNCHANGED <<regVars, on, waitVars>>
  BY DEF Done
<1>2. \A u \in U : on[u] \in Made
  BY <1>1 DEF Inv, TypeOK, UnitInv, Made
<1>3. r # 0 => r \in Made /\ r \in live /\ keyOf[r] = k
  BY DEF Inv, TypeOK, Registered
<1>4. CASE strays = {}
  <2>1. \A u \in U : on[u] = r
    BY <1>4
  <2>2. r \in Made /\ r # 0
    BY <1>2, <2>1 DEF Made
  <2>3. strayed' = strayed
    BY <1>1, <1>4
  <2> HIDE DEF strays
  <2> QED
    BY <1>1, <2>1, <2>2, <2>3, EndStep
<1>5. CASE strays # {}
  <2>1. /\ \A u \in U : on[u] # r => on[u] \in strayed'
        /\ r # 0 => r \in strayed'
        /\ strayed \subseteq strayed'
    BY <1>1, <1>3, <1>5
  <2>2. strayed' \subseteq Made
    BY <1>1, <1>2 DEF Inv, TypeOK
  <2>3. StrayOnlyIfReplaced'
    <3>1. PICK u \in U : on[u] # r
      BY <1>5
    <3>2. on[u] \in Made /\ keyOf[on[u]] = k /\ on[u] \in strayed'
      BY <1>1, <1>2, <2>1, <3>1
    <3>3. ASSUME NEW v \in U, on[v] # r PROVE on[v] \notin live \/ on[v] \in exposed
      BY <1>1, <3>3 DEF Inv, StoreInv, LiveUnlessRaced
    <3>4. ASSUME NEW w \in strayed'
          PROVE  \E v \in strayed' : keyOf[v] = keyOf[w] /\ (v \notin live \/ v \in exposed)
      <4>1. CASE w \in strayed
        BY <2>1, <4>1 DEF Inv, StrayOnlyIfReplaced
      <4>2. CASE w \in {on[v] : v \in strays}
        <5>1. PICK v \in U : on[v] # r /\ w = on[v]
          BY <4>2
        <5> QED
          BY <3>3, <3>4, <5>1
      <4>3. CASE w = r /\ w \in Made
        <5>1. keyOf[w] = k
          BY <1>3, <4>3 DEF Made
        <5> QED
          BY <3>1, <3>2, <3>3, <5>1
      <4> QED
        BY <1>1, <3>4, <4>1, <4>2, <4>3
    <3> QED
      BY <1>1, <3>4 DEF StrayOnlyIfReplaced, regVars
  <2>4. \A v \in WaitGroups \ strayed' : UnitsOf(v)' = UnitsOf(v)
    <3>1. \A u \in U : on[u] \in strayed'
      BY <1>2, <2>1 DEF Made
    <3> QED
      BY <1>1, <3>1 DEF UnitsOf
  <2>5. /\ unit' \in [Units -> {"new", "added", "running", "hung", "returned",
                                "panicked", "done"}]
        /\ on' \in [Units -> 0 .. Len(keyOf)] /\ on' = on
    BY <1>1 DEF Inv, TypeOK
  <2>6. UnitInv'
    BY <1>1, <2>5 DEF Inv, UnitInv
  <2>7. /\ \A u \in Units : unit[u] = "done" => unit'[u] = "done"
        /\ \A u \in Units : unit[u] # "new" => unit'[u] # "new" /\ on'[u] = on[u]
    BY <1>1
  <2>8. CASE r = 0
    <3>1. UNCHANGED <<count, fate, sleep>>
      BY <1>1, <2>8 DEF NoWg
    <3>2. Counted'
      BY <2>1, <2>4, <3>1 DEF Inv, Counted
    <3>3. /\ count' \in [WaitGroups -> Int]
          /\ fate' \in {"up", "fatal", "negative", "reused"}
          /\ sleep' \in [Waits -> {"none", "entering", "blocked", "woken", "passed", "gone"}]
      BY <3>1 DEF Inv, TypeOK
    <3> HIDE DEF r, strays
    <3> QED
      BY <1>1, <2>1, <2>2, <2>3, <2>5, <2>6, <2>7, <3>1, <3>2, <3>3, UnitsStep
  <2>9. CASE r # 0
    <3>1. -Cardinality(U) \in Int
      BY FS_Subset, FS_CardinalityType
    <3>2. r \in Made /\ WgAdd(r, -Cardinality(U))
      BY <1>1, <1>3, <2>9
    <3>3. Counted'
      BY <2>1, <2>4, <2>9, <3>1, <3>2, AddedTo DEF Inv, Counted
    <3> HIDE DEF r, strays
    <3> QED
      BY <1>1, <2>1, <2>2, <2>3, <2>5, <2>6, <2>7, <3>1, <3>2, <3>3, AddedTo, UnitsStep
  <2> QED
    BY <2>8, <2>9
<1> QED
  BY <1>4, <1>5

-----------------------------------------------------------------------------
(* What a call of Wait or WaitInfinity does touches only that call. *)
LEMMA WaitMove ==
  ASSUME Inv, NEW x \in Waits, UNCHANGED <<regVars, count, unitVars, strayed>>,
         \A y \in Waits : y # x => /\ sleep'[y] = sleep[y] /\ caller'[y] = caller[y]
                                   /\ target'[y] = target[y] /\ seen'[y] = seen[y],
         /\ sleep'[x] = "none" <=> caller'[x] = "none"
         /\ caller'[x] # "none" => target'[x] # 0
         /\ \A u \in seen'[x] : unit[u] # "new" /\ on[u] = target'[x]
         /\ sleep'[x] \in {"woken", "passed", "gone"} /\ target'[x] \notin strayed
              => \A u \in seen'[x] : unit[u] = "done"
         /\ caller'[x] = "returned" => sleep'[x] = "gone",
         TypeOK'
  PROVE  Inv'
<1>1. \A w : UnitsOf(w)' = UnitsOf(w)
  BY DEF UnitsOf, unitVars
<1>2. Counted'
  BY <1>1 DEF Inv, Counted
<1>3. Registered' /\ StoreInv' /\ UnitInv' /\ StrayOnlyIfReplaced'
  BY DEF Inv, Registered, StoreInv, LiveUnlessRaced, StrayOnlyIfReplaced, UnitInv,
     regVars, unitVars
<1>4. WaitInv'
  BY DEF Inv, WaitInv, Settled, unitVars
<1> QED
  BY <1>2, <1>3, <1>4 DEF Inv

LEMMA WaitStepInv ==
  ASSUME Inv, NEW x \in Waits,
         WaitStep(x) \/ \E w \in Made, how \in {"infinity", "timed"} : WaitBegin(x, w, how)
  PROVE  Inv'
<1> USE DEF regVars, unitVars, waitVars
<1>1. ASSUME NEW w \in Made, NEW how \in {"infinity", "timed"}, WaitBegin(x, w, how)
      PROVE  Inv'
  <2>1. TypeOK'
    BY <1>1 DEF WaitBegin, Inv, TypeOK, Made, UnitsOf
  <2>2. \A u \in UnitsOf(w) : unit[u] # "new" /\ on[u] = w
    BY DEF UnitsOf, Inv, UnitInv, Made
  <2>3. /\ sleep'[x] = "entering" /\ caller'[x] = how
        /\ target'[x] = w /\ seen'[x] = UnitsOf(w) /\ w # 0
    BY <1>1 DEF WaitBegin, Inv, TypeOK, Made
  <2>4. /\ UNCHANGED <<registry, keyOf, live, storing, exposed, strayed, count, unit, on>>
        /\ \A y \in Waits : y # x =>
             /\ sleep'[y] = sleep[y] /\ caller'[y] = caller[y]
             /\ target'[y] = target[y] /\ seen'[y] = seen[y]
    BY <1>1 DEF WaitBegin, Inv, TypeOK
  <2> QED
    BY <2>1, <2>2, <2>3, <2>4, WaitMove
<1>2. CASE WgWaitEnter(x)
  <2>1. TypeOK'
    BY <1>2 DEF WgWaitEnter, Inv, TypeOK, Made
  <2>2. count[target[x]] = 0 /\ target[x] \notin strayed
          => \A u \in seen[x] : unit[u] = "done"
    <3>1. target[x] \in WaitGroups /\ seen[x] \in SUBSET Units
      BY <1>2 DEF WgWaitEnter, Inv, TypeOK, WaitInv, WaitGroups
    <3>2. count[target[x]] = 0 /\ target[x] \notin strayed => UnitsOf(target[x]) = {}
      BY <3>1, Finite, FS_EmptySet DEF Inv, Counted
    <3> QED
      BY <3>1, <3>2 DEF Inv, WaitInv, UnitsOf
  <2>3. /\ sleep'[x] = (IF count[target[x]] = 0 THEN "passed" ELSE "blocked")
        /\ sleep[x] = "entering" /\ caller' = caller /\ target' = target /\ seen' = seen
    BY <1>2 DEF WgWaitEnter, Inv, TypeOK
  <2>4. /\ UNCHANGED <<registry, keyOf, live, storing, exposed, strayed, count, unit, on>>
        /\ \A y \in Waits : y # x => sleep'[y] = sleep[y]
    BY <1>2 DEF WgWaitEnter, Inv, TypeOK
  <2> QED
    BY <2>1, <2>2, <2>3, <2>4, WaitMove DEF Inv, WaitInv
<1>3. CASE WgWaitWake(x)
  <2>1. TypeOK'
    BY <1>3 DEF WgWaitWake, Inv, TypeOK, Made
  <2>2. /\ sleep'[x] \in {"woken", "passed"} /\ sleep[x] = "woken"
        /\ caller' = caller /\ target' = target /\ seen' = seen
    BY <1>3 DEF WgWaitWake, Inv, TypeOK
  <2>3. \A y \in Waits : y # x => sleep'[y] = sleep[y]
    BY <1>3 DEF WgWaitWake, Inv, TypeOK
  <2> QED
    BY <1>3, <2>1, <2>2, <2>3, WaitMove DEF WgWaitWake, Inv, WaitInv, Settled
<1>4. CASE WaitReturn(x)
  <2>1. TypeOK'
    BY <1>4 DEF WaitReturn, Inv, TypeOK, Made
  <2>2. /\ sleep'[x] = "gone" /\ sleep[x] = "passed" /\ caller'[x] = "returned"
        /\ caller[x] # "none" /\ target' = target /\ seen' = seen
    BY <1>4 DEF WaitReturn, Inv, TypeOK
  <2>3. \A y \in Waits : y # x => sleep'[y] = sleep[y] /\ caller'[y] = caller[y]
    BY <1>4 DEF WaitReturn, Inv, TypeOK
  <2> QED
    BY <1>4, <2>1, <2>2, <2>3, WaitMove DEF WaitReturn, Inv, WaitInv, Settled
<1>5. CASE WaitTimeout(x)
  <2>1. TypeOK'
    BY <1>5 DEF WaitTimeout, Inv, TypeOK, Made
  <2>2. /\ sleep' = sleep /\ caller'[x] = "timedOut" /\ caller[x] = "timed"
        /\ target' = target /\ seen' = seen
    BY <1>5 DEF WaitTimeout, Inv, TypeOK
  <2>3. \A y \in Waits : y # x => caller'[y] = caller[y]
    BY <1>5 DEF WaitTimeout, Inv, TypeOK
  <2> QED
    BY <1>5, <2>1, <2>2, <2>3, WaitMove DEF WaitTimeout, Inv, WaitInv, Settled
<1> QED
  BY <1>1, <1>2, <1>3, <1>4, <1>5 DEF WaitStep

LEMMA StepInv == Inv /\ [Next]_vars => Inv'
<1> SUFFICES ASSUME Inv, [Next]_vars PROVE Inv'
  OBVIOUS
<1>1. CASE UNCHANGED vars
  <2>1. \A w : UnitsOf(w)' = UnitsOf(w)
    BY <1>1 DEF UnitsOf, vars, unitVars
  <2> QED
    BY <1>1, <2>1 DEF vars, regVars, unitVars, waitVars, Inv, TypeOK, Made,
       Registered, StoreInv, LiveUnlessRaced, Counted, StrayOnlyIfReplaced,
       UnitInv, WaitInv, Settled
<1>2. CASE Next
  BY <1>2, RegistryStep, AddInv, DoneInv, UnitStepInv, WaitStepInv DEF Next, Keys
<1> QED
  BY <1>1, <1>2

LEMMA Invariant == Spec => []Inv
<1>1. Inv /\ [Next]_vars => Inv'
  BY StepInv
<1> QED
  BY <1>1, InitInv, PTL DEF Spec

-----------------------------------------------------------------------------
(* Every variable of the registry and its WaitGroups keeps its type; that  *)
(* of count says that no WaitGroup is counted below zero unless a Done by  *)
(* key went astray there.                                                  *)
THEOREM TypeCorrect == Spec => []TypeOK
<1>1. Inv => TypeOK
  BY DEF Inv
<1> QED
  BY <1>1, Invariant, PTL

(* The counter of every WaitGroup is the number of its units that are not  *)
(* done, until a Done by key for one WaitGroup finds another one, or none. *)
THEOREM CountersAreExact == Spec => []CountExact
<1>1. Inv => CountExact
  BY DEF Inv, TypeOK, Counted, CountExact, Made, WaitGroups
<1> QED
  BY <1>1, Invariant, PTL

(* That happens only for a key one of whose WaitGroups was deleted, or     *)
(* stored in the middle of a NewWaiter.                                    *)
THEOREM DoneGoesAstrayOnlyThen == Spec => []StrayOnlyIfReplaced
<1>1. Inv => StrayOnlyIfReplaced
  BY DEF Inv
<1> QED
  BY <1>1, Invariant, PTL

(* A Wait that returns before its timer, and every WaitInfinity that       *)
(* returns, finds done what was not when it was called.                    *)
THEOREM WaitsAreLongEnough == Spec => []NoEarlyReturn
<1>1. Inv => NoEarlyReturn
  BY DEF Inv, WaitInv, Settled, NoEarlyReturn
<1> QED
  BY <1>1, Invariant, PTL

(* However many goroutines call NewWaiter, MayWaiter and DelWaiter of one  *)
(* key, a WaitGroup that was given out and not deleted is the one the key  *)
(* stands for, unless it was stored in the middle of a NewWaiter.          *)
THEOREM LiveStayRegistered == Spec => []LiveUnlessRaced
<1>1. Inv => LiveUnlessRaced
  BY DEF Inv, StoreInv
<1> QED
  BY <1>1, Invariant, PTL
=============================================================================
