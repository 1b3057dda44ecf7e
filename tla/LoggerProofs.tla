---------------------------- MODULE LoggerProofs ----------------------------
(***************************************************************************)
(* Theorems about Logger, for any goroutines and any texts of the levels.  *)
(***************************************************************************)
EXTENDS Logger, TLAPS

USE LoggerAssumption

(* The cores are there before SLog is, and ReloadLogLv works only after. *)
Order ==
  /\ slog <=> ipc = "returned"
  /\ ipc \in {"open", "publish", "returned"} => level \in Levels
  /\ ipc \in {"publish", "returned"} =>
       /\ {InfoFile, ErrorFile} \subseteq cores
       /\ logger = (AssignOn = FALSE)
  /\ rpc # "idle" => slog

(* What a core has answered by core c being in S: the files by severity,   *)
(* the others by a level that the call has seen.                           *)
Right(k, c, S) ==
  /\ c = InfoFile => (c \in S <=> k.lvl >= Info)
  /\ c = ErrorFile => (c \in S <=> k.lvl >= Error)
  /\ c \in Leveled =>
       /\ c \in S => \E v \in k.seen : k.lvl >= v
       /\ (\A v \in k.seen : k.lvl >= v) => c \in S

AtGate(k) ==
  /\ k.todo # {} /\ k.todo \subseteq cores /\ k.gates # 0
  /\ k.picked = {} /\ k.offered = {}
  /\ \A c \in cores \ k.todo : Right(k, c, {})

Checking(k) ==
  /\ k.todo # {} /\ k.todo \subseteq cores /\ k.picked \subseteq cores \ k.todo
  /\ k.offered = {}
  /\ \A c \in cores \ k.todo : Right(k, c, k.picked)

Writing(k) ==
  /\ k.todo \subseteq k.picked /\ k.picked \subseteq cores
  /\ k.offered = k.picked \ k.todo
  /\ \A c \in cores : Right(k, c, k.picked)

Ended(k) ==
  k.how # "nil" => /\ slog /\ k.offered \subseteq cores
                   /\ \A c \in cores : Right(k, c, k.offered)

CallInv(k) ==
  /\ k.pc \in {"gate", "check", "write"} =>
       slog /\ logger /\ level \in k.seen /\ k.how = ""
  /\ k.pc = "idle" => k.how = ""
  /\ k.pc = "gate" => AtGate(k)
  /\ k.pc = "check" => Checking(k)
  /\ k.pc = "write" => Writing(k)
  /\ k.pc = "ended" => Ended(k)

Routing == \A p \in Callers : CallInv(call[p])

Inv == TypeOK /\ Order /\ Routing

Following ==
  /\ ~slog => unread
  /\ slog /\ rpc = "idle" /\ ~unread =>
       Parsed(cfg) = NoLevel \/ level = Parsed(cfg)
  /\ rpc = "read" => oldLv = level
  /\ rpc = "set" /\ ~unread => lv = Parsed(cfg)

-----------------------------------------------------------------------------
LEMMA ParsedType == \A t : Parsed(t) \in Levels \cup {NoLevel}
  BY DEF Parsed, Levels, NoLevel, Debug, Info, Warn, Error, Fatal

(* There is a first core in every set that has one. *)
LEMMA FirstIsThere ==
  ASSUME NEW S \in SUBSET Cores, S # {}
  PROVE  First(S) \in S
<1>1. \E c \in S : \A d \in S : c <= d
  <2> USE DEF Cores, InfoFile, Console
  <2>1. CASE 1 \in S
    BY <2>1
  <2>2. CASE 1 \notin S /\ 2 \in S
    BY <2>2
  <2>3. CASE 1 \notin S /\ 2 \notin S /\ 3 \in S
    BY <2>3
  <2>4. CASE 1 \notin S /\ 2 \notin S /\ 3 \notin S
    <3>1. \A c \in S : c \in 1 .. 4 /\ c # 1 /\ c # 2 /\ c # 3
      BY <2>4
    <3>2. \A c \in S : c = 4
      BY <3>1
    <3>3. PICK c \in S : TRUE
      BY Zenon
    <3>4. c <= c
      BY <3>2
    <3> QED
      BY <3>2, <3>3, <3>4, Zenon
  <2> QED
    BY <2>1, <2>2, <2>3, <2>4
<1> QED
  BY <1>1 DEF First

LEMMA MethodsAreLevels == Methods \subseteq Levels /\ Info \in Levels
  BY DEF Methods, Levels, Debug, Info, Warn, Error, Panic, Fatal

LEMMA NoCallType ==
  /\ NoCall \in Call
  /\ NoCall.pc = "idle" /\ NoCall.how = ""
  /\ NoCall.picked = {} /\ NoCall.offered = {}
<1>1. NoCall \in Call
  BY MethodsAreLevels DEF NoCall, Call
<1>2. NoCall.pc = "idle" /\ NoCall.how = ""
  BY DEF NoCall
<1>3. NoCall.picked = {} /\ NoCall.offered = {}
  BY DEF NoCall
<1> QED
  BY <1>1, <1>2, <1>3

(* What the steps of a call do to its record. *)
LEMMA BecomeType ==
  ASSUME TypeOK, NEW p \in Callers, NEW k \in Call, Become(p, k)
  PROVE  call' \in [Callers -> Call]
  BY DEF TypeOK, Become

LEMMA InitType == Init => TypeOK
<1> SUFFICES ASSUME Init PROVE TypeOK
  OBVIOUS
<1> QED
  BY NoCallType, MethodsAreLevels DEF Init, TypeOK

LEMMA CallStepType ==
  ASSUME TypeOK, Order, Routing, NEW p \in Callers,
         LogStep(p) \/ (\E l \in Methods, t \in {"SLog", "gen"} : LogCall(p, l, t))
  PROVE  TypeOK'
<1> USE DEF NoOther
<1> DEFINE k == call[p]
<1>0. k \in Call /\ CallInv(k) /\ cores \subseteq Cores
  BY DEF TypeOK, Routing
<1>1. ASSUME NEW l \in Methods, NEW t \in {"SLog", "gen"}, LogCall(p, l, t)
      PROVE TypeOK'
  <2> DEFINE n == [NoCall EXCEPT !.lvl = l, !.ready = slog]
  <2>1. n \in Call
    <3>1. slog \in BOOLEAN
      BY DEF TypeOK
    <3> QED
      BY <3>1, NoCallType, MethodsAreLevels DEF Call
  <2>2. CASE Found(t) /\ logger
    <3>1. level \in Levels
      BY <2>2 DEF Found, TypeOK
    <3>2. Gates(l) \in 0 .. 2
      BY DEF Gates
    <3>3. ASSUME NEW m \in Call
          PROVE  [m EXCEPT !.pc = IF Gates(l) = 0 THEN "check" ELSE "gate",
                    !.gates = Gates(l), !.todo = cores, !.seen = {level}] \in Call
      BY <3>1, <3>2, <1>0 DEF Call
    <3>4. [n EXCEPT !.pc = IF Gates(l) = 0 THEN "check" ELSE "gate",
                    !.gates = Gates(l), !.todo = cores, !.seen = {level}] \in Call
      BY <2>1, <3>3
    <3> QED
      BY <1>1, <2>2, <3>4, BecomeType DEF LogCall, TypeOK, initVars, reloadVars
  <2>3. CASE ~(Found(t) /\ logger)
    <3>1. [n EXCEPT !.pc = "ended", !.how = "nil"] \in Call
      BY <2>1 DEF Call
    <3> QED
      BY <1>1, <2>3, <3>1, BecomeType DEF LogCall, TypeOK, initVars, reloadVars
  <2> QED
    BY <2>2, <2>3
<1>2. CASE AskGate(p)
  <2>1. AtGate(k) /\ k.gates \in 0 .. 2 /\ k.todo \in SUBSET Cores
    BY <1>2, <1>0 DEF AskGate, CallInv, Call
  <2>2. First(k.todo) \in k.todo /\ k.gates \in {1, 2}
    BY <2>1, FirstIsThere DEF AtGate
  <2>3. k.gates - 1 \in 0 .. 2
    BY <2>2
  <2>4. [k EXCEPT !.pc = IF k.gates = 1 THEN "check" ELSE "gate",
                  !.gates = @ - 1, !.todo = cores] \in Call
    BY <1>0, <2>3 DEF Call
  <2>5. [k EXCEPT !.pc = "ended", !.how = "returned",
                  !.gates = 0, !.todo = {}] \in Call
    <3>1. 0 \in 0 .. 2 /\ {} \in SUBSET Cores
      OBVIOUS
    <3> QED
      BY <1>0, <3>1 DEF Call
  <2>6. [k EXCEPT !.todo = @ \ {First(k.todo)}] \in Call
    BY <1>0 DEF Call
  <2> QED
    BY <1>2, <2>4, <2>5, <2>6, BecomeType
    DEF AskGate, TypeOK, initVars, reloadVars
<1>3. CASE AskCore(p)
  <2>1. First(k.todo) \in k.todo
    <3>1. Checking(k) /\ k.todo \in SUBSET Cores
      BY <1>3, <1>0 DEF AskCore, CallInv, Call
    <3> QED
      BY <3>1, FirstIsThere DEF Checking
  <2> DEFINE yes == IF Enabled(First(k.todo), k.lvl)
                    THEN k.picked \cup {First(k.todo)} ELSE k.picked
  <2>2. yes \in SUBSET Cores
    BY <1>0, <2>1 DEF Call
  <2> HIDE DEF yes
  <2>3. [k EXCEPT !.pc = "write", !.picked = yes, !.todo = yes] \in Call
    BY <1>0, <2>2 DEF Call
  <2>4. [k EXCEPT !.picked = yes, !.todo = @ \ {First(k.todo)}] \in Call
    BY <1>0, <2>2 DEF Call
  <2> QED
    BY <1>3, <2>3, <2>4, BecomeType DEF AskCore, TypeOK, initVars, reloadVars, yes
<1>4. CASE Offer(p)
  <2>1. First(k.todo) \in k.todo
    BY <1>4, <1>0, FirstIsThere DEF Offer, Call
  <2>2. PICK n \in Call : Become(p, n)
    BY <1>4, <1>0, <2>1 DEF Offer, Call
  <2> QED
    BY <1>4, <2>2, BecomeType DEF Offer, TypeOK, initVars, reloadVars
<1>5. CASE EndCall(p)
  <2>1. PICK n \in Call : Become(p, n)
    BY <1>5, <1>0 DEF EndCall, Call
  <2>2. exited' \in BOOLEAN
    BY <1>5 DEF EndCall
  <2> QED
    BY <1>5, <2>1, <2>2, BecomeType DEF EndCall, TypeOK, initVars, reloadVars
<1> QED
  BY <1>1, <1>2, <1>3, <1>4, <1>5 DEF LogStep

LEMMA StepType == Inv /\ [Next]_vars => TypeOK'
<1> SUFFICES ASSUME TypeOK, Order, Routing, [Next]_vars PROVE TypeOK'
  BY DEF Inv
<1> USE DEF TypeOK, reloadVars, initVars
<1>1. CASE InitParse
  BY <1>1, ParsedType DEF InitParse
<1>2. CASE InitOpen
  BY <1>2 DEF InitOpen, WantedCores, Assigned, Cores, InfoFile, Console, DebugFile
<1>3. CASE Publish
  BY <1>3 DEF Publish, Order
<1>4. CASE Configure
  BY <1>4 DEF Configure
<1>5. CASE ReloadBegin
  BY <1>5 DEF ReloadBegin
<1>6. CASE ReloadRead
  BY <1>6, ParsedType, MethodsAreLevels DEF ReloadRead, ReloadReturns
<1>7. CASE ReloadSet
  <2>1. ASSUME NEW p \in Callers
        PROVE  [call[p] EXCEPT !.seen = @ \cup {lv}] \in Call
    BY DEF Call
  <2>2. call' \in [Callers -> Call]
    BY <1>7, <2>1 DEF ReloadSet, SetLevel
  <2> QED
    BY <1>7, <2>2, MethodsAreLevels DEF ReloadSet, SetLevel, ReloadReturns
<1>8. ASSUME NEW p \in Callers,
             LogStep(p) \/ (\E l \in Methods, t \in {"SLog", "gen"} : LogCall(p, l, t))
      PROVE TypeOK'
  BY <1>8, CallStepType
<1>9. CASE UNCHANGED vars
  BY <1>9 DEF vars
<1> QED
  BY <1>1, <1>2, <1>3, <1>4, <1>5, <1>6, <1>7, <1>8, <1>9
  DEF Next, InitSimpleLog, ReloadLogLv

-----------------------------------------------------------------------------
LEMMA InitOrder == Init => Order
  BY DEF Init, Order

LEMMA StepOrder == Inv /\ [Next]_vars => Order'
<1> SUFFICES ASSUME TypeOK, Order, [Next]_vars PROVE Order'
  BY DEF Inv
<1> USE DEF Order, initVars, reloadVars
<1>1. CASE InitParse
  BY <1>1, ParsedType DEF InitParse, TypeOK
<1>2. CASE InitOpen
  BY <1>2 DEF InitOpen, WantedCores, Assigned, Cores, InfoFile, ErrorFile,
             DebugFile, Console
<1>3. CASE Publish
  BY <1>3 DEF Publish
<1>4. CASE Configure
  BY <1>4 DEF Configure
<1>5. CASE ReloadBegin
  BY <1>5 DEF ReloadBegin
<1>6. CASE ReloadRead
  BY <1>6 DEF ReloadRead, ReloadReturns
<1>7. CASE ReloadSet
  BY <1>7 DEF ReloadSet, SetLevel, ReloadReturns, TypeOK
<1>8. ASSUME NEW p \in Callers,
             LogStep(p) \/ (\E l \in Methods, t \in {"SLog", "gen"} : LogCall(p, l, t))
      PROVE Order'
  <2>1. NoOther
    BY <1>8, Zenon DEF LogStep, LogCall, AskGate, AskCore, Offer, EndCall
  <2> QED
    BY <2>1 DEF NoOther
<1>9. CASE UNCHANGED vars
  BY <1>9 DEF vars
<1> QED
  BY <1>1, <1>2, <1>3, <1>4, <1>5, <1>6, <1>7, <1>8, <1>9
  DEF Next, InitSimpleLog, ReloadLogLv

-----------------------------------------------------------------------------
(* The answers of the cores, one look after another. *)

(* What core c answers is right for it. *)
LEMMA AnswerIsRight ==
  ASSUME NEW k, NEW c, level \in k.seen, NEW S, c \in S <=> Enabled(c, k.lvl)
  PROVE  c \in Cores => Right(k, c, S)
<1> SUFFICES ASSUME c \in Cores PROVE Right(k, c, S)
  OBVIOUS
<1> USE DEF Enabled, Severity, Right, Leveled, InfoFile, ErrorFile, DebugFile, Console
<1>1. c = 1 \/ c = 2 \/ c = 3 \/ c = 4
  BY DEF Cores
<1>2. CASE c = 1
  BY <1>2
<1>3. CASE c = 2
  BY <1>3
<1>4. CASE c = 3
  BY <1>4
<1>5. CASE c = 4
  BY <1>5
<1> QED
  BY <1>1, <1>2, <1>3, <1>4, <1>5

(* Right looks at one core only, and at the level and the past of the call. *)
LEMMA RightCarries ==
  ASSUME NEW k, NEW n, NEW c, NEW S, NEW T, Right(k, c, S),
         c \in S <=> c \in T, n.lvl = k.lvl, n.seen = k.seen
  PROVE  Right(n, c, T)
  BY DEF Right

LEMMA RightLasts ==
  ASSUME NEW k, NEW n, NEW c, NEW S, Right(k, c, S),
         n.lvl = k.lvl, k.seen \subseteq n.seen
  PROVE  Right(n, c, S)
  BY DEF Right

LEMMA InitRouting == Init => Routing
<1> SUFFICES ASSUME Init, NEW p \in Callers PROVE CallInv(call[p])
  BY DEF Routing
<1>1. call[p] = NoCall
  BY DEF Init
<1>2. call[p].pc = "idle" /\ call[p].how = ""
  BY <1>1, NoCallType
<1>3. call[p].pc \notin {"gate", "check", "write", "ended"}
  BY <1>2
<1> QED
  BY <1>2, <1>3, Zenon DEF CallInv

(* A call whose record stays k, while nothing it depends on changes. *)
LEMMA RoutingKept ==
  ASSUME NEW k, CallInv(k), UNCHANGED <<slog, logger, level, cores>>
  PROVE  CallInv(k)'
<1>1. AtGate(k) => AtGate(k)'
  BY DEF AtGate, Right
<1>2. Checking(k) => Checking(k)'
  BY Zenon DEF Checking, Right
<1>3. Writing(k) => Writing(k)'
  BY Zenon DEF Writing, Right
<1>4. Ended(k) => Ended(k)'
  BY Zenon DEF Ended, Right
<1> QED
  BY <1>1, <1>2, <1>3, <1>4 DEF CallInv

(* Before SLog is set every call has died of it, or none has been made. *)
LEMMA NoRoutingYet ==
  ASSUME NEW q \in Callers, CallInv(call[q]), ~slog, call' = call
  PROVE  CallInv(call[q])'
<1>1. call[q].pc \notin {"gate", "check", "write"}
  BY DEF CallInv
<1>2. call[q].pc = "ended" => call[q].how = "nil"
  BY DEF CallInv, Ended
<1>3. call[q].pc = "idle" => call[q].how = ""
  BY DEF CallInv
<1> QED
  BY <1>1, <1>2, <1>3 DEF CallInv, Ended

LEMMA SetLevelRouting ==
  ASSUME TypeOK, Routing, NEW q \in Callers, NEW v, SetLevel(v),
         UNCHANGED <<slog, logger, cores>>
  PROVE  CallInv(call[q])'
<1> SUFFICES ASSUME NEW k, NEW n, k = call[q], n = call'[q] PROVE CallInv(n)'
  BY Zenon
<1>0. k \in Call /\ CallInv(k) /\ level' = v
  BY DEF TypeOK, Routing, SetLevel
<1>1. CASE ~InCall(q)
  <2>1. n = k /\ k.pc \notin {"gate", "check", "write"}
    BY <1>1 DEF SetLevel, InCall
  <2>2. Ended(k) => Ended(k)'
    BY Zenon DEF Ended, Right
  <2> QED
    BY <1>0, <2>1, <2>2 DEF CallInv
<1>2. CASE InCall(q)
  <2>1. n = [k EXCEPT !.seen = @ \cup {v}]
    BY <1>2 DEF SetLevel
  <2>2. /\ n.pc = k.pc /\ n.lvl = k.lvl /\ n.todo = k.todo /\ n.gates = k.gates
        /\ n.picked = k.picked /\ n.offered = k.offered /\ n.how = k.how
        /\ n.seen = k.seen \cup {v}
    BY <1>0, <2>1 DEF Call
  <2>3. \A c, S : Right(k, c, S) => Right(n, c, S)'
    BY <2>2, RightLasts DEF Right
  <2>4. AtGate(k) => AtGate(n)'
    BY <2>2, <2>3 DEF AtGate
  <2>5. Checking(k) => Checking(n)'
    BY <2>2, <2>3 DEF Checking
  <2>6. Writing(k) => Writing(n)'
    BY <2>2, <2>3 DEF Writing
  <2>7. k.pc \in {"gate", "check", "write"}
    BY <1>2 DEF InCall
  <2> QED
    BY <1>0, <2>2, <2>4, <2>5, <2>6, <2>7 DEF CallInv
<1> QED
  BY <1>1, <1>2

LEMMA AskGateRouting ==
  ASSUME Inv, NEW p \in Callers, AskGate(p)
  PROVE  CallInv(call[p])'
<1> SUFFICES ASSUME NEW k, NEW n, k = call[p], n = call'[p] PROVE CallInv(n)'
  BY Zenon
<1> DEFINE c == First(k.todo)
<1>1. /\ k \in Call /\ CallInv(k) /\ k.pc = "gate"
      /\ UNCHANGED <<slog, logger, level, cores>>
      /\ cores \subseteq Cores /\ (slog => {InfoFile, ErrorFile} \subseteq cores)
  BY DEF Inv, TypeOK, Order, Routing, AskGate, NoOther, initVars
<1>2. AtGate(k) /\ slog /\ logger /\ level \in k.seen /\ k.how = ""
  BY <1>1 DEF CallInv
<1>3. c \in k.todo /\ c \in cores
  BY <1>1, <1>2, FirstIsThere DEF AtGate
<1>4. CASE Enabled(c, k.lvl)
  <2>1. n = [k EXCEPT !.pc = IF k.gates = 1 THEN "check" ELSE "gate",
                      !.gates = @ - 1, !.todo = cores]
    BY <1>4 DEF AskGate, Become, Inv, TypeOK
  <2>2. /\ n.pc = (IF k.gates = 1 THEN "check" ELSE "gate")
        /\ n.todo = cores /\ n.gates = k.gates - 1
        /\ n.picked = k.picked /\ n.offered = k.offered /\ n.how = k.how
        /\ n.seen = k.seen
    BY <1>1, <2>1 DEF Call
  <2>3. n.pc = "gate" => AtGate(n)'
    <3>1. k.gates \in 0 .. 2 /\ k.gates # 0
      BY <1>1, <1>2 DEF AtGate, Call
    <3>2. n.pc = "gate" => n.gates # 0
      BY <2>2, <3>1
    <3>3. \A d : d \notin cores \ n.todo
      BY <2>2
    <3> QED
      BY <1>1, <1>2, <1>3, <2>2, <3>2, <3>3 DEF AtGate
  <2>4. n.pc = "check" => Checking(n)'
    BY <1>1, <1>2, <1>3, <2>2 DEF AtGate, Checking
  <2> QED
    BY <1>1, <1>2, <2>2, <2>3, <2>4 DEF CallInv
<1>5. CASE ~Enabled(c, k.lvl) /\ k.todo # {c}
  <2>1. n = [k EXCEPT !.todo = @ \ {c}]
    BY <1>5 DEF AskGate, Become, Inv, TypeOK
  <2>2. /\ n.pc = k.pc /\ n.lvl = k.lvl /\ n.gates = k.gates
        /\ n.todo = k.todo \ {c} /\ n.picked = k.picked
        /\ n.offered = k.offered /\ n.how = k.how /\ n.seen = k.seen
    BY <1>1, <2>1 DEF Call
  <2>3. Right(k, c, {})
    BY <1>1, <1>2, <1>3, <1>5, AnswerIsRight
  <2>4. ASSUME NEW d \in cores \ n.todo PROVE Right(n, d, {})
    <3>1. Right(k, d, {})
      BY <1>2, <2>2, <2>3, <2>4 DEF AtGate
    <3> QED
      BY <2>2, <3>1, RightCarries
  <2>5. n.todo # {}
    BY <1>3, <1>5, <2>2
  <2>6. AtGate(n)'
    BY <1>1, <1>2, <2>2, <2>4, <2>5 DEF AtGate, Right
  <2> QED
    BY <1>1, <1>2, <2>2, <2>6 DEF CallInv
<1>6. CASE ~Enabled(c, k.lvl) /\ k.todo = {c}
  <2>1. n = [k EXCEPT !.pc = "ended", !.how = "returned",
                      !.gates = 0, !.todo = {}]
    BY <1>6 DEF AskGate, Become, Inv, TypeOK
  <2>2. /\ n.pc = "ended" /\ n.lvl = k.lvl /\ n.how = "returned"
        /\ n.offered = k.offered /\ n.seen = k.seen
    BY <1>1, <2>1 DEF Call
  <2>3. Right(k, c, {})
    BY <1>1, <1>2, <1>3, <1>6, AnswerIsRight
  <2>4. \A d \in cores : Right(k, d, {})
    BY <1>2, <1>6, <2>3 DEF AtGate
  <2>5. \A d \in cores : Right(n, d, n.offered)
    BY <1>2, <2>2, <2>4, RightCarries DEF AtGate
  <2>6. Ended(n)'
    BY <1>1, <1>2, <2>2, <2>5 DEF Ended, AtGate, Right
  <2> QED
    BY <2>2, <2>6 DEF CallInv
<1> QED
  BY <1>4, <1>5, <1>6

LEMMA AskCoreRouting ==
  ASSUME Inv, NEW p \in Callers, AskCore(p)
  PROVE  CallInv(call[p])'
<1> SUFFICES ASSUME NEW k, NEW n, k = call[p], n = call'[p] PROVE CallInv(n)'
  BY Zenon
<1> DEFINE c == First(k.todo)
<1> DEFINE yes == IF Enabled(c, k.lvl) THEN k.picked \cup {c} ELSE k.picked
<1>1. /\ k \in Call /\ CallInv(k) /\ k.pc = "check"
      /\ UNCHANGED <<slog, logger, level, cores>> /\ cores \subseteq Cores
  BY DEF Inv, TypeOK, Routing, AskCore, NoOther, initVars
<1>2. Checking(k) /\ slog /\ logger /\ level \in k.seen /\ k.how = ""
  BY <1>1 DEF CallInv
<1>3. c \in k.todo /\ c \in cores /\ c \notin k.picked
  BY <1>1, <1>2, FirstIsThere DEF Checking
<1>4. Right(k, c, yes)
  <2>1. c \in yes <=> Enabled(c, k.lvl)
    BY <1>3
  <2> QED
    BY <1>1, <1>2, <1>3, <2>1, AnswerIsRight
<1>5. ASSUME NEW d \in cores \ k.todo PROVE Right(k, d, yes)
  <2>1. Right(k, d, k.picked)
    BY <1>2, <1>5 DEF Checking
  <2>2. d \in k.picked <=> d \in yes
    BY <1>3, <1>5
  <2> QED
    BY <2>1, <2>2, RightCarries
<1>6. yes \subseteq cores \ (k.todo \ {c})
  BY <1>2, <1>3 DEF Checking
<1> HIDE DEF yes
<1>7. CASE k.todo = {c}
  <2>1. n = [k EXCEPT !.pc = "write", !.picked = yes, !.todo = yes]
    BY <1>7 DEF AskCore, Become, Inv, TypeOK, yes
  <2>2. /\ n.pc = "write" /\ n.lvl = k.lvl /\ n.todo = yes /\ n.picked = yes
        /\ n.offered = k.offered /\ n.how = k.how /\ n.seen = k.seen
    BY <1>1, <2>1 DEF Call
  <2>3. \A d \in cores : Right(k, d, yes)
    BY <1>4, <1>5, <1>7
  <2>4. \A d \in cores : Right(n, d, n.picked)
    BY <2>2, <2>3, RightCarries
  <2>5. Writing(n)'
    BY <1>1, <1>2, <1>6, <2>2, <2>4 DEF Writing, Checking, Right
  <2> QED
    BY <1>1, <1>2, <2>2, <2>5 DEF CallInv
<1>8. CASE k.todo # {c}
  <2>1. n = [k EXCEPT !.picked = yes, !.todo = @ \ {c}]
    BY <1>8 DEF AskCore, Become, Inv, TypeOK, yes
  <2>2. /\ n.pc = k.pc /\ n.lvl = k.lvl /\ n.todo = k.todo \ {c}
        /\ n.picked = yes /\ n.offered = k.offered /\ n.how = k.how
        /\ n.seen = k.seen
    BY <1>1, <2>1 DEF Call
  <2>3. \A d \in cores \ n.todo : Right(k, d, yes)
    BY <1>4, <1>5, <2>2
  <2>4. \A d \in cores \ n.todo : Right(n, d, n.picked)
    BY <2>2, <2>3, RightCarries
  <2>5. n.todo # {}
    BY <1>3, <1>8, <2>2
  <2>6. Checking(n)'
    BY <1>1, <1>2, <1>6, <2>2, <2>4, <2>5 DEF Checking, Right
  <2> QED
    BY <1>1, <1>2, <2>2, <2>6 DEF CallInv
<1> QED
  BY <1>7, <1>8

LEMMA WriteRouting ==
  ASSUME Inv, NEW p \in Callers, Offer(p) \/ EndCall(p)
  PROVE  CallInv(call[p])'
<1> SUFFICES ASSUME NEW k, NEW n, k = call[p], n = call'[p] PROVE CallInv(n)'
  BY Zenon
<1> DEFINE c == First(k.todo)
<1>1. /\ k \in Call /\ CallInv(k) /\ k.pc = "write"
      /\ UNCHANGED <<slog, logger, level, cores>>
  BY DEF Inv, TypeOK, Routing, Offer, EndCall, NoOther, initVars
<1>2. Writing(k) /\ slog /\ logger /\ level \in k.seen /\ k.how = ""
  BY <1>1 DEF CallInv
<1>3. CASE Offer(p)
  <2>1. c \in k.todo
    BY <1>1, <1>3, FirstIsThere DEF Offer, Call
  <2>2. n = [k EXCEPT !.offered = @ \cup {c}, !.todo = @ \ {c}]
    BY <1>3 DEF Offer, Become, Inv, TypeOK
  <2>3. /\ n.pc = k.pc /\ n.lvl = k.lvl /\ n.todo = k.todo \ {c}
        /\ n.picked = k.picked /\ n.offered = k.offered \cup {c}
        /\ n.how = k.how /\ n.seen = k.seen
    BY <1>1, <2>2 DEF Call
  <2>4. \A d \in cores : Right(n, d, n.picked)
    BY <1>2, <2>3, RightCarries DEF Writing
  <2>5. n.offered = n.picked \ n.todo /\ n.todo \subseteq n.picked
    <3>1. /\ k.offered = k.picked \ k.todo /\ k.todo \subseteq k.picked
      BY <1>2 DEF Writing
    <3> HIDE DEF c
    <3> QED
      BY <2>1, <2>3, <3>1
  <2>6. n.todo \subseteq n.picked /\ n.picked \subseteq cores'
    BY <1>1, <1>2, <2>3, <2>5 DEF Writing
  <2>7. \A d \in cores' : Right(n, d, n.picked)'
    BY <1>1, <2>4 DEF Right
  <2>8. Writing(n)'
    BY <2>5, <2>6, <2>7 DEF Writing
  <2> QED
    BY <1>1, <1>2, <2>3, <2>8 DEF CallInv
<1>4. CASE EndCall(p)
  <2> DEFINE how == CASE k.lvl = Panic -> "panicked"
                      [] k.lvl = Fatal -> "exited"
                      [] OTHER -> "returned"
  <2>0. how \notin {"nil", ""}
    OBVIOUS
  <2> HIDE DEF how
  <2>1. n = [k EXCEPT !.pc = "ended", !.how = how, !.picked = {}]
    BY <1>4 DEF EndCall, Become, Inv, TypeOK, how
  <2>2. /\ n.pc = "ended" /\ n.lvl = k.lvl /\ n.how = how
        /\ n.offered = k.offered /\ n.seen = k.seen
    BY <1>1, <2>1 DEF Call
  <2>3. k.offered = k.picked
    BY <1>2, <1>4 DEF Writing, EndCall
  <2>4. \A d \in cores : Right(n, d, n.offered)
    BY <1>2, <2>2, <2>3, RightCarries DEF Writing
  <2>5. Ended(n)'
    BY <1>1, <1>2, <2>0, <2>2, <2>3, <2>4 DEF Ended, Writing, Right
  <2> QED
    BY <2>2, <2>5 DEF CallInv
<1> QED
  BY <1>3, <1>4

LEMMA LogCallRouting ==
  ASSUME Inv, NEW p \in Callers, NEW l \in Methods, NEW t \in {"SLog", "gen"},
         LogCall(p, l, t)
  PROVE  CallInv(call[p])'
<1> SUFFICES ASSUME NEW n, n = call'[p] PROVE CallInv(n)'
  BY Zenon
<1> DEFINE found == Found(t)
<1> DEFINE k == [NoCall EXCEPT !.lvl = l, !.ready = slog]
<1>1. /\ UNCHANGED <<slog, logger, level, cores>>
      /\ slog => {InfoFile, ErrorFile} \subseteq cores
  BY DEF LogCall, NoOther, initVars, Inv, Order
<1>2. /\ k.pc = "idle" /\ k.lvl = l /\ k.how = ""
      /\ k.picked = {} /\ k.offered = {}
  BY NoCallType DEF Call
<1>3. slog \in BOOLEAN
  BY DEF Inv, TypeOK
<1>4. k \in Call
  BY <1>3, NoCallType, MethodsAreLevels DEF Call
<1> HIDE DEF k, found
<1>5. CASE found /\ logger
  <2>1. n = [k EXCEPT !.pc = IF Gates(l) = 0 THEN "check" ELSE "gate",
                      !.gates = Gates(l), !.todo = cores, !.seen = {level}]
    BY <1>5 DEF LogCall, Become, Inv, TypeOK, k, found
  <2>2. /\ n.pc = (IF Gates(l) = 0 THEN "check" ELSE "gate")
        /\ n.gates = Gates(l) /\ n.todo = cores /\ n.seen = {level}
        /\ n.picked = {} /\ n.offered = {} /\ n.how = ""
    BY <1>2, <1>4, <2>1 DEF Call
  <2>3. slog /\ cores # {} /\ cores \ n.todo = {}
    BY <1>1, <1>5, <2>2 DEF found, Found
  <2>4. n.pc = "gate" => AtGate(n)'
    BY <1>1, <2>2, <2>3 DEF AtGate
  <2>5. n.pc = "check" => Checking(n)'
    BY <1>1, <2>2, <2>3 DEF Checking
  <2> QED
    BY <1>1, <1>5, <2>2, <2>3, <2>4, <2>5 DEF CallInv
<1>6. CASE ~(found /\ logger)
  <2>1. n = [k EXCEPT !.pc = "ended", !.how = "nil"]
    BY <1>6 DEF LogCall, Become, Inv, TypeOK, k, found
  <2>2. n.pc = "ended" /\ n.how = "nil"
    BY <1>2, <1>4, <2>1 DEF Call
  <2>3. Ended(n)'
    BY <2>2 DEF Ended
  <2> QED
    BY <2>2, <2>3 DEF CallInv
<1> QED
  BY <1>5, <1>6

LEMMA StepRouting == Inv /\ [Next]_vars => Routing'
<1> SUFFICES ASSUME Inv, [Next]_vars, NEW q \in Callers
             PROVE  CallInv(call[q])'
  BY DEF Routing
<1>0. CallInv(call[q])
  BY DEF Inv, Routing
<1>1. CASE InitParse \/ InitOpen \/ Publish
  <2>1. ~slog /\ call' = call
    BY <1>1 DEF InitParse, InitOpen, Publish, Inv, Order
  <2> QED
    BY <1>0, <2>1, NoRoutingYet
<1>2. CASE Configure \/ ReloadBegin \/ ReloadRead \/ UNCHANGED vars
  <2>1. UNCHANGED <<slog, logger, level, cores, call>>
    BY <1>2 DEF Configure, ReloadBegin, ReloadRead, initVars, vars
  <2>2. PICK k : k = call[q]
    OBVIOUS
  <2>3. CallInv(k)'
    BY <1>0, <2>1, <2>2, RoutingKept
  <2> QED
    BY <2>1, <2>2, <2>3, Zenon
<1>3. CASE ReloadSet
  BY <1>3, SetLevelRouting DEF ReloadSet, Inv, initVars
<1>4. ASSUME NEW p \in Callers,
             LogStep(p) \/ (\E l \in Methods, t \in {"SLog", "gen"} : LogCall(p, l, t))
      PROVE CallInv(call[q])'
  <2>1. CASE p = q
    BY <1>4, <2>1, AskGateRouting, AskCoreRouting, WriteRouting, LogCallRouting
    DEF LogStep
  <2>2. CASE p # q
    <3>1. NoOther /\ \E k : Become(p, k)
      BY <1>4, Zenon DEF LogStep, LogCall, AskGate, AskCore, Offer, EndCall
    <3>2. call'[q] = call[q] /\ UNCHANGED <<slog, logger, level, cores>>
      BY <2>2, <3>1 DEF NoOther, initVars, Become, Inv, TypeOK
    <3>3. PICK k : k = call[q]
      OBVIOUS
    <3>4. CallInv(k)'
      BY <1>0, <3>2, <3>3, RoutingKept
    <3> QED
      BY <3>2, <3>3, <3>4, Zenon
  <2> QED
    BY <2>1, <2>2
<1> QED
  BY <1>1, <1>2, <1>3, <1>4 DEF Next, InitSimpleLog, ReloadLogLv

LEMMA InvHolds == Spec => []Inv
<1>1. Init => Inv
  BY InitType, InitOrder, InitRouting DEF Inv
<1>2. Inv /\ [Next]_vars => Inv'
  BY StepType, StepOrder, StepRouting DEF Inv
<1> QED
  BY <1>1, <1>2, PTL DEF Spec

-----------------------------------------------------------------------------
(* Every variable of the logger keeps its type, and SLog has a level once  *)
(* it is set.                                                              *)
THEOREM TypeCorrect == Spec => []TypeOK
<1>1. Inv => TypeOK
  BY DEF Inv
<1> QED
  BY <1>1, InvHolds, PTL

(* SLog is published last: once a call finds it set, the Logger and its    *)
(* cores stay as they are, also while ReloadLogLv runs.                    *)
THEOREM PublishedLast == Spec => PublishedIsFinal
<1>1. Inv /\ [Next]_vars => [slog => UNCHANGED <<logger, cores>>]_vars
  <2> SUFFICES ASSUME Inv, Next, slog PROVE UNCHANGED <<logger, cores>>
    OBVIOUS
  <2>1. ipc = "returned"
    BY DEF Inv, Order
  <2>2. CASE InitSimpleLog
    BY <2>1, <2>2 DEF InitSimpleLog, InitParse, InitOpen, Publish
  <2>3. CASE Configure \/ ReloadLogLv
    BY <2>3 DEF Configure, ReloadLogLv, ReloadBegin, ReloadRead, ReloadSet, initVars
  <2>4. ASSUME NEW p \in Callers,
               LogStep(p) \/ (\E l \in Methods, t \in {"SLog", "gen"} : LogCall(p, l, t))
        PROVE  UNCHANGED <<logger, cores>>
    <3>1. NoOther
      BY <2>4, Zenon DEF LogStep, LogCall, AskGate, AskCore, Offer, EndCall
    <3> QED
      BY <3>1 DEF NoOther, initVars
  <2> QED
    BY <2>2, <2>3, <2>4 DEF Next
<1> QED
  BY <1>1, InvHolds, PTL DEF Spec, PublishedIsFinal

(* Whatever ReloadLogLv does meanwhile, an entry has been offered to the    *)
(* sinks of its level, and to those only, when its call ends.              *)
THEOREM EntriesAreRouted == Spec => []Routed
<1>1. Inv => Routed
  <2> SUFFICES ASSUME Inv, NEW p \in Callers,
                      call[p].pc = "ended", call[p].how # "nil"
               PROVE  LET k == call[p] IN
                      /\ InfoFile \in k.offered <=> k.lvl >= Info
                      /\ ErrorFile \in k.offered <=> k.lvl >= Error
                      /\ \A c \in cores \cap Leveled :
                           /\ c \in k.offered => \E v \in k.seen : k.lvl >= v
                           /\ (\A v \in k.seen : k.lvl >= v) => c \in k.offered
                      /\ k.offered \subseteq cores
    BY DEF Routed
  <2>1. Ended(call[p])
    BY DEF Inv, Routing, CallInv
  <2>2. {InfoFile, ErrorFile} \subseteq cores
    BY <2>1 DEF Ended, Inv, Order
  <2>3. \A c \in cores : Right(call[p], c, call[p].offered)
    BY <2>1 DEF Ended
  <2> QED
    BY <2>1, <2>2, <2>3 DEF Ended, Right
<1> QED
  BY <1>1, InvHolds, PTL

(* Whenever ReloadLogLv is done with the configuration as it is, the level *)
(* is the one it asks for.                                                 *)
THEOREM ReloadsTakeEffect == Spec => []LevelFollowsConfig
<1>1. Init => Following
  BY DEF Init, Following
<1>2. Inv /\ Following /\ [Next]_vars => Following'
  <2> SUFFICES ASSUME Inv, Following, [Next]_vars PROVE Following'
    OBVIOUS
  <2> USE DEF Following, initVars, reloadVars
  <2>0. /\ rpc # "idle" => slog
        /\ slog <=> ipc = "returned"
        /\ rpc \in {"idle", "read", "set"}
    BY DEF Inv, Order, TypeOK
  <2>1. CASE InitParse \/ InitOpen \/ Publish
    BY <2>0, <2>1 DEF InitParse, InitOpen, Publish
  <2>2. CASE Configure
    BY <2>2 DEF Configure
  <2>3. CASE ReloadBegin
    BY <2>0, <2>3 DEF ReloadBegin
  <2>4. CASE ReloadRead
    BY <2>0, <2>4 DEF ReloadRead, ReloadReturns
  <2>5. CASE ReloadSet
    BY <2>0, <2>5 DEF ReloadSet, SetLevel, ReloadReturns
  <2>6. ASSUME NEW p \in Callers,
               LogStep(p) \/ (\E l \in Methods, t \in {"SLog", "gen"} : LogCall(p, l, t))
        PROVE Following'
    <3>1. NoOther
      BY <2>6, Zenon DEF LogStep, LogCall, AskGate, AskCore, Offer, EndCall
    <3> QED
      BY <3>1 DEF NoOther
  <2>7. CASE UNCHANGED vars
    BY <2>7 DEF vars
  <2> QED
    BY <2>1, <2>2, <2>3, <2>4, <2>5, <2>6, <2>7
    DEF Next, InitSimpleLog, ReloadLogLv
<1>3. Following => LevelFollowsConfig
  BY DEF Following, LevelFollowsConfig
<1> QED
  BY <1>1, <1>2, <1>3, InvHolds, PTL DEF Spec
=============================================================================
