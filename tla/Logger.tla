------------------------------- MODULE Logger -------------------------------
(***************************************************************************)
(* logger: InitSimpleLog makes the cores and publishes SLog, ReloadLogLv   *)
(* moves the level that two of the cores share, and goroutines log         *)
(* meanwhile, one look at a core and one write to a sink at a time.        *)
(*                                                                         *)
(* Between the logger and its cores is the zap of go.mod (1.23): a call    *)
(* below DPanic first asks whether any core is enabled, then each core     *)
(* whether it takes the entry, and the entry goes to those that said yes,  *)
(* whatever a sink among them answers.  A sink is a LogProxy, which takes  *)
(* the entry or refuses it after a while: either way the next one follows. *)
(***************************************************************************)
EXTENDS Integers

CONSTANTS
  Callers,  \* goroutines that log
  Texts,    \* what InitParam.LogLevel and logging.level may say
  AssignOn  \* initLog assigns Logger if `err != nil` has this value

(* zapcore.Level; DPanic (3) has no method in Logger. *)
Debug == -1
Info == 0
Warn == 1
Error == 2
Panic == 4
Fatal == 5
Levels == Debug .. Fatal
NoLevel == Fatal + 1

Methods == {Debug, Info, Warn, Error, Panic, Fatal}   \* Debugf to Fatalf

ASSUME LoggerAssumption == AssignOn \in BOOLEAN

(* Level.Set: the empty text, which is also what viper returns for a key   *)
(* that is missing, is Info.                                               *)
Parsed(text) ==
  CASE text \in {"debug", "DEBUG"} -> Debug
    [] text \in {"info", "INFO", ""} -> Info
    [] text = "warn" -> Warn
    [] text = "error" -> Error
    [] OTHER -> NoLevel

(* The cores in the order of the Tee. *)
InfoFile == 1
ErrorFile == 2
DebugFile == 3
Console == 4
Cores == InfoFile .. Console
Leveled == {DebugFile, Console}   \* those that look at the shared level

VARIABLES
  slog,    \* SLog is set
  logger,  \* its Logger is set
  level,   \* AtomLogLevel, NoLevel before there is one
  cores,   \* the cores of the Tee
  ipc,     \* where InitSimpleLog is
  param,   \* InitParam.LogLevel
  cfg,     \* logging.level of the configuration
  unread,  \* it has changed since ReloadLogLv last read it
  rpc,     \* where ReloadLogLv is
  oldLv,   \* its oldLv
  lv,      \* its lv
  exited,  \* the process is gone
  call     \* the call each goroutine is in, or was in last

initVars   == <<slog, logger, cores, ipc, param>>
reloadVars == <<cfg, unread, rpc, oldLv, lv>>
vars == <<initVars, level, reloadVars, exited, call>>

(* gates: how often a core must still be found enabled; todo: cores still  *)
(* to be asked, or written to; picked: those that said yes; ready: SLog    *)
(* was set when the call began; seen: the values the shared level has had  *)
(* during the call.                                                        *)
Call ==
  [pc : {"idle", "gate", "check", "write", "ended"}, lvl : Levels,
   ready : BOOLEAN, gates : 0 .. 2, todo : SUBSET Cores,
   picked : SUBSET Cores, offered : SUBSET Cores, seen : SUBSET Levels,
   how : {"", "returned", "nil", "panicked", "exited"}]

NoCall ==
  [pc |-> "idle", lvl |-> Info, ready |-> FALSE, gates |-> 0, todo |-> {},
   picked |-> {}, offered |-> {}, seen |-> {}, how |-> ""]

Init ==
  /\ slog = FALSE /\ logger = FALSE /\ level = NoLevel /\ cores = {}
  /\ ipc = "parse" /\ param \in Texts
  /\ cfg \in Texts /\ unread = TRUE
  /\ rpc = "idle" /\ oldLv = Info /\ lv = Info
  /\ exited = FALSE
  /\ call = [p \in Callers |-> NoCall]

-----------------------------------------------------------------------------
(* InitSimpleLog. *)

(* Mutant: AtomLogLevel stays the zero AtomicLevel, which has no level. *)
InitParseNoLevel ==
  /\ ipc = "parse"
  /\ ipc' = IF Parsed(param) = NoLevel THEN "failed" ELSE "open"
  /\ UNCHANGED <<level, slog, logger, cores, param, reloadVars, exited, call>>

(* Mutant: SLog is set before the cores are opened. *)
InitParsePublishing ==
  /\ ipc = "parse" /\ Parsed(param) # NoLevel
  /\ ipc' = "open" /\ level' = Parsed(param) /\ slog' = TRUE
  /\ UNCHANGED <<logger, cores, param, reloadVars, exited, call>>

(* A level that does not parse is the only error InitSimpleLog returns. *)
InitParse ==
  /\ ipc = "parse"
  /\ IF Parsed(param) = NoLevel
     THEN ipc' = "failed" /\ UNCHANGED level
     ELSE ipc' = "open" /\ level' = Parsed(param)
  /\ UNCHANGED <<slog, logger, cores, param, reloadVars, exited, call>>

(* There is a debug file only for the very text "debug". *)
WantedCores == IF param = "debug" THEN Cores ELSE Cores \ {DebugFile}

(* initZapLogger returns no error, and initLog looks for one. *)
Assigned == (FALSE = AssignOn)

(* rotatelogs.New fails or not, and getLoggerWriter panics where it does. *)
InitOpen ==
  /\ ipc = "open"
  /\ \/ /\ cores' = WantedCores /\ logger' = Assigned
        /\ ipc' = "publish"
     \/ ipc' = "died" /\ UNCHANGED <<cores, logger>>
  /\ UNCHANGED <<slog, level, param, reloadVars, exited, call>>

Publish ==
  /\ ipc = "publish"
  /\ slog' = TRUE /\ ipc' = "returned"
  /\ UNCHANGED <<logger, level, cores, param, reloadVars, exited, call>>

-----------------------------------------------------------------------------
(* ReloadLogLv, called by whoever watches the configuration.  Called while *)
(* SLog is nil it dies there and has changed nothing.                      *)

Configure ==
  /\ cfg' \in Texts \ {cfg} /\ unread' = TRUE
  /\ UNCHANGED <<initVars, level, rpc, oldLv, lv, exited, call>>

ReloadBegin ==
  /\ slog /\ rpc = "idle"
  /\ oldLv' = level /\ rpc' = "read"
  /\ UNCHANGED <<initVars, level, cfg, unread, lv, exited, call>>

(* ReloadLogLv returns: its locals are gone. *)
ReloadReturns == rpc' = "idle" /\ oldLv' = Info /\ lv' = Info

ReloadRead ==
  /\ rpc = "read"
  /\ unread' = FALSE
  /\ IF Parsed(cfg) \in {NoLevel, oldLv}
     THEN ReloadReturns
     ELSE rpc' = "set" /\ lv' = Parsed(cfg) /\ UNCHANGED oldLv
  /\ UNCHANGED <<initVars, level, cfg, exited, call>>

InCall(p) == call[p].pc \in {"gate", "check", "write"}

(* The level becomes v for all who look at it. *)
SetLevel(v) ==
  /\ level' = v
  /\ call' = [p \in Callers |->
                IF InCall(p) THEN [call[p] EXCEPT !.seen = @ \cup {v}]
                ELSE call[p]]

(* Mutant: the level that was there is set again. *)
ReloadSetOld ==
  /\ rpc = "set"
  /\ SetLevel(oldLv)
  /\ ReloadReturns
  /\ UNCHANGED <<initVars, cfg, unread, exited>>

ReloadSet ==
  /\ rpc = "set"
  /\ SetLevel(lv)
  /\ ReloadReturns
  /\ UNCHANGED <<initVars, cfg, unread, exited>>

-----------------------------------------------------------------------------
(* Debugf to Fatalf. *)

NoOther == UNCHANGED <<initVars, level, reloadVars>>

Become(p, k) == call' = [call EXCEPT ![p] = k]

(* Debugf asks Core().Enabled itself, and zap asks again below DPanic. *)
Gates(l) == IF l = Debug THEN 2 ELSE IF l < Panic THEN 1 ELSE 0

(* SLog as the call finds it.  The variable log of package gen has kept    *)
(* the nil that SLog was when the packages were initialised.               *)
Found(through) == slog /\ through = "SLog"

LogCall(p, l, through) ==
  LET k == [NoCall EXCEPT !.lvl = l, !.ready = slog] IN
  /\ ~InCall(p)
  /\ IF Found(through) /\ logger
     THEN Become(p, [k EXCEPT !.pc = IF Gates(l) = 0 THEN "check" ELSE "gate",
                              !.gates = Gates(l), !.todo = cores,
                              !.seen = {level}])
     ELSE Become(p, [k EXCEPT !.pc = "ended", !.how = "nil"])
  /\ NoOther /\ UNCHANGED exited

(* Enabled of InfoEnabled and ErrorEnabled. *)
Severity(c) == IF c = ErrorFile THEN Error ELSE Info

(* Mutant: the info file takes its level from AtomLogLevel too. *)
EnabledByLevel(c, l) ==
  IF c = ErrorFile THEN l >= Severity(c) ELSE l >= level

(* What getInfoCore to getConsoleCore give their cores to decide by. *)
Enabled(c, l) == IF c \in Leveled THEN l >= level ELSE l >= Severity(c)

First(cs) == CHOOSE c \in cs : \A d \in cs : c <= d

(* Tee.Enabled asks core after core until one says yes. *)
AskGate(p) ==
  LET k == call[p]
      c == First(k.todo) IN
  /\ k.pc = "gate"
  /\ IF Enabled(c, k.lvl)
     THEN Become(p, [k EXCEPT !.pc = IF k.gates = 1 THEN "check" ELSE "gate",
                              !.gates = @ - 1, !.todo = cores])
     ELSE IF k.todo = {c}
          THEN Become(p, [k EXCEPT !.pc = "ended", !.how = "returned",
                                   !.gates = 0, !.todo = {}])
          ELSE Become(p, [k EXCEPT !.todo = @ \ {c}])
  /\ NoOther /\ UNCHANGED exited

(* Tee.Check asks every core. *)
AskCore(p) ==
  LET k == call[p]
      c == First(k.todo)
      yes == IF Enabled(c, k.lvl) THEN k.picked \cup {c} ELSE k.picked IN
  /\ k.pc = "check"
  /\ IF k.todo = {c}
     THEN Become(p, [k EXCEPT !.pc = "write", !.picked = yes, !.todo = yes])
     ELSE Become(p, [k EXCEPT !.picked = yes, !.todo = @ \ {c}])
  /\ NoOther /\ UNCHANGED exited

(* CheckedEntry.Write: sink after sink, whether it takes the entry or not. *)
Offer(p) ==
  LET k == call[p]
      c == First(k.todo) IN
  /\ k.pc = "write" /\ k.todo # {}
  /\ Become(p, [k EXCEPT !.offered = @ \cup {c}, !.todo = @ \ {c}])
  /\ NoOther /\ UNCHANGED exited

(* Then the call ends as its level says.  Sync does nothing for a LogProxy, *)
(* so what the sinks still hold when the process exits is lost.            *)
EndCall(p) ==
  LET k == call[p]
      how == CASE k.lvl = Panic -> "panicked"
               [] k.lvl = Fatal -> "exited"
               [] OTHER -> "returned" IN
  /\ k.pc = "write" /\ k.todo = {}
  /\ Become(p, [k EXCEPT !.pc = "ended", !.how = how, !.picked = {}])
  /\ exited' = (how = "exited")
  /\ NoOther

-----------------------------------------------------------------------------
InitSimpleLog == InitParse \/ InitOpen \/ Publish

ReloadLogLv == ReloadBegin \/ ReloadRead \/ ReloadSet

LogStep(p) == AskGate(p) \/ AskCore(p) \/ Offer(p) \/ EndCall(p)

Next ==
  /\ ~exited
  /\ \/ InitSimpleLog
     \/ Configure \/ ReloadLogLv
     \/ \E p \in Callers :
          \/ \E l \in Methods, through \in {"SLog", "gen"} : LogCall(p, l, through)
          \/ LogStep(p)

Spec == Init /\ [][Next]_vars

-----------------------------------------------------------------------------
TypeOK ==
  /\ slog \in BOOLEAN /\ logger \in BOOLEAN
  /\ level \in Levels \cup {NoLevel} /\ (slog => level \in Levels)
  /\ cores \in SUBSET Cores
  /\ ipc \in {"parse", "open", "publish", "returned", "failed", "died"}
  /\ param \in Texts /\ cfg \in Texts /\ unread \in BOOLEAN
  /\ rpc \in {"idle", "read", "set"} /\ oldLv \in Levels /\ lv \in Levels
  /\ exited \in BOOLEAN
  /\ call \in [Callers -> Call]

(* "Infof logs a message at InfoLevel": who logs once SLog is set does not  *)
(* die of a nil pointer, and SLog is set when InitSimpleLog has returned    *)
(* nil.  As initLog is written (AssignOn = TRUE) every call dies of it, and *)
(* whatever initLog assigns, every call of package gen does.               *)
InitializedLoggerLogs ==
  /\ ipc = "returned" => slog
  /\ \A p \in Callers : call[p].ready => call[p].how # "nil"

(* SLog is published last: nothing that InitSimpleLog makes, the Logger    *)
(* and its cores, changes for a call that has found SLog set.              *)
PublishedIsFinal == [][slog => UNCHANGED <<logger, cores>>]_vars

(* An entry has been offered to every sink its level asks for when its     *)
(* call ends, and to no other one, however ReloadLogLv moves the level     *)
(* during the call and whether the call then returns, panics or exits: the *)
(* files go by severity alone, the console and the debug file by a level   *)
(* that held at some moment of the call.                                   *)
Routed ==
  \A p \in Callers :
    LET k == call[p]
        Shown(v) == k.lvl >= v IN
    k.pc = "ended" /\ k.how # "nil" =>
      /\ InfoFile \in k.offered <=> k.lvl >= Info
      /\ ErrorFile \in k.offered <=> k.lvl >= Error
      /\ \A c \in cores \cap Leveled :
           /\ c \in k.offered => \E v \in k.seen : Shown(v)
           /\ (\A v \in k.seen : Shown(v)) => c \in k.offered
      /\ k.offered \subseteq cores

(* Once ReloadLogLv has read the configuration and is done, the level is   *)
(* the one configured, though the configuration may change and the level   *)
(* be looked at while it runs, and it compares with a level read before.   *)
LevelFollowsConfig ==
  slog /\ rpc = "idle" /\ ~unread =>
    Parsed(cfg) = NoLevel \/ level = Parsed(cfg)
=============================================================================
