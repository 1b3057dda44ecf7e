# vlgo: specifications, model checking and proofs

vlgo is a small Go library for game servers: actors in the style of Erlang's
gen_server, a registry of wait groups, an asynchronous logger, a pool of timers
and a C header that patches functions of a running process. There are no tests
and almost no documents, and the packages do not compile together as they are
(imports mix `vlgo/...` with `github.com/LiPengfei/vlgo/...`). What the models
say is therefore read from the code alone, each definition from the lines that
`PROJECT.json` maps it to.

## 1. Inventory

| Component | Source | State | Operations |
|---|---|---|---|
| Actor | `gen/actor.go` | the loop's ticker and timeout, `Mailbox`, `InterruptBox`, `initRetCh`, a reply channel per call, `AfterFunc` timers | `Start`, `Call`/`TimeCall`, `Cast`, `AfterCast`, `StartTicker`, `StopTicker`, `ActorCaller.SendReply`, `loop`/`doLoop`/the four selects, `handleMail`, `handleRet`, `handleInteruput` |
| Waiter registry | `gen/wg.go` | `AllWaiters` (a `sync.Map`), the `WaitGroup`s in it, helpers of `Wait` | `NewWaiter`, `MayWaiter`, `DelWaiter`, `AddAndSpawnExec`, `Add`, `Run`, `DoneOne`, `Done`, `Wait`, `WaitInfinity` |
| Log proxy | `logger/logproxy/*.go` | `LogCh`, the lock-free `LogBufferCache`, the batch of `writeLog` | `Write`, `GetBuffer`, `PutBuffer`, `writeLog`, `process` |
| Timer pool | `timerpool/timepool.go` | a `sync.Pool` of `time.Timer`s | `GetTimer`, `PutTimer` |
| Hotfix | `hotfix/replace.h` | text of the process, `g_patched_list`, `g_handler` | `replace`, `replace_patch_func_*`, `open_patch`, `restore` |
| Logger set-up | `logger/logger.go`, `simple_logger.go`, `gen/gen.go` | `SLog` and its `Logger`, the cores, the atomic level, the configuration | `InitSimpleLog`, `initLog`, `initZapLogger`, `ReloadLogLv`, `Debugf` to `Fatalf` |
| Encoders | `logger/encoder/*.go` | pooled encoders and buffers, open namespaces | zap's `ObjectEncoder`, JSON and console |
| Error codes | `ecode/*` | none | `parse_code.sh` turns enum lines into Go code |
| Protocol | `proto/*` | none | message declarations and a build script |
| Debug helpers, `gen/sys.go`, bot command | `utils`, `gen`, `apps` | none | queries of the runtime, an interface, an empty main |

How they interact:

* An **actor** is one goroutine. Everyone else reaches it through channels:
  callers put an `ActorCall` with a reply channel into `Mailbox` and wait,
  `Cast` and fired `AfterCast` timers put an `ActorCast`, and each
  `StartTicker`/`StopTicker` spawns a goroutine that waits at `InterruptBox`. The
  handler `H` is the user's: it may answer a call by returning, or keep
  `ctx.Caller()`, return `CallNoRep` and have any goroutine answer later.
* `Start` makes the **waiter** `gen_<name>` and runs the loop under it. Waiters
  are found by key, and a goroutine that has one keeps it.
* The loggers write through the **log proxy**: any goroutine's `Write` copies the
  entry into a cached buffer and sends it to `LogCh`; one goroutine gathers
  batches and calls the `io.Writer`. When `LogCh` is full, `Write` waits on a timer
  from the **timer pool**.
* The console logger's core keeps a console **encoder**, `Logger.With` clones it and
  adds fields to the clone, and every entry is encoded in a clone of its own. The
  JSON encoder of the package, which the console encoder embeds, is not used by
  `logger.go` on its own: the files get zap's.
* `Infof` and its like go through zap: each **core** is asked whether it takes the
  entry, and the entry goes to the sink, a log proxy, of each that does. The console
  and the debug file look at one atomic level, which `ReloadLogLv` moves while
  others log.
* **Hotfix** is called from outside (a debugger or an injected library) and shares
  nothing with the Go code.

What is hard, and what makes each component correct:

* *Actor.* Two timeouts whose errors mean different things (`ErrActorCallTimeout`:
  not sent; `ErrActorHandleTimeout`: unknown), replies that come late or through
  another goroutine, a `Start` that times out while `Init` still runs, panics in
  any callback, ticks and commands that compete with the mailbox, and the flag
  that keeps `loop` going. Correct means: per-sender order, at most one execution
  and one answer per call, an answer to the right call, no reply that blocks the
  loop, every call returns, nothing after `Stop`.
* *Waiter registry.* Check-then-store in `NewWaiter`, counters reached through a
  key that may be deleted and made again, panicking work. Correct means: exact
  counters, one live `WaitGroup` per key, a wait that returns when the work is
  done and not before.
* *Log proxy.* Load and compare-and-swap apart, buffers that travel between
  goroutines without a lock, three writes per batch each of which may fail, panic
  or hang. Correct means: one owner per buffer, batches that fit, a queue.
* *Logger.* Globals that are set step by step and read by anyone, a level that moves
  between two looks of one call, a reload that compares with what it read before.
  Correct means: who finds the logger can log, an entry goes to the sinks of its
  level, the level is the configured one.
* *Timer pool.* `Stop` racing the runtime's expiry. Correct means: a pooled timer
  is at rest and the next user gets its own tick.
* *Encoders.* Separators are decided by the last byte of the buffer, namespaces are
  a counter that a clone takes along, user marshalers run in between and may
  fail, encoders and buffers are pooled. Correct means: one user per encoder and
  buffer, contexts that never change, a line that reads as what was logged.
* *Hotfix.* Jumps that overlap or repeat, bytes that are overwritten without being
  saved, libraries closed under jumps. Correct means: what `restore` promises.

Every hazard is listed at its line in `PROJECT.json`, with the properties that
would catch it, or why none does yet.

## 2. Modules

| Module | Contents |
|---|---|
| `Actor` | one actor, its clients, timers and reply goroutines |
| `Rpc` | abstract: what `TimeCall` promises a caller |
| `ActorRpc` | `Actor` with the refinement mapping to `Rpc` |
| `MCActor` | instances for TLC |
| `ActorProofs` | theorems: types, order, start, timeouts and replies, `Actor` implements `Rpc` |
| `Waiter`, `MCWaiter` | registry and wait groups |
| `WaiterProofs` | theorems: types, counters, waits, registry |
| `LogProxy` | `Write`, the buffer cache, `writeLog` |
| `LogQueue` | abstract: a queue that may lose what the `io.Writer` refuses |
| `MCLogProxy` | instances, and the refinement of `LogQueue` |
| `LogProxyProofs` | theorems: types, buffers, batches, refinement of `LogQueue` |
| `Logger` | set-up, levels, reload, log calls |
| `LoggerProofs` | theorems: types, set-up, routing, reload |
| `TimerPool`, `MCTimerPool` | the pool over timers of Go 1.21 |
| `TimerPoolProofs` | theorems: types, timers at rest, stale ticks |
| `JsonReader` | reference: what a JSON text says |
| `Encoder`, `MCEncoder` | both encoders, clones, pools, lines |
| `EncoderTextProofs` | lemmas: what each piece of text reads as |
| `EncoderProofs` | theorems: types, buffers, contexts of loggers, lines |
| `Hotfix`, `MCHotfix` | memory, jumps, saved bytes |
| `HotfixProofs` | theorems: `restore`, jumps and faults |

They were written in this order: the actor and its contract first, since it is
the core of the library, then what it stands on.

### Actor

`apc` is the position of the loop goroutine: in `H.Init`, at the send to
`initRetCh`, in a select, in a callback (`Handle`), in `SendRet` (`Reply`), ended
(`Exited`), or the process is dead (`Crashed`). The four selects of `doLoop` are
one set of actions: they differ in whether `ticker` and `out` are nil, and that is
the guard of `RecvTick` and `RecvOut`. `Mailbox` is kept with its history:
`posted` is everything ever sent, `taken` how much was received. `Conclude` is the
end of an iteration: `handleRet`, then the flag; if `H.Stop` panics there, the
recover of `doLoop` returns its named results `(true, nil, nil)` instead.

`LoopOn` is the value of the first result of `handleRet` and `handleInteruput` on
which the loop goes on. **The code is `LoopOn = TRUE`**: `handleRet` returns
`stopped`, `doLoop` hands it on as `loop`. So the first callback that returns
normally ends the goroutine, and one that asks to stop calls `H.Stop` and keeps
it going. `loop` itself negates the result of its own `handleRet`, which is the
reading `LoopOn = FALSE`. Both are checked, because with `TRUE` most of the actor
can never be reached (a ticker is never running, a second message is received
only after a panic or a stop), and the rest of the code should be right too. The
proofs hold for both values.

A `Client` is a goroutine that calls and casts one message at a time. Those in `Inner`
are the loop goroutine itself, in a callback that calls or casts to its own actor:
they may begin only while the loop is in `Init` or `Handle`, and the callback cannot
return, keep its caller or panic before they are done (`CallbackBusy`). Two actors
whose handlers call each other need no module of their own: for either one, what
the other does is a callback that takes a while, and that it ends is what
`CallReturns` says of the other, which rests on the timer of `TimeCall` alone. A
`Timer` is one `AfterCast`. `sends` are goroutines blocked at the mailbox, `waiting` those in
the inner select of `TimeCall`. `CallTimeout` and `HandleTimeout` are the same
timer in the two selects; they may fire at any moment.

### Rpc

A call is new, open, refused ("notSent"), given up ("unknown") or answered, and has
been executed or not. `ActorRpc!Phase` reads the first from where the caller
stands, `Executed` the second from what the loop has received.

### Waiter

A `WaitGroup` is a number; `registry` maps keys to them. `NewWaiter` is two
actions, as its `Load` and `Store` are, and `MayWaiter` one (`LoadOrStore`); any number
of goroutines call either, of the same keys. A unit is one count and its work, which
returns, panics or hangs (`WorkHangs`). `sync.WaitGroup` is external: `Add` below zero
and reuse while waking panic, and end the process (`fate`). Users are assumed to end
each unit they `Add` once. `Done(key, n)` is given units that were added through that
key, and counts down whatever the key stands for by then, or nothing, as the code does.

Two histories say where the code's own races were met. `exposed` are the groups
stored while a `NewWaiter` of their key was between its `Load` and its `Store`: the one
case in which a live group may lose its key (`LiveUnlessRaced`; without the exception
`waiter_race` refutes it). `strayed` are the groups that a `Done` by key counted down for
another one, and those it should have: their counters are off from then on, and
`StrayOnlyIfReplaced` says that this needs a group of that key that was deleted or
exposed.

### LogProxy and LogQueue

One atomic operation of the cache per step. A buffer is named after the `Write`
that allocated it, so that identity and content are apart. `Copied` cuts off what
does not fit, as `BufferWrap.Copy` does (it never happens: see section 5). `WriteOut` is a call of
the `io.Writer` with its four outcomes: taken, an error (reported on stderr *after*
the buffer is put back), a panic (recovered by `writeLog`, the rest of the batch is
dropped), or no return. With an error or a panic it may have taken the first entries
of what it was given (`WriterTakes`), and `LogQueue` allows for that; an entry that it
cut off counts as lost. `LogQueue` knows accepted, refused and settled entries and
what was written; the mapping is the identity on these history variables, so that
everything else (slots, buffers, batches) is shown to be invisible. The timer that
a `Write` waits on at the full channel may fire at any moment; that it is a pooled
one is in `TimerPool`, whose users do what `Write` does (a product of the two
modules has more than six million states at the smallest useful bounds).

### Logger

`ipc` is where `InitSimpleLog` is: the level is parsed, the cores are opened (where
`getLoggerWriter` may panic) and the `Logger` is set, `SLog` is published. `rpc` is
where `ReloadLogLv` is: it has read the old level, then the configuration, then sets
the level; there is one reloader at a time (two could leave the level that the
slower one read). Called before `SLog` is set it dies and changes nothing. A
configuration may change at any moment (`Configure`); an empty or missing text
parses as info, "DEBUG" as debug, but only "debug" makes `initZapLogger` open a debug
file, and no reload opens one later.

A log call is zap 1.23 as `go.mod` fixes it, modelled as external: `AskGate` is the
guard of `Debugf` and the one of zap below `DPanic`, core after core until one says
yes, `AskCore` is `Check`, `Offer` one sink's `Write`. A sink is a log proxy, of which
only its contract counts here (`WriteReturns`: it takes the entry or refuses it after
a while). `seen` is the history of the level during a call. `Fatalf` ends the
process; `Sync` does nothing for a log proxy, so that its entry may be lost.

`AssignOn` is the value of `err != nil` on which `initLog` assigns `Logger`. **The code
is `AssignOn = TRUE`**, and `initZapLogger` never returns an error, so that `Logger`
stays nil and every call dies; `FALSE` is the condition as it was meant, without
which nothing of the logger could be reached. Package `gen` keeps the nil that `SLog`
was when its `log` variable was initialised, under either reading.

### TimerPool

The timers of the Go version in `go.mod` (1.21): the runtime takes an expired timer
off its heap and sends the tick afterwards, so `Stop` can find neither. `arming`
numbers the uses of a timer, a tick carries its number.

### Encoder

A text is a sequence of units: brackets, separators, the quote, the backslash,
characters of a few kinds (a control character, an invalid byte, ...), `#` for a
number or a literal. Every call of an `Add` or `Append` method is an action of the
goroutine that makes it; `BeginMarshal` and `EndMarshal` are the two halves of
`AppendObject` and `AppendArray`, around the user's marshaler. `BeginJSON`, `EndJSON`,
`BeginConsole` and `EndConsole` are `EncodeEntry` up to and after the entry's fields,
`BeginWith` and `EndWith` what zap's core does with `Clone`. Encoders and buffers in a
pool are alike, so each user gets one that bears its name; a buffer is emptied
when it is put back instead of when it is taken. The history variables hold what
the caller asked for, as paths of keys, and `JsonReader` reads a line back into
the same form: it knows the grammar of JSON and nothing of the encoders. A string
or a key reads as it was, but for bytes that are not UTF-8 (`AsRead`). What
`EncodeTime` and `EncodeDuration` append are sequences of values, in the
configuration of a logger: none (the fallback to a number is taken), one, or
several, as the console's does. `OneValue` says which configurations give a line that
can be right: one value at most, but for the times of a console, which are printed
into its header and must not look like the braces around the context. `MCEncoder`
asserts it of the two loggers it has, of which the console's is that of `logger.go`.

### Hotfix

Memory is one byte per address, a byte is code, or byte `i` of a jump to some
function. Functions may be shorter than a jump, so jumps overlap. The bytes
`restore` copies back are computed per address: the last write of the downward
loop at an address is by the earliest jump over it. Nothing is assumed of users:
`open_patch` may be called at any time, over whatever jumps there are, and load or
not, and `replace_patch_func_*` may be given functions of the main program. A patch
that is loaded again is loaded at the same place; the properties promise nothing
about jumps and saved bytes that a load would find elsewhere.

Two histories mark what the code cannot undo. `unsaved` are the bytes of the main
program's own code that `replace_patch_func_*` has written over, which saves nothing
(a byte under a jump that was saved is not among them: `restore` brings it back).
`closed` says that `open_patch` has closed a library while something was saved, until
the next `restore`; only then may `restore` write to memory that is not mapped
(`FaultOnlyAfterReload`), and it does (`hotfix_reload`).

## 3. Runs

| Run | Instance | Shows |
|---|---|---|
| `actor_calls` | 2 clients x 2 messages, mailbox of 1, every callback may panic, `LoopOn = TRUE` | `SenderOrder`, `CallTimeoutNeverPosted`, `ReplyNeverBlocks`, `ReplyMatchesCall`, `NoServiceAfterInitTimeout`, `ImplementsRpc` |
| `actor_negated` | 1 client and 1 callback x 1 message, 1 `AfterCast`, 1 ticker command, `LoopOn = FALSE` | `TypeOK`, `SelfCallsTimeOut`, `PostedIsServed`, `CallReturns` |
| `actor_noreply` | 2 clients x 1 message, `LoopOn = TRUE` | **violated**: `ServesUntilStopped` |
| `waiter_units` | 2 callers of `NewWaiter` and any of `MayWaiter` on 1 key, 2 units, 1 wait, 2 wait groups | `TypeOK`, `CountExact`, `StrayOnlyIfReplaced`, `LiveUnlessRaced`, `NoEarlyReturn`, `WaitReturns` |
| `waiter_race` | 2 callers of `NewWaiter`, 1 key | **violated**: `LiveRegistered` |
| `log_queue` | 2 writers x 2 entries of 2 sizes, 1 slot, channel of 1, errors, panics and hangs | `TypeOK`, `ExclusiveBuffers`, `BatchFits`, `ImplementsQueue`, `AcceptedSettles`, `WriteReturns` |
| `logger_levels` | 2 goroutines, 4 texts, `AssignOn = FALSE` | `TypeOK`, `Routed`, `LevelFollowsConfig`, `PublishedIsFinal` |
| `logger_nil` | 1 goroutine, 2 texts, `AssignOn = TRUE` | **violated**: `InitializedLoggerLogs` |
| `timer_pool` | 2 goroutines, 2 timers, 3 armings each | `TypeOK`, `PooledAtRest`, `EarlyOnlyWhenRaced`, `SelectEnds` |
| `encoder_lines` | 2 goroutines, a JSON and a console logger, 1 more by `With`, 3 method calls in all that is alive, 1 of them in a `With` | `TypeOK`, `Exclusive`, `LinesSayWhatWasMeant`, `ContextsKept` |
| `hotfix_restore` | main text of 3 bytes, patch of 2, jumps of 2, list of 3 | `TypeOK`, `AsIfNeverHappened`, `Restorable`, `JumpsLand`, `FaultOnlyAfterReload` |
| `hotfix_reload` | the same | **violated**: `NoFault` |

Bounds, and why they are enough to make the interesting cases happen:

* *Actor.* A mailbox of 1 is full with one message, so that calls time out in both
  selects; two clients of two messages give overtaking, a kept caller while
  another call is worked on, and a caller that has moved on when its reply comes.
  The liveness run is smaller, but has a ticker, a timeout, an `AfterCast` and
  an interrupt compete with the mailbox, and a callback that calls itself find it
  empty or full. `MaxSends` and `MaxTickerCmds` bound what
  the environment does, not the actor.
* *Waiter.* Two callers of `NewWaiter` and any of `MayWaiter` share one key, so that
  every two registrations interleave, and with two groups the key can be deleted and
  made again, or lose its first group to the second. Two units end in every
  combination of ways, on the same group or on both.
* *Log proxy.* One slot and two writers race for one buffer; two sizes, one above
  `DefaultSize`, and a `TempSize` of 3 make a batch that holds several entries, one
  that holds one, and one that overflows. A channel of one is full with one entry.
  Four entries are all there is, so that "all accepted entries settle" says it of
  each, and one leads-to stands for one per entry.
* *Logger.* Four texts: the one that opens a debug file, one that means the same
  level without it, a higher level, and one that does not parse. A call lasts up to
  a dozen steps, and the level moves any number of times during it.
* *Timer pool.* Three armings: one that leaves a stale tick, one that meets it, one
  after it.
* *Encoders.* Three calls give a field in an object in a namespace, a failing
  marshaler with a field before and after it, or a context, an entry and another
  goroutine's field at once; finished entries free their calls, so behaviours are
  not bounded. A `With` makes one call: a namespace or a field is enough of a
  context. The key has a quote and an invalid byte in it, the string one character of
  every other kind too. The JSON logger's `EncodeTime` and `EncodeDuration` do nothing,
  so that the fallback is taken.
* *Hotfix.* Three bytes and jumps of two: the two functions of the main program
  overlap, so that a byte may be under a saved jump, an unsaved one or both; three
  entries allow one function to be replaced twice around another. The patch has one
  function, which a saved address can lie in when the library is closed.

Deadlock is checked for the encoders only: elsewhere all bounds on the environment end a behaviour, and an
actor that has ended, a crashed process and a hung `io.Writer` do stop.

Every property of a passing run has a mutant in `PROJECT.json`: an operator kept
next to the original in the module (comment "Mutant:"), the change a plausible bug
would make, under which TLC finds the property violated.

### Fairness

* *Actor.* The loop goroutine is scheduled and callbacks return (`WF` on `LoopStep`).
  Go's select picks at random among ready cases, so a message that is there again
  and again is received (`SF` on `RecvMail`). Timers of `TimeCall` fire (`WF`). Nothing
  is assumed of clients, of deferred replies, of `AfterCast` or of the ticker.
* *Waiter.* Goroutines run, work ends or hangs, users end what they `Add`, timers fire. A
  `WaitInfinity` for hung work, or for a group whose count went astray, is excepted from
  `WaitReturns` by name (`Hopeless`); a `Wait` is not: its timer ends it.
* *Logger.* None: reload and log calls have safety properties only.
* *Log proxy.* `process` and each `Write` are scheduled; the `io.Writer` returns unless
  it hangs, which is a separate outcome.
* *Timer pool.* Armed timers expire, ticks are sent, goroutines run. The other case
  of the select is not fair: it may never be ready.
* *Encoders, Hotfix.* None; they have no liveness property.

## 4. Findings

* `actor_noreply`: `doLoop`'s flag is inverted (`gen/actor.go:234`), so a deferred
  reply, and any other normal result, ends the actor, where the comment at line 40
  says that deferring does not block gen_server; and after a result of `NewStopRet` the
  loop calls `H.Stop` and receives the next message. `ServesUntilStopped` says both, and
  TLC refutes each half by itself.
* `waiter_race`: two `NewWaiter`s of one key both return (`gen/wg.go:21`), where one
  of them is meant to end the process.
* `logger_nil`: `initLog` assigns `Logger` only if there was an error
  (`simple_logger.go:108`), and there never is: after `InitSimpleLog` has returned
  nil every log call dies of a nil pointer. Those of package `gen` would die whatever
  `initLog` assigns: its `log` (`gen.go:12`) is a copy of the nil that `SLog` was.
* `hotfix_reload`: `open_patch` closes the loaded library (`replace.h:84`) although saved
  addresses lie in it; when the new one does not load, `restore` writes to memory that
  is not mapped.

`replace_patch_func_new` and `_withaddr` accept an address of the main program
(`replace.h:168`, "at your own risk") and save nothing (`replace.h:146`), so that `restore`
is not "as if it had never happened" there. The properties of `Hotfix` except those
bytes (`unsaved`), and TLC refutes `AsIfNeverHappened` without the exception.

A smaller one is stated and has no run: `writeLog` puts a buffer back before it
prints it (`log_proxy_writer.go:124`), so the report of a failed write may show
another entry. TLC refutes `ReportNamesFailedLog` of `LogProxy` with the constants of
`log_queue`.

`PostedIsServed` has a named exception too, `StuckInCast`, without which TLC refutes
it: `Cast` has no timer (`actor.go:423`), so a callback that casts to its own actor
while the mailbox is full waits for itself for ever. A `TimeCall` in that place ends
with `ErrActorCallTimeout`.

Two things the encoders get wrong have no run of their own; they are named
exceptions (`nested`, `timed`) of `LinesSayWhatWasMeant`, which TLC refutes without
them:

* A namespace opened inside a nested object stays counted when the object's bracket
  has closed it (`json_encoder.go:192`). What follows lands in another object, and in
  an array the line is not JSON: `"k":[{"k":{}]}}`.
* The console's `EncodeTime` (`logger.go:132`) appends three strings, so a time field
  gives `"k": "[", "t", "]"`, although `console_encoder.go:220` "leaves the structured
  context as JSON".

## 5. Proofs

TLAPS proves the following for every value of the constants that satisfies the
named assumptions (`ActorAssumption`; `LoggerAssumption`; `HotfixAssumption`,
`NoByteAssumption`; `WaiterAssumption`; `LogProxyAssumption`; `TimerPoolAssumption`;
`EncoderAssumption`).

| Theorem | Statement |
|---|---|
| `ActorProofs!TypeCorrect` | `Spec => []TypeOK` |
| `ActorProofs!OrderKept` | `Spec => []SenderOrder` |
| `ActorProofs!NoServiceUnlessStarted` | `Spec => []NoServiceAfterInitTimeout` |
| `ActorProofs!RetryIsSafe` | `Spec => []CallTimeoutNeverPosted` |
| `ActorProofs!RepliesNeverBlock` | `Spec => []ReplyNeverBlocks` |
| `ActorProofs!RepliesMatch` | `Spec => []ReplyMatchesCall` |
| `ActorProofs!SelfCallsNeverSucceed` | `Spec => []SelfCallsTimeOut` |
| `ActorProofs!CallsImplementRpc` | `Spec => ImplementsRpc` |
| `LoggerProofs!TypeCorrect` | `Spec => []TypeOK` |
| `LoggerProofs!PublishedLast` | `Spec => PublishedIsFinal` |
| `LoggerProofs!EntriesAreRouted` | `Spec => []Routed` |
| `LoggerProofs!ReloadsTakeEffect` | `Spec => []LevelFollowsConfig` |
| `HotfixProofs!TypeCorrect` | `Spec => []TypeOK` |
| `HotfixProofs!RestoreUndoes` | `Spec => []AsIfNeverHappened` |
| `HotfixProofs!AlwaysRestorable` | `Spec => []Restorable` |
| `HotfixProofs!JumpsStayMapped` | `Spec => []JumpsLand` |
| `HotfixProofs!RestoreFaultsOnlyAfterReload` | `Spec => []FaultOnlyAfterReload` |
| `WaiterProofs!TypeCorrect` | `Spec => []TypeOK` |
| `WaiterProofs!CountersAreExact` | `Spec => []CountExact` |
| `WaiterProofs!DoneGoesAstrayOnlyThen` | `Spec => []StrayOnlyIfReplaced` |
| `WaiterProofs!WaitsAreLongEnough` | `Spec => []NoEarlyReturn` |
| `WaiterProofs!LiveStayRegistered` | `Spec => []LiveUnlessRaced` |
| `TimerPoolProofs!TypeCorrect` | `Spec => []TypeOK` |
| `TimerPoolProofs!PooledTimersRest` | `Spec => []PooledAtRest` |
| `TimerPoolProofs!StaleTicksWereRaces` | `Spec => []EarlyOnlyWhenRaced` |
| `LogProxyProofs!TypeCorrect` | `Spec => []TypeOK` |
| `LogProxyProofs!BuffersAreExclusive` | `Spec => []ExclusiveBuffers` |
| `LogProxyProofs!BatchesFit` | `Spec => []BatchFits` |
| `LogProxyProofs!ProxyImplementsQueue` | `NoneEmpty /\ Spec => ImplementsQueue` |
| `EncoderProofs!TypeCorrect` | `Spec => []TypeOK` |
| `EncoderProofs!BuffersHaveOneUser` | `Spec => []Exclusive` |
| `EncoderProofs!ContextsAreKept` | `Spec => ContextsKept` |
| `EncoderProofs!LinesAreRight` | `OneValue /\ Spec => []LinesSayWhatWasMeant` |

*The argument for the actor.* `SenderOrder` speaks of the mailbox only, and a step
that posts a message cannot preserve it without knowing what is being posted.
`OrderInv` adds it: what a goroutine is about to send is above everything of its
own that is in the mailbox, a sender is at one send at a time (`SendOrder`), no
number above `sent[c]` has been used (`Issued`), and a timer that has not fired has
sent nothing (`Unfired`). So no message is in the mailbox twice, and the rest
builds on that. `CallInv` gives `CallTimeoutNeverPosted`: the outer select still
holds the message, hence it is not posted. `ReplyInv` says that whatever is kept,
answered or worked on has been received, that the reply channel of a message is
empty while its answer is still owed, by the loop or by who kept the caller; a
message that the loop receives was not received before (`ReceivedOnce`), so its
channel is empty then. `BusyInv` says that the loop stays in its callback while one
of `Inner` is open, and has not received what that one sent, so that by `ReplyInv` no
reply can be there. `WaitInv` (posted calls wait or have ended) completes what
the refinement needs: each action is one step of `Rpc` or a stutter, and only
`TimeCall`, `RecvMail`, `CallTimeout`, `HandleTimeout` and `RecvReply` are steps.

*The argument for the logger.* `Routed` speaks of calls that have ended. The
invariant says the same of calls under way, phase by phase (`CallInv`): at a gate,
the cores that have been asked were right to say no; what has been picked is right
for the cores that have been asked; what is offered or still to be offered is what
was picked. `Right` is stable because `seen` only grows. It needs the order of set-up (a level
and cores are there before `SLog` is), which is what `PublishedLast` needs too.
`ReloadsTakeEffect` needs `Following`: between reading and setting, nobody else sets
the level, so `oldLv` is still the level when it is compared with.

*The argument for hotfix.* `Restorable` is stated with the `CHOOSE` of `Earliest`, which
means something only if a first jump over an address exists. That is kept as part
of the invariant (`HasFirst`) instead of being derived by induction: a new entry
is above all others, so it is first only where there was none. `OwnCode` says that
the first one saved the address's own code, unless the address is in `unsaved`; a jump
that is written over another saved one saves no code, but is not the first.
`LandInv` adds that memory is mapped exactly where the library is loaded, that what
was saved of the main program was mapped (`SavedReal`), and, until a library is closed
over jumps, that saved addresses are mapped and jumps lead to mapped code.

*The argument for the waiter.* `CountExact` speaks of the groups that are made and have
not strayed; the invariant (`Counted`) says that every such group's counter is the
number of its units that are not done, so that a group is made with a counter of
zero. A `Done` by key keeps it where the key stands for the group of all its units,
and makes the groups stray where it does not: the one it counts down, and those whose
units it ends. For `StrayOnlyIfReplaced` a unit's group that its key does not stand for
must be deleted or exposed, which is `LiveUnlessRaced`. That one in turn holds because a
store that drops a live group from its key can only be the `Store` of a `NewWaiter` that
was between its two steps when the group was stored (`StoreInv`: while a `NewWaiter`
is there, what its key stands for was stored after it looked, and is exposed). `NoEarlyReturn`
needs that `woken` and `passed` mean what they say: a goroutine past `wg.Wait` has only
done units in `seen`, and a done unit stays done.

*The argument for the timer pool.* A tick may be stale only if `Stop` found the timer
neither armed nor fired (`raced`). For any other timer `Fresh` says where ticks can
be: of the current arming only, none while it is armed, none once `PutTimer` has
drained it. `Held` keeps the timers of the goroutines and those in the pool apart.

*The argument for the log proxy.* `Exclusive` states `ExclusiveBuffers` place by place
(slot, `Write`, channel, `process`), which is what the steps disturb; the cardinality
follows at the end. The compare-and-swap of `GetBuffer` is safe although a buffer
may leave its slot and come back in between, because it takes what is in the slot
then. A new buffer is nobody's since whatever anybody has was given out before
(`GivenInv`). So who holds a buffer sees its content stay, and `WriterInv` can say that it
is the entry, whole: only buffers of the default size are in the cache, and entries
above that size get one of their own size. `Batches` carries the test of `Fits` from
`RecvNext` to the copy. For the refinement, `Queued` says that what is accepted is, in
this order, what is settled, the batch, `nextLog` and the channel; each step of
`process` moves an entry from one to the next or settles some, and a step of `Write`
appends one. `Once` says that entries that are accepted or refused are of calls that
have returned, so the one in progress is new. `NoneEmpty` is needed because
`writeLog` skips a `tempBuffer` of length zero; every entry of `zap` has a line end.

*The argument for the encoders.* Which pooled object `Get` returns makes no difference, so
the model names them for who may need them, and whether one is free is what has to be
shown. `Named` says that an encoder's buffers bear its name, and that in the pool it has
none for reflection (without the reset of `putJSONEncoder` it would); `Owned` says that what
an encoder in use has is not in the buffer pool; `Numbered` that each `With` in progress and
each logger has an encoder of its own. `Calls` says that a finished line is not free
before it is written, although its encoder is back in the pool by then. A method of a
field touches what is named for the encoder in hand (`Works`), which is no logger's;
that is also `ContextsKept`. What a text says is not part of this
argument, so it covers any marshaler and any configuration.

*The argument for lines.* `LinesSayWhatWasMeant` speaks of finished lines; the invariant
`LInv` adds what every text on the way to one says. A fragment has no meaning of its
own, so `Reads` says that the reader takes a text from one of its states to another,
and composes. `TextSays` is about the text in hand of a goroutine: read from where a
line or an object begins, it leaves the reader with exactly those brackets open that the
marshalers and namespaces in progress have opened, at their paths (`FramesFit`), ready
for what `addElementSeparator` will find by looking at the last byte (`NeedFits`: this
is where deciding by one byte is shown to be enough), and with what was meant so far
seen. The context of a logger goes into many lines, behind a header or between the
braces of the console, so `LoggerFits` says this wherever in an object the text is put.
Each method then is one lemma about texts in `EncoderTextProofs` (a separator, a quoted string, a key, the
fold over encoded values, the brackets), and a step of one goroutine leaves the texts
of the others alone because of `Inv`, the invariant above. For the console it is also
kept that its header has no brace (`Plain`), which is how the context is found in
the line. The theorem needs `OneValue`: an `EncodeTime` that appends three values to a
JSON object gives a line that is not JSON, whatever the encoder does.
`EncoderAssumption` asks nothing of keys and strings except that they are sequences of
units. `LInv` is about all states of the reader and all that may have been read, so
that TLC cannot evaluate it; what it implies for lines is the invariant of `encoder_lines`.

These proofs go by induction over the length of a text (`ReadJson`, `FlattenSeq`, `FoldLeft`
and `NamespacesClosed` on texts of any length). The library's induction theorems take a
predicate, which no installed prover can instantiate; `Induction` of
`EncoderTextProofs` takes a set of numbers instead, and is proved with the
cardinality of an interval.

The invariants `OrderInv`, `CallInv`, `ReplyInv`, `StartInv`, and those of `LogProxyProofs`
(`Inv`, `QueueInv`) were checked with TLC on
small instances before they were proved.

Every safety invariant and action property that a passing run checks is stated by one
of these theorems. Out of the provers' reach, and only model-checked, are the liveness
properties (`CallReturns`, `PostedIsServed`, `WaitReturns`, `AcceptedSettles`,
`WriteReturns`, `SelectEnds`), since fairness and `ENABLED` are not supported. There are
no RECURSIVE operators.

## 6. Not modelled, and why

* Log calls inside `gen`: they are taken to return and change nothing there. (With
  the log variable of `gen/gen.go:12` as it is, they would panic on nil; see the
  hazards.)
* `Actor.stop`, `spawnSafeSendChan` and `contextCaller`: nothing calls them, so
  `IsStopped` is never set and `safeSendTicker` never gives up: once the loop has
  ended its goroutines leak (in the model, `intr` stays above zero).
* Uses of an actor before `Start`, whose `Mailbox` is nil: a call times out and a cast
  is dropped.
* `Actor.State`, `ActorCtx` beyond the caller, and message payloads: data that no
  property tells apart.
* Name lookup and return codes of `replace.h`, and threads that run code while it
  is overwritten: the code has no protection whose working could be checked.
* `logger/encoder/error.go`, which nothing in the package calls, and the texts of
  levels, callers and numbers, which no property tells apart.
* `sliceArrayEncoder`'s pool, which one goroutine takes from and gives back to within
  the header of one line.
* `ecode/parse_code.sh` and `proto/make_proto.sh`: scripts run by hand, which nothing
  says what they must accept. Reading them shows comparisons that cannot mean what
  they say (`[[ s == "" ]]` compares the letter s, `${#codes[@]} < 2` compares as text),
  but there is no state and no promise to check.
* Elapsed time: any armed timer may fire at any moment.
* Protocol files, debug helpers, the bot: no state.

## 7. Plan

* `Hotfix`: a thread that runs code while it is overwritten, to say which moments
  are safe to patch at.
