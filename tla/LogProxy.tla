----------------------------- MODULE LogProxy -----------------------------
(***************************************************************************)
(* logger/logproxy: goroutines that Write log entries, the channel LogCh,  *)
(* the goroutine of process that gathers them into batches for the         *)
(* io.Writer, and the lock-free cache of buffers they share.               *)
(*                                                                         *)
(* A buffer is named after the Write that allocated it, so Buffers is      *)
(* Writers \X 1..MaxWrites; its content is the entry last copied into it.  *)
(* The cache is accessed one atomic operation per step.                    *)
(***************************************************************************)
EXTENDS Integers, Sequences, FiniteSets

CONSTANTS
  Writers,      \* goroutines that call Write
  MaxWrites,    \* bound: calls of Write per goroutine
  Sizes,        \* lengths of entries
  NoBuf,        \* a nil *BufferWrap
  Slots,        \* logBufferCacheCount (8)
  ChanCap,      \* maxLogChanSize (2048)
  DefaultSize,  \* defaultLogBufferSize (256)
  TempSize,     \* logTempBufferSize (4096)
  Failures      \* how the io.Writer may fail: "err", "panic", "hang"

ASSUME LogProxyAssumption ==
  /\ MaxWrites \in Nat \ {0} /\ Slots \in Nat \ {0}
  /\ ChanCap \in Nat \ {0}
  /\ DefaultSize \in Nat /\ TempSize \in Nat /\ DefaultSize <= TempSize
  /\ Sizes \subseteq Nat
  /\ NoBuf \notin Writers \X (1 .. MaxWrites)
  /\ Failures \subseteq {"err", "panic", "hang"}

VARIABLES
  slot,     \* BufferList
  content,  \* the entry in each buffer
  capacity, \* cap(Buf) of each buffer, 0 before it is allocated
  ch,       \* LogCh
  wpc,      \* where each Write is
  writes,   \* how many Writes each goroutine has begun
  entry,    \* the p of each Write in progress
  wi,       \* GetBuffer's index
  old,      \* GetBuffer's old
  held,     \* Write's logBuffer
  cpc,      \* where process is
  first,    \* firstLog
  next,     \* nextLog
  temp,     \* tempBuffer: the entries copied into it
  used,     \* len(tempBuffer)
  pi,       \* PutBuffer's index
  failed,   \* the entry whose write failed and is about to be reported
  accepted, \* everything ever sent to LogCh, in order
  refused,  \* entries whose Write returned an error
  settled,  \* how many of `accepted` have been written or lost
  written   \* what the io.Writer has taken, in order

writerVars == <<wpc, writes, entry, wi, old, held>>
batchVars  == <<first, next, temp, used>>
procVars   == <<cpc, batchVars, pi, failed>>
histVars   == <<accepted, refused, settled, written>>
vars == <<slot, content, capacity, ch, writerVars, procVars, histVars>>

-----------------------------------------------------------------------------
Buffers == Writers \X (1 .. MaxWrites)
Entry == [w : Writers, n : 1 .. MaxWrites, size : Sizes]
NoEntry == [w |-> NoBuf, n |-> 0, size |-> 0]

Room == Len(ch) < ChanCap

Init ==
  /\ slot = [i \in 1 .. Slots |-> NoBuf]
  /\ content = [b \in Buffers |-> NoEntry]
  /\ capacity = [b \in Buffers |-> 0]
  /\ ch = <<>>
  /\ wpc = [w \in Writers |-> "idle"] /\ writes = [w \in Writers |-> 0]
  /\ entry = [w \in Writers |-> NoEntry]
  /\ wi = [w \in Writers |-> 1] /\ old = [w \in Writers |-> NoBuf]
  /\ held = [w \in Writers |-> NoBuf]
  /\ cpc = "recv" /\ first = NoBuf /\ next = NoBuf
  /\ temp = <<>> /\ used = 0 /\ pi = 1 /\ failed = NoEntry
  /\ accepted = <<>> /\ refused = {} /\ settled = 0
  /\ written = <<>>

-----------------------------------------------------------------------------
(* GetBuffer. *)

Goto(w, pc) == wpc' = [wpc EXCEPT ![w] = pc]

(* NewBufferWrap(n) for Write number k of w. *)
NewBufferWrap(w, k, n) ==
  /\ held' = [held EXCEPT ![w] = <<w, k>>]
  /\ capacity' = [capacity EXCEPT ![<<w, k>>] = n]

WriteBegin(w, n) ==
  LET k == writes[w] + 1 IN
  /\ wpc[w] = "idle" /\ k <= MaxWrites
  /\ writes' = [writes EXCEPT ![w] = k]
  /\ entry' = [entry EXCEPT ![w] = [w |-> w, n |-> k, size |-> n]]
  /\ wi' = [wi EXCEPT ![w] = 1]
  /\ IF n > DefaultSize
     THEN Goto(w, "copy") /\ NewBufferWrap(w, k, n)
     ELSE Goto(w, "load") /\ UNCHANGED <<held, capacity>>
  /\ UNCHANGED <<slot, content, ch, old, procVars, histVars>>

(* This slot gave nothing: the next one, or a buffer of one's own. *)
NextSlot(w) ==
  /\ wi' = [wi EXCEPT ![w] = @ + 1]
  /\ IF wi[w] < Slots
     THEN Goto(w, "load") /\ UNCHANGED <<held, capacity>>
     ELSE Goto(w, "copy") /\ NewBufferWrap(w, writes[w], DefaultSize)

LoadSlot(w) ==
  /\ wpc[w] = "load"
  /\ old' = [old EXCEPT ![w] = slot[wi[w]]]
  /\ IF slot[wi[w]] = NoBuf
     THEN NextSlot(w)
     ELSE Goto(w, "cas") /\ UNCHANGED <<wi, held, capacity>>
  /\ UNCHANGED <<slot, content, ch, writes, entry, procVars, histVars>>

TakeSlot(w) ==
  /\ slot' = [slot EXCEPT ![wi[w]] = NoBuf]
  /\ held' = [held EXCEPT ![w] = old[w]]
  /\ Goto(w, "copy")
  /\ UNCHANGED <<wi, capacity>>

(* Mutant: a store where the code compares and swaps. *)
SwapSlotStore(w) ==
  /\ wpc[w] = "cas"
  /\ TakeSlot(w)
  /\ old' = [old EXCEPT ![w] = NoBuf]
  /\ UNCHANGED <<content, ch, writes, entry, procVars, histVars>>

SwapSlot(w) ==
  /\ wpc[w] = "cas"
  /\ IF slot[wi[w]] = old[w]
     THEN TakeSlot(w)
     ELSE NextSlot(w) /\ UNCHANGED slot
  /\ old' = [old EXCEPT ![w] = NoBuf]
  /\ UNCHANGED <<content, ch, writes, entry, procVars, histVars>>

(* Mutant: the scan goes one slot too far. *)
PutBufferOffByOne(b, done) ==
  IF capacity[b] # DefaultSize
  THEN done /\ UNCHANGED <<slot, pi>>
  ELSE IF slot[pi] = NoBuf
       THEN slot' = [slot EXCEPT ![pi] = b] /\ pi' = 1 /\ done
       ELSE UNCHANGED slot /\ pi' = pi + 1 /\ UNCHANGED <<cpc, batchVars>>

(* PutBuffer(b), one slot per step; `done` is what follows it. *)
PutBuffer(b, done) ==
  IF capacity[b] # DefaultSize
  THEN done /\ UNCHANGED <<slot, pi>>
  ELSE IF slot[pi] = NoBuf
       THEN slot' = [slot EXCEPT ![pi] = b] /\ pi' = 1 /\ done
       ELSE /\ UNCHANGED slot
            /\ IF pi < Slots
               THEN pi' = pi + 1 /\ UNCHANGED <<cpc, batchVars>>
               ELSE pi' = 1 /\ done

-----------------------------------------------------------------------------
(* Write. *)

(* BufferWrap.Copy cuts off what does not fit. *)
Copied(e, n) == [e EXCEPT !.size = IF @ > n THEN n ELSE @]

CopyIn(w) ==
  /\ wpc[w] = "copy"
  /\ content' = [content EXCEPT ![held[w]] = Copied(entry[w], capacity[held[w]])]
  /\ Goto(w, "try")
  /\ UNCHANGED <<slot, capacity, ch, writes, entry, wi, old, held, procVars,
                 histVars>>

(* Write returns: its locals are gone. *)
Return(w) ==
  /\ held' = [held EXCEPT ![w] = NoBuf]
  /\ entry' = [entry EXCEPT ![w] = NoEntry]
  /\ wi' = [wi EXCEPT ![w] = 1]
  /\ Goto(w, "idle")
  /\ UNCHANGED <<writes, old>>

(* Either select sends the buffer. *)
Send(w) ==
  /\ wpc[w] \in {"try", "wait"} /\ Room
  /\ ch' = Append(ch, held[w])
  /\ accepted' = Append(accepted, entry[w])
  /\ Return(w)
  /\ UNCHANGED <<slot, content, capacity, procVars, refused, settled,
                 written>>

(* The first select takes its default; the second waits for the timer too. *)
WaitForRoom(w) ==
  /\ wpc[w] = "try" /\ ~Room
  /\ Goto(w, "wait")
  /\ UNCHANGED <<slot, content, capacity, ch, writes, entry, wi, old, held,
                 procVars, histVars>>

(* Mutant: the second select has no timer. *)
WriteTimeoutNever(w) == FALSE

(* errLogRoutineWriteFailed: the buffer is left to the garbage collector. *)
WriteTimeout(w) ==
  /\ wpc[w] = "wait"
  /\ refused' = refused \cup {entry[w]}
  /\ Return(w)
  /\ UNCHANGED <<slot, content, capacity, ch, procVars, accepted, settled,
                 written>>

-----------------------------------------------------------------------------
(* writeLog: gathering a batch. *)

RecvFirst ==
  /\ cpc = "recv" /\ ch # <<>>
  /\ first' = Head(ch) /\ ch' = Tail(ch)
  /\ cpc' = "gather"
  /\ UNCHANGED <<slot, content, capacity, writerVars, next, temp, used, pi,
                 failed, histVars>>

BufLen(b) == IF b = NoBuf THEN 0 ELSE content[b].size

(* Mutant: only what tempBuffer holds is looked at. *)
FitsIgnoringFirst(b) == ~(used > TempSize - BufLen(b))

(* The next entry fits behind first, or behind what tempBuffer holds. *)
Fits(b) ==
  IF first # NoBuf
  THEN ~(BufLen(first) > TempSize - BufLen(b))
  ELSE ~(used > TempSize - BufLen(b))

RecvNext ==
  /\ cpc = "gather" /\ ch # <<>>
  /\ next' = Head(ch) /\ ch' = Tail(ch)
  /\ cpc' = IF ~Fits(next') THEN "writeFirst"
            ELSE IF first # NoBuf THEN "copyFirst" ELSE "copyNext"
  /\ UNCHANGED <<slot, content, capacity, writerVars, first, temp, used, pi,
                 failed, histVars>>

(* Mutant: the select has no default and waits for another entry. *)
NoNextBlocking == FALSE

NoNext ==
  /\ cpc = "gather" /\ ch = <<>>
  /\ cpc' = "writeFirst"
  /\ UNCHANGED <<slot, content, capacity, ch, writerVars, batchVars, pi,
                 failed, histVars>>

(* copy into tempBuffer at its end. *)
CopyOut(b) ==
  /\ temp' = Append(temp, content[b])
  /\ used' = used + BufLen(b)
  /\ UNCHANGED <<slot, content, capacity, ch, writerVars, first, next, pi,
                 failed, histVars>>

CopyFirst == cpc = "copyFirst" /\ cpc' = "putFirst" /\ CopyOut(first)
CopyNext  == cpc = "copyNext" /\ cpc' = "putNext" /\ CopyOut(next)

PutFirst ==
  /\ cpc = "putFirst"
  /\ PutBuffer(first, cpc' = "copyNext" /\ first' = NoBuf
                      /\ UNCHANGED <<next, temp, used>>)
  /\ UNCHANGED <<content, capacity, ch, writerVars, failed, histVars>>

(* Mutant: nextLog is not set to nil after it has been copied. *)
PutNextKept ==
  /\ cpc = "putNext"
  /\ PutBuffer(next, cpc' = "gather" /\ UNCHANGED batchVars)
  /\ UNCHANGED <<content, capacity, ch, writerVars, failed, histVars>>

PutNext ==
  /\ cpc = "putNext"
  /\ PutBuffer(next, cpc' = "gather" /\ next' = NoBuf
                     /\ UNCHANGED <<first, temp, used>>)
  /\ UNCHANGED <<content, capacity, ch, writerVars, failed, histVars>>

-----------------------------------------------------------------------------
(* writeLog: writing it. *)

(* writeLog returns or is left by a panic: the next batch starts anew. *)
NoBatch == first' = NoBuf /\ next' = NoBuf /\ temp' = <<>> /\ used' = 0

(* The io.Writer has taken the first entries of s.  One that it cut off is *)
(* lost, as is what a Write took that never returns.                       *)
WriterTakes(s) == \E k \in 0 .. Len(s) : written' = written \o SubSeq(s, 1, k)

(* lr.Writer.Write of the entries s: taken; an error after some of them,   *)
(* which is then reported of `fail`; a panic after some, which writeLog    *)
(* recovers and which drops the rest of the batch, `rest` entries; or it   *)
(* does not return.                                                        *)
WriteOut(s, fail, rest, then) ==
  \/ /\ written' = written \o s /\ settled' = settled + Len(s)
     /\ cpc' = then /\ failed' = NoEntry
     /\ UNCHANGED batchVars
  \/ /\ "err" \in Failures
     /\ settled' = settled + Len(s)
     /\ cpc' = then /\ failed' = fail
     /\ WriterTakes(s) /\ UNCHANGED batchVars
  \/ /\ "panic" \in Failures
     /\ settled' = settled + Len(s) + rest
     /\ cpc' = "recv" /\ failed' = NoEntry /\ NoBatch
     /\ WriterTakes(s)
  \/ /\ "hang" \in Failures
     /\ cpc' = "hung"
     /\ UNCHANGED <<written, settled, failed, batchVars>>

Rest(b) == IF b = NoBuf THEN 0 ELSE 1

NoSharedChange ==
  UNCHANGED <<slot, content, capacity, ch, writerVars, pi, accepted, refused>>

SkipTo(pc) ==
  cpc' = pc /\ UNCHANGED <<batchVars, failed, settled, written>>

(* With firstLog still there tempBuffer is empty. *)
WriteFirst ==
  /\ cpc = "writeFirst"
  /\ IF first = NoBuf THEN SkipTo("writeTemp")
     ELSE WriteOut(<<content[first]>>, content[first], Rest(next), "freeFirst")
  /\ NoSharedChange

WriteTemp ==
  /\ cpc = "writeTemp"
  /\ IF used = 0 THEN SkipTo("writeNext")
     ELSE WriteOut(temp, NoEntry, Rest(next), "writeNext")
  /\ NoSharedChange

WriteNext ==
  /\ cpc = "writeNext"
  /\ IF next = NoBuf
     THEN cpc' = "recv" /\ NoBatch /\ UNCHANGED <<failed, settled, written>>
     ELSE WriteOut(<<content[next]>>, content[next], 0, "freeNext")
  /\ NoSharedChange

FreeFirst ==
  /\ cpc = "freeFirst"
  /\ PutBuffer(first, cpc' = "reportFirst" /\ UNCHANGED batchVars)
  /\ UNCHANGED <<content, capacity, ch, writerVars, failed, histVars>>

FreeNext ==
  /\ cpc = "freeNext"
  /\ PutBuffer(next, cpc' = "reportNext" /\ UNCHANGED batchVars)
  /\ UNCHANGED <<content, capacity, ch, writerVars, failed, histVars>>

(* The message on stderr prints the buffer that has just been put back. *)
Report(then) ==
  /\ failed' = NoEntry
  /\ cpc' = then
  /\ UNCHANGED <<slot, content, capacity, ch, writerVars, pi, accepted, refused,
                 settled, written>>

ReportFirst ==
  /\ cpc = "reportFirst"
  /\ first' = NoBuf /\ UNCHANGED <<next, temp, used>>
  /\ Report("writeTemp")

ReportNext ==
  /\ cpc = "reportNext"
  /\ NoBatch
  /\ Report("recv")

-----------------------------------------------------------------------------
WriteStep(w) ==
  LoadSlot(w) \/ SwapSlot(w) \/ CopyIn(w) \/ Send(w) \/ WaitForRoom(w)
  \/ WriteTimeout(w)

Process ==
  \/ RecvFirst \/ RecvNext \/ NoNext
  \/ CopyFirst \/ PutFirst \/ CopyNext \/ PutNext
  \/ WriteFirst \/ FreeFirst \/ ReportFirst
  \/ WriteTemp
  \/ WriteNext \/ FreeNext \/ ReportNext

Next ==
  \/ \E w \in Writers : (\E n \in Sizes : WriteBegin(w, n)) \/ WriteStep(w)
  \/ Process

(* Both sides are goroutines the scheduler runs; the timer fires; the      *)
(* io.Writer returns, unless Failures lets it hang.                        *)
Fairness == WF_vars(Process) /\ \A w \in Writers : WF_vars(WriteStep(w))

Spec == Init /\ [][Next]_vars /\ Fairness

-----------------------------------------------------------------------------
TypeOK ==
  /\ slot \in [1 .. Slots -> Buffers \cup {NoBuf}]
  /\ content \in [Buffers -> Entry \cup {NoEntry}]
  /\ capacity \in [Buffers -> Nat]
  /\ ch \in Seq(Buffers) /\ Len(ch) <= ChanCap
  /\ wpc \in [Writers -> {"idle", "load", "cas", "copy", "try", "wait"}]
  /\ writes \in [Writers -> 0 .. MaxWrites]
  /\ entry \in [Writers -> Entry \cup {NoEntry}]
  /\ wi \in [Writers -> 1 .. Slots + 1]
  /\ old \in [Writers -> Buffers \cup {NoBuf}]
  /\ held \in [Writers -> Buffers \cup {NoBuf}]
  /\ cpc \in {"recv", "gather", "copyFirst", "putFirst", "copyNext",
              "putNext", "writeFirst", "freeFirst", "reportFirst",
              "writeTemp", "writeNext", "freeNext", "reportNext", "hung"}
  /\ first \in Buffers \cup {NoBuf} /\ next \in Buffers \cup {NoBuf}
  /\ temp \in Seq(Entry) /\ used \in Nat
  /\ pi \in 1 .. Slots
  /\ failed \in Entry \cup {NoEntry}
  /\ accepted \in Seq(Entry) /\ refused \subseteq Entry
  /\ settled \in Nat /\ written \in Seq(Entry)

(* Where buffer b is: who may write or read it.  process gives up a buffer *)
(* when PutBuffer has stored it (it then only prints it).                  *)
Owners(b) ==
  {<<"slot", i>> : i \in {j \in 1 .. Slots : slot[j] = b}}
  \cup {<<"writer", w>> : w \in {v \in Writers : held[v] = b}}
  \cup {<<"ch", i>> : i \in {j \in 1 .. Len(ch) : ch[j] = b}}
  \cup (IF first = b /\ cpc # "reportFirst" THEN {<<"process", 1>>} ELSE {})
  \cup (IF next = b /\ cpc # "reportNext" THEN {<<"process", 2>>} ELSE {})

(* No buffer is ever in two hands: a slot of the cache, a Write, the        *)
(* channel, process.  The load and the swap of GetBuffer are two steps, and *)
(* a buffer may leave a slot and come back between them.                   *)
ExclusiveBuffers == \A b \in Buffers : Cardinality(Owners(b)) <= 1

(* What process copies always fits into tempBuffer: the slice expressions  *)
(* tempBuffer[curLen:newLen] stay within its 4096 bytes.                   *)
BatchFits ==
  /\ used <= TempSize
  /\ cpc = "copyFirst" => BufLen(first) + BufLen(next) <= TempSize
  /\ cpc = "copyNext" => used + BufLen(next) <= TempSize

(* An entry whose Write returned nil reaches the io.Writer, or is lost to   *)
(* an error or a panic of it: none stays in the channel or a batch while   *)
(* the io.Writer returns.  Entries settle in order and MaxWrites bounds    *)
(* them, so that all of them settle says it of each.                       *)
AcceptedSettles ==
  (settled < Len(accepted)) ~> (settled = Len(accepted) \/ cpc = "hung")

(* Every Write returns, also when the io.Writer hangs and the channel stays *)
(* full for ever.                                                          *)
WriteReturns == \A w \in Writers : (wpc[w] # "idle") ~> (wpc[w] = "idle")

(* "LogProxy write firstLog failed:log=%v" names the log that failed: what *)
(* is about to be printed is the entry whose write failed.  The code does  *)
(* not keep to it, since the buffer has been put back by then.             *)
ReportNamesFailedLog ==
  failed # NoEntry =>
    /\ cpc = "reportFirst" => content[first] = failed
    /\ cpc = "reportNext" => content[next] = failed
=============================================================================
