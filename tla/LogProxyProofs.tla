--------------------------- MODULE LogProxyProofs ---------------------------
(***************************************************************************)
(* Theorems about LogProxy, for any writers, sizes, slots and capacities,  *)
(* and however the io.Writer fails.                                        *)
(***************************************************************************)
EXTENDS MCLogProxy, FiniteSetTheorems, TLAPS

USE LogProxyAssumption

(* Writes that are still looking for a buffer, or have one. *)
Scanning(w) == wpc[w] \in {"load", "cas"}
Holding(w)  == wpc[w] \in {"copy", "try", "wait"}

(* What a Write knows: an entry that fits the buffer it holds or will get. *)
WriterInv ==
  \A w \in Writers :
    /\ held[w] # NoBuf <=> Holding(w)
    /\ old[w] # NoBuf <=> wpc[w] = "cas"
    /\ wpc[w] # "idle" => /\ entry[w] \in Entry /\ writes[w] # 0
                          /\ entry[w].w = w /\ entry[w].n = writes[w]
    /\ Scanning(w) => wi[w] <= Slots /\ entry[w].size <= DefaultSize
    /\ Holding(w) => entry[w].size <= capacity[held[w]]
    /\ wpc[w] \in {"try", "wait"} => content[held[w]] = entry[w]

(* Only buffers of the default size are kept. *)
SlotInv == \A i \in 1 .. Slots : slot[i] # NoBuf => capacity[slot[i]] = DefaultSize

(* Which buffers process has, and what is in those it will write. *)
HasFirst == cpc \in {"copyFirst", "putFirst", "freeFirst", "reportFirst"}
HasNext  == cpc \in {"copyFirst", "putFirst", "copyNext", "putNext", "freeNext",
                     "reportNext"}
ProcessInv ==
  /\ HasFirst => first # NoBuf
  /\ HasNext => next # NoBuf
  /\ cpc \in {"recv", "copyNext", "putNext", "writeTemp", "writeNext", "freeNext",
              "reportNext"} => first = NoBuf
  /\ cpc \in {"recv", "gather"} => next = NoBuf
  /\ cpc = "recv" => used = 0
  /\ used = 0 \/ first = NoBuf \/ cpc = "putFirst"
  /\ first # NoBuf /\ cpc # "reportFirst" => content[first] \in Entry
  /\ next # NoBuf /\ cpc # "reportNext" => content[next] \in Entry
  /\ \A i \in 1 .. Len(ch) : content[ch[i]] \in Entry

Batches ==
  /\ used <= TempSize
  /\ cpc = "copyFirst" => BufLen(first) + BufLen(next) <= TempSize
  /\ cpc \in {"putFirst", "copyNext"} => used + BufLen(next) <= TempSize

(* A buffer that somebody has was given out by NewBufferWrap (GivenInv). *)
Given(b) == /\ b[2] <= writes[b[1]]
            /\ b[2] = writes[b[1]] => ~Scanning(b[1])
(* ExclusiveBuffers, place by place. *)
Shared(b) ==
  \/ \E i \in 1 .. Slots : slot[i] = b
  \/ \E w \in Writers : held[w] = b
  \/ \E i \in 1 .. Len(ch) : ch[i] = b
GivenInv == \A b \in Buffers : (Shared(b) \/ first = b \/ next = b) => Given(b)
Exclusive ==
  /\ \A i, j \in 1 .. Slots : slot[i] = slot[j] => i = j \/ slot[i] = NoBuf
  /\ \A v, w \in Writers : held[v] = held[w] => v = w \/ held[v] = NoBuf
  /\ \A i, j \in 1 .. Len(ch) : ch[i] = ch[j] => i = j
  /\ \A i \in 1 .. Slots, w \in Writers : slot[i] = held[w] => slot[i] = NoBuf
  /\ \A i \in 1 .. Slots, j \in 1 .. Len(ch) : slot[i] # ch[j]
  /\ \A w \in Writers, j \in 1 .. Len(ch) : held[w] # ch[j]
  /\ first # NoBuf /\ cpc # "reportFirst" => ~Shared(first) /\ first # next
  /\ next # NoBuf /\ cpc # "reportNext" => ~Shared(next)

Inv == TypeOK /\ WriterInv /\ SlotInv /\ ProcessInv /\ Batches /\ GivenInv /\ Exclusive

-----------------------------------------------------------------------------
LEMMA BufferNames ==
  /\ \A b \in Buffers : b # NoBuf /\ b[1] \in Writers /\ b[2] \in 1 .. MaxWrites
  /\ \A w \in Writers, k \in 1 .. MaxWrites :
       <<w, k>> \in Buffers /\ <<w, k>>[1] = w /\ <<w, k>>[2] = k
BY DEF Buffers

LEMMA EntryNames ==
  /\ NoEntry.size = 0
  /\ \A e \in Entry : /\ e.size \in Nat /\ e.size \in Sizes /\ e.w \in Writers
                      /\ e.n \in 1 .. MaxWrites /\ e # NoEntry
  /\ \A e \in Entry : \A n \in Nat : e.size <= n => Copied(e, n) = e
BY DEF Entry, NoEntry, Copied

LEMMA LenType == \A b \in Buffers \cup {NoBuf} : TypeOK => BufLen(b) \in Nat
BY EntryNames DEF TypeOK, BufLen

LEMMA InitInv == Init => Inv
<1> SUFFICES ASSUME Init PROVE Inv
  OBVIOUS
<1>1. TypeOK
  BY DEF Init, TypeOK
<1>2. WriterInv /\ SlotInv /\ ProcessInv /\ Batches
  BY DEF Init, WriterInv, SlotInv, ProcessInv, Batches, Holding, Scanning,
     HasFirst, HasNext
<1>3. GivenInv /\ Exclusive
  BY BufferNames DEF Init, GivenInv, Exclusive, Shared
<1> QED
  BY <1>1, <1>2, <1>3 DEF Inv

-----------------------------------------------------------------------------
(* The steps of Write.  Each of them touches the locals of one goroutine.  *)


PCs == {"idle", "load", "cas", "copy", "try", "wait"}
LocalsOK ==
  /\ wpc \in [Writers -> PCs]
  /\ writes \in [Writers -> 0 .. MaxWrites]
  /\ entry \in [Writers -> Entry \cup {NoEntry}]
  /\ wi \in [Writers -> 1 .. Slots + 1]
  /\ old \in [Writers -> Buffers \cup {NoBuf}]
  /\ held \in [Writers -> Buffers \cup {NoBuf}]
CacheOK ==
  /\ slot \in [1 .. Slots -> Buffers \cup {NoBuf}]
  /\ capacity \in [Buffers -> Nat]
ChanOK ==
  /\ ch \in Seq(Buffers) /\ Len(ch) <= ChanCap
  /\ accepted \in Seq(Entry) /\ refused \subseteq Entry

LEMMA WriterTypes ==
  /\ TypeOK => LocalsOK /\ CacheOK /\ ChanOK
  /\ TypeOK /\ UNCHANGED <<procVars, settled, written>>
       /\ LocalsOK' /\ CacheOK' /\ ChanOK'
       /\ content' \in [Buffers -> Entry \cup {NoEntry}] => TypeOK'
BY DEF TypeOK, LocalsOK, CacheOK, ChanOK, PCs, procVars, batchVars

LEMMA ScanType ==
  ASSUME LocalsOK, CacheOK, NEW w \in Writers,
         wi[w] \in 1 .. Slots, writes[w] \in 1 .. MaxWrites, NextSlot(w)
  PROVE  /\ wi' \in [Writers -> 1 .. Slots + 1] /\ wpc' \in [Writers -> PCs]
         /\ held' \in [Writers -> Buffers \cup {NoBuf}]
         /\ capacity' \in [Buffers -> Nat]
<1> DEFINE b == <<w, writes[w]>>
<1>1. wi' \in [Writers -> 1 .. Slots + 1]
  BY DEF NextSlot, LocalsOK
<1>2. wpc' \in [Writers -> PCs]
  BY DEF NextSlot, Goto, LocalsOK, PCs
<1>3. b \in Buffers
  BY BufferNames
<1>4. /\ held' = held \/ held' = [held EXCEPT ![w] = b]
      /\ capacity' = capacity \/ capacity' = [capacity EXCEPT ![b] = DefaultSize]
  BY DEF NextSlot, NewBufferWrap
<1> HIDE DEF b
<1>5. held' \in [Writers -> Buffers \cup {NoBuf}]
  BY <1>3, <1>4 DEF LocalsOK
<1>6. capacity' \in [Buffers -> Nat]
  BY <1>3, <1>4 DEF CacheOK
<1> QED
  BY <1>1, <1>2, <1>5, <1>6

LEMMA WriteType ==
  ASSUME Inv, NEW w \in Writers, (\E n \in Sizes : WriteBegin(w, n)) \/ WriteStep(w)
  PROVE  TypeOK'
<1> USE DEF histVars
<1>0. TypeOK /\ LocalsOK /\ CacheOK /\ ChanOK
  BY WriterTypes DEF Inv
<1>c. content \in [Buffers -> Entry \cup {NoEntry}]
  BY <1>0 DEF TypeOK
<1>1. ASSUME NEW n \in Sizes, WriteBegin(w, n) PROVE TypeOK'
  <2>1. writes[w] + 1 \in 1 .. MaxWrites
    BY <1>0, <1>1 DEF WriteBegin, LocalsOK
  <2>2. [w |-> w, n |-> writes[w] + 1, size |-> n] \in Entry
    BY <2>1 DEF Entry
  <2>3. writes' \in [Writers -> 0 .. MaxWrites] /\ entry' \in [Writers -> Entry \cup {NoEntry}]
    BY <1>0, <1>1, <2>1, <2>2 DEF WriteBegin, LocalsOK
  <2>4. wpc' \in [Writers -> PCs] /\ wi' \in [Writers -> 1 .. Slots + 1]
    BY <1>0, <1>1 DEF WriteBegin, Goto, LocalsOK, PCs
  <2> DEFINE b == <<w, writes[w] + 1>>
  <2>b. b \in Buffers
    BY <2>1, BufferNames
  <2>a. /\ held' = held \/ held' = [held EXCEPT ![w] = b]
        /\ capacity' = capacity \/ capacity' = [capacity EXCEPT ![b] = n]
    BY <1>1 DEF WriteBegin, NewBufferWrap
  <2> HIDE DEF b
  <2>5. held' \in [Writers -> Buffers \cup {NoBuf}]
    BY <1>0, <2>a, <2>b DEF LocalsOK
  <2>6. capacity' \in [Buffers -> Nat]
    BY <1>0, <2>a, <2>b DEF CacheOK
  <2>7. LocalsOK' /\ CacheOK' /\ ChanOK'
    BY <1>0, <1>1, <2>3, <2>4, <2>5, <2>6 DEF WriteBegin, LocalsOK, CacheOK, ChanOK
  <2> QED
    BY <1>0, <1>1, <1>c, <2>7, WriterTypes DEF WriteBegin
<1>2. CASE LoadSlot(w)
  <2>1. wi[w] \in 1 .. Slots /\ writes[w] \in 1 .. MaxWrites
    BY <1>0, <1>2 DEF LoadSlot, LocalsOK, Inv, WriterInv, Scanning
  <2>2. old' \in [Writers -> Buffers \cup {NoBuf}]
    BY <1>0, <1>2, <2>1 DEF LoadSlot, LocalsOK, CacheOK
  <2>3. LocalsOK' /\ capacity' \in [Buffers -> Nat]
    <3>1. CASE NextSlot(w)
      BY <1>0, <1>2, <2>1, <2>2, <3>1, ScanType DEF LoadSlot, LocalsOK
    <3>2. CASE Goto(w, "cas") /\ UNCHANGED <<wi, held, capacity>>
      BY <1>0, <1>2, <2>2, <3>2 DEF LoadSlot, Goto, LocalsOK, CacheOK, PCs
    <3> QED
      BY <1>2, <3>1, <3>2 DEF LoadSlot
  <2>4. CacheOK' /\ ChanOK'
    BY <1>0, <1>2, <2>3 DEF LoadSlot, CacheOK, ChanOK
  <2> QED
    BY <1>0, <1>2, <1>c, <2>3, <2>4, WriterTypes DEF LoadSlot
<1>3. CASE SwapSlot(w)
  <2>1. wi[w] \in 1 .. Slots /\ writes[w] \in 1 .. MaxWrites
    BY <1>0, <1>3 DEF SwapSlot, LocalsOK, Inv, WriterInv, Scanning
  <2>2. old' \in [Writers -> Buffers \cup {NoBuf}]
    BY <1>0, <1>3 DEF SwapSlot, LocalsOK
  <2>3. LocalsOK' /\ CacheOK'
    <3>1. CASE NextSlot(w) /\ UNCHANGED slot
      BY <1>0, <1>3, <2>1, <2>2, <3>1, ScanType DEF SwapSlot, LocalsOK, CacheOK
    <3>2. CASE TakeSlot(w)
      BY <1>0, <1>3, <2>1, <2>2, <3>2 DEF SwapSlot, TakeSlot, Goto, LocalsOK, CacheOK, PCs
    <3> QED
      BY <1>3, <3>1, <3>2 DEF SwapSlot
  <2> QED
    BY <1>0, <1>3, <1>c, <2>3, WriterTypes DEF SwapSlot, ChanOK
<1>4. CASE CopyIn(w)
  <2>1. held[w] \in Buffers /\ entry[w] \in Entry
    BY <1>0, <1>4 DEF CopyIn, LocalsOK, Inv, WriterInv, Holding
  <2>2. entry[w].size <= capacity[held[w]] /\ capacity[held[w]] \in Nat
    BY <1>0, <1>4, <2>1 DEF CopyIn, CacheOK, Inv, WriterInv, Holding
  <2>3. Copied(entry[w], capacity[held[w]]) = entry[w]
    BY <2>1, <2>2, EntryNames
  <2>4. content' \in [Buffers -> Entry \cup {NoEntry}]
    BY <1>4, <1>c, <2>1, <2>3 DEF CopyIn
  <2>5. LocalsOK'
    BY <1>0, <1>4 DEF CopyIn, Goto, LocalsOK, PCs
  <2> QED
    BY <1>0, <1>4, <2>4, <2>5, WriterTypes DEF CopyIn, CacheOK, ChanOK
<1>5. ASSUME Return(w) PROVE LocalsOK'
  BY <1>0, <1>5 DEF Return, Goto, LocalsOK, PCs
<1>6. CASE Send(w)
  <2>1. held[w] \in Buffers /\ entry[w] \in Entry
    BY <1>0, <1>6 DEF Send, LocalsOK, Inv, WriterInv, Holding
  <2>2. ChanOK'
    BY <1>0, <1>6, <2>1 DEF Send, Room, ChanOK
  <2> QED
    BY <1>0, <1>5, <1>6, <1>c, <2>2, WriterTypes DEF Send, CacheOK
<1>7. CASE WaitForRoom(w)
  <2>1. LocalsOK'
    BY <1>0, <1>7 DEF WaitForRoom, Goto, LocalsOK, PCs
  <2> QED
    BY <1>0, <1>7, <1>c, <2>1, WriterTypes DEF WaitForRoom, CacheOK, ChanOK
<1>8. CASE WriteTimeout(w)
  <2>1. entry[w] \in Entry
    BY <1>8 DEF WriteTimeout, Inv, WriterInv
  <2>2. ChanOK' /\ CacheOK'
    BY <1>0, <1>8, <2>1 DEF WriteTimeout, ChanOK, CacheOK
  <2> QED
    BY <1>0, <1>5, <1>8, <1>c, <2>2, WriterTypes DEF WriteTimeout
<1> QED
  BY <1>1, <1>2, <1>3, <1>4, <1>6, <1>7, <1>8 DEF WriteStep

-----------------------------------------------------------------------------
(* What a step of Write does, seen from outside: it touches the locals of  *)
(* one goroutine, and at most one buffer.                                  *)
OthersStay(w) ==
  \A v \in Writers : v # w =>
    /\ wpc'[v] = wpc[v] /\ writes'[v] = writes[v] /\ entry'[v] = entry[v]
    /\ wi'[v] = wi[v] /\ old'[v] = old[v] /\ held'[v] = held[v]

Scans(w) ==
  /\ Scanning(w)' /\ held'[w] = NoBuf /\ ~Holding(w)
  /\ UNCHANGED <<slot, content, capacity, ch>>
Gets(w, n) ==
  LET b == <<w, writes'[w]>> IN
  /\ wpc'[w] = "copy" /\ held'[w] = b /\ n >= entry'[w].size
  /\ b \in Buffers /\ ~Given(b) /\ ~Holding(w)
  /\ capacity' = [capacity EXCEPT ![b] = n]
  /\ UNCHANGED <<slot, content, ch>>
Takes(w, i) ==
  /\ wpc'[w] = "copy" /\ slot[i] # NoBuf /\ held'[w] = slot[i]
  /\ slot' = [slot EXCEPT ![i] = NoBuf] /\ wpc[w] = "cas"
  /\ UNCHANGED <<content, capacity, ch, writes, entry>>
Fills(w) ==
  /\ wpc[w] = "copy" /\ wpc'[w] = "try" /\ held'[w] = held[w]
  /\ content' = [content EXCEPT ![held[w]] = entry[w]]
  /\ UNCHANGED <<slot, capacity, ch, writes, entry>>
Sends(w) ==
  /\ wpc[w] \in {"try", "wait"} /\ wpc'[w] = "idle" /\ held'[w] = NoBuf
  /\ ch' = Append(ch, held[w])
  /\ UNCHANGED <<slot, content, capacity, writes>>
Waits(w) ==
  /\ wpc[w] = "try" /\ wpc'[w] = "wait" /\ held'[w] = held[w]
  /\ UNCHANGED <<slot, content, capacity, ch, writes, entry>>
GivesUp(w) ==
  /\ wpc[w] = "wait" /\ wpc'[w] = "idle" /\ held'[w] = NoBuf
  /\ UNCHANGED <<slot, content, capacity, ch, writes>>
Moves(w) ==
  \/ Scans(w) \/ Fills(w) \/ Sends(w) \/ Waits(w) \/ GivesUp(w)
  \/ \E n \in Nat : Gets(w, n)
  \/ \E i \in 1 .. Slots : Takes(w, i)

(* ... and what it leaves in its locals. *)
LocalInv(w) ==
  /\ old[w] # NoBuf <=> wpc[w] = "cas"
  /\ wpc[w] # "idle" => /\ entry[w] \in Entry /\ writes[w] # 0
                        /\ entry[w].w = w /\ entry[w].n = writes[w]
  /\ Scanning(w) => wi[w] <= Slots /\ entry[w].size <= DefaultSize

(* A buffer once given out stays so. *)
Grows(w) ==
  /\ writes[w] <= writes'[w]
  /\ writes[w] = writes'[w] => (Scanning(w)' => Scanning(w))

LEMMA ScanMove ==
  ASSUME Inv, NEW w \in Writers, Scanning(w), NextSlot(w),
         UNCHANGED <<slot, content, ch, writes, entry>>
  PROVE  /\ Moves(w)
         /\ wpc'[w] \in {"load", "copy"}
         /\ Scanning(w)' => wi'[w] <= Slots
<1>1. /\ wi[w] \in 1 .. Slots /\ wi \in [Writers -> 1 .. Slots + 1]
      /\ wpc \in [Writers -> PCs] /\ held \in [Writers -> Buffers \cup {NoBuf}]
      /\ writes[w] \in 1 .. MaxWrites /\ held[w] = NoBuf
      /\ entry[w].size <= DefaultSize /\ entry[w].size \in Nat
      /\ ~Holding(w)
  <2>1. wpc[w] # "idle" /\ ~Holding(w)
    BY DEF Scanning, Holding
  <2>2. entry[w] \in Entry /\ writes[w] # 0 /\ writes[w] \in 0 .. MaxWrites
    BY <2>1 DEF Inv, TypeOK, WriterInv
  <2> QED
    BY <2>1, <2>2, EntryNames DEF Inv, TypeOK, PCs, WriterInv
<1>2. CASE wi[w] < Slots
  <2>1. /\ wpc'[w] = "load" /\ wi'[w] = wi[w] + 1 /\ UNCHANGED <<held, capacity>>
    BY <1>1, <1>2 DEF NextSlot, Goto
  <2>2. Scans(w)
    BY <1>1, <2>1 DEF Scans, Scanning
  <2> QED
    BY <1>1, <1>2, <2>1, <2>2 DEF Moves
<1>3. CASE ~(wi[w] < Slots)
  <2> DEFINE b == <<w, writes[w]>>
  <2>1. b \in Buffers /\ ~Given(b)
    BY <1>1, BufferNames DEF Given
  <2>2. wpc'[w] = "copy" /\ held'[w] = b /\ capacity' = [capacity EXCEPT ![b] = DefaultSize]
    BY <1>1, <1>3 DEF NextSlot, NewBufferWrap, Goto
  <2>3. Gets(w, DefaultSize)
    BY <1>1, <2>1, <2>2 DEF Gets
  <2> QED
    BY <2>2, <2>3 DEF Moves, Scanning
<1> QED
  BY <1>2, <1>3

LEMMA WriteMoves ==
  ASSUME Inv, NEW w \in Writers, (\E n \in Sizes : WriteBegin(w, n)) \/ WriteStep(w)
  PROVE  OthersStay(w) /\ Moves(w) /\ LocalInv(w)' /\ Grows(w) /\ UNCHANGED procVars
<1>0. TypeOK /\ LocalsOK /\ CacheOK /\ WriterInv
  BY WriterTypes DEF Inv
<1>1. ASSUME NEW n \in Sizes, WriteBegin(w, n)
      PROVE  OthersStay(w) /\ Moves(w) /\ LocalInv(w)' /\ Grows(w) /\ UNCHANGED procVars
  <2> DEFINE k == writes[w] + 1
             b == <<w, k>>
  <2>1. k \in 1 .. MaxWrites /\ writes[w] \in Nat
    BY <1>0, <1>1 DEF WriteBegin, LocalsOK
  <2>2. /\ writes'[w] = k /\ wpc[w] = "idle" /\ old' = old /\ wi'[w] = 1
        /\ entry'[w] = [w |-> w, n |-> k, size |-> n] /\ held[w] = NoBuf
        /\ UNCHANGED <<slot, content, ch, procVars>>
    BY <1>0, <1>1 DEF WriteBegin, LocalsOK, WriterInv, Holding
  <2>3. entry'[w] \in Entry /\ entry'[w].w = w /\ entry'[w].n = k /\ entry'[w].size = n
    BY <2>1, <2>2 DEF Entry
  <2>4. OthersStay(w)
    BY <1>0, <1>1 DEF WriteBegin, OthersStay, NewBufferWrap, Goto, LocalsOK
  <2>5. CASE n > DefaultSize
    <3>1. wpc'[w] = "copy" /\ held'[w] = b /\ capacity' = [capacity EXCEPT ![b] = n]
      BY <1>0, <1>1, <2>5 DEF WriteBegin, NewBufferWrap, Goto, LocalsOK
    <3>2. b \in Buffers /\ ~Given(b)
      BY <2>1, BufferNames DEF Given
    <3>3. Gets(w, n)
      BY <2>2, <2>3, <3>1, <3>2 DEF Gets, Holding
    <3> QED
      BY <1>0, <2>1, <2>2, <2>3, <2>4, <3>1, <3>3
         DEF Moves, LocalInv, WriterInv, Grows, Scanning
  <2>6. CASE ~(n > DefaultSize)
    <3>1. wpc'[w] = "load" /\ held'[w] = NoBuf /\ capacity' = capacity
      BY <1>0, <1>1, <2>2, <2>6 DEF WriteBegin, Goto, LocalsOK
    <3>2. Scans(w)
      BY <2>2, <3>1 DEF Scans, Scanning, Holding
    <3> QED
      BY <1>0, <2>1, <2>2, <2>3, <2>4, <2>6, <3>1, <3>2
         DEF Moves, LocalInv, WriterInv, Grows, Scanning
  <2> QED
    BY <2>5, <2>6
<1>2. CASE LoadSlot(w)
  <2>1. /\ wi[w] \in 1 .. Slots /\ wpc[w] = "load" /\ held[w] = NoBuf /\ Scanning(w)
        /\ entry[w] \in Entry /\ entry[w].w = w /\ entry[w].n = writes[w] /\ writes[w] # 0
        /\ entry[w].size <= DefaultSize /\ writes[w] \in Nat
    BY <1>0, <1>2 DEF LoadSlot, LocalsOK, WriterInv, Scanning, Holding
  <2>2. /\ UNCHANGED <<slot, content, ch, writes, entry, procVars>>
        /\ old'[w] = slot[wi[w]]
    BY <1>0, <1>2 DEF LoadSlot, LocalsOK
  <2>3. OthersStay(w)
    BY <1>0, <1>2 DEF LoadSlot, NextSlot, OthersStay, NewBufferWrap, Goto, LocalsOK
  <2>4. CASE slot[wi[w]] = NoBuf
    <3>1. NextSlot(w)
      BY <1>2, <2>4 DEF LoadSlot
    <3>2. Moves(w) /\ wpc'[w] \in {"load", "copy"} /\ (Scanning(w)' => wi'[w] <= Slots)
      BY <2>1, <2>2, <3>1, ScanMove
    <3> QED
      BY <2>1, <2>2, <2>3, <2>4, <3>2 DEF LocalInv, Grows
  <2>5. CASE slot[wi[w]] # NoBuf
    <3>1. wpc'[w] = "cas" /\ UNCHANGED <<wi, held, capacity>>
      BY <1>0, <1>2, <2>5 DEF LoadSlot, Goto, LocalsOK
    <3>2. Scans(w)
      BY <2>1, <2>2, <3>1 DEF Scans, Scanning, Holding
    <3> QED
      BY <2>1, <2>2, <2>3, <2>5, <3>1, <3>2 DEF Moves, LocalInv, Grows
  <2> QED
    BY <2>4, <2>5
<1>3. CASE SwapSlot(w)
  <2>1. /\ wi[w] \in 1 .. Slots /\ wpc[w] = "cas" /\ held[w] = NoBuf /\ Scanning(w)
        /\ entry[w] \in Entry /\ entry[w].w = w /\ entry[w].n = writes[w] /\ writes[w] # 0
        /\ entry[w].size <= DefaultSize /\ writes[w] \in Nat /\ old[w] # NoBuf
    BY <1>0, <1>3 DEF SwapSlot, LocalsOK, WriterInv, Scanning, Holding
  <2>2. /\ UNCHANGED <<content, ch, writes, entry, procVars>>
        /\ old'[w] = NoBuf
    BY <1>0, <1>3 DEF SwapSlot, LocalsOK
  <2>3. OthersStay(w)
    BY <1>0, <1>3 DEF SwapSlot, TakeSlot, NextSlot, OthersStay, NewBufferWrap, Goto, LocalsOK
  <2>4. CASE slot[wi[w]] # old[w]
    <3>1. NextSlot(w) /\ slot' = slot
      BY <1>3, <2>4 DEF SwapSlot
    <3>2. Moves(w) /\ wpc'[w] \in {"load", "copy"} /\ (Scanning(w)' => wi'[w] <= Slots)
      BY <2>1, <2>2, <3>1, ScanMove
    <3> QED
      BY <2>1, <2>2, <2>3, <3>2 DEF LocalInv, Grows
  <2>5. CASE slot[wi[w]] = old[w]
    <3>1. /\ wpc'[w] = "copy" /\ held'[w] = old[w] /\ capacity' = capacity
          /\ slot' = [slot EXCEPT ![wi[w]] = NoBuf]
      BY <1>0, <1>3, <2>5 DEF SwapSlot, TakeSlot, Goto, LocalsOK
    <3>2. Takes(w, wi[w])
      BY <2>1, <2>2, <2>5, <3>1 DEF Takes
    <3> QED
      BY <2>1, <2>2, <2>3, <3>1, <3>2 DEF Moves, LocalInv, Grows, Scanning
  <2> QED
    BY <2>4, <2>5
<1>4. CASE CopyIn(w)
  <2>1. /\ held[w] \in Buffers /\ entry[w] \in Entry /\ entry[w].w = w
        /\ entry[w].n = writes[w] /\ writes[w] # 0 /\ writes[w] \in Nat
        /\ entry[w].size <= capacity[held[w]] /\ old[w] = NoBuf
    BY <1>0, <1>4 DEF CopyIn, LocalsOK, WriterInv, Holding
  <2>2. Copied(entry[w], capacity[held[w]]) = entry[w]
    <3>1. capacity[held[w]] \in Nat
      BY <1>0, <2>1 DEF CacheOK
    <3> QED
      BY <2>1, <3>1, EntryNames
  <2>3. wpc[w] = "copy" /\ wpc'[w] = "try"
    BY <1>0, <1>4 DEF CopyIn, Goto, LocalsOK
  <2>4. Fills(w)
    BY <1>4, <2>2, <2>3 DEF CopyIn, Fills
  <2> QED
    BY <1>0, <1>4, <2>1, <2>3, <2>4
       DEF CopyIn, Goto, OthersStay, Moves, LocalInv, Grows, Scanning, LocalsOK
<1>5. ASSUME Return(w), wpc[w] \in {"try", "wait"}
      PROVE  /\ OthersStay(w) /\ LocalInv(w)' /\ Grows(w) /\ UNCHANGED writes
             /\ wpc'[w] = "idle" /\ held'[w] = NoBuf
  <2>1. /\ wpc'[w] = "idle" /\ held'[w] = NoBuf /\ old' = old /\ writes' = writes
        /\ writes[w] \in Nat /\ old[w] = NoBuf
    BY <1>0, <1>5 DEF Return, Goto, LocalsOK, WriterInv
  <2>2. OthersStay(w)
    BY <1>0, <1>5 DEF Return, Goto, LocalsOK, OthersStay
  <2> QED
    BY <2>1, <2>2 DEF LocalInv, Grows, Scanning
<1>6. CASE Send(w)
  BY <1>5, <1>6 DEF Send, Sends, Moves
<1>7. CASE WaitForRoom(w)
  <2>1. wpc[w] = "try" /\ wpc'[w] = "wait" /\ writes[w] \in Nat
    BY <1>0, <1>7 DEF WaitForRoom, Goto, LocalsOK
  <2> QED
    BY <1>0, <1>7, <2>1 DEF WaitForRoom, Waits, Goto, OthersStay, Moves, LocalInv,
       WriterInv, Grows, Scanning, LocalsOK
<1>8. CASE WriteTimeout(w)
  BY <1>5, <1>8 DEF WriteTimeout, GivesUp, Moves
<1> QED
  BY <1>1, <1>2, <1>3, <1>4, <1>6, <1>7, <1>8 DEF WriteStep

-----------------------------------------------------------------------------
(* Every step of Write keeps the invariant. *)
LEMMA GivenStays ==
  ASSUME TypeOK, TypeOK', NEW w \in Writers, OthersStay(w), Grows(w),
         NEW b \in Buffers, Given(b)
  PROVE  Given(b)'
<1> DEFINE v == b[1]
<1>0. v \in Writers /\ b[2] \in Nat
  BY BufferNames
<1>1. /\ writes[v] \in Nat /\ writes[w] \in Nat /\ writes'[w] \in Nat
      /\ b[2] <= writes[v]
  <2>1. \A u \in Writers : writes[u] \in Nat /\ writes'[u] \in Nat
    BY DEF TypeOK
  <2>2. b[2] <= writes[v]
    BY DEF Given
  <2> QED
    BY <1>0, <2>1, <2>2
<1>2. b[2] = writes[v] => ~Scanning(v)
  BY DEF Given
<1> HIDE DEF v
<1>3. CASE v # w
  BY <1>0, <1>1, <1>2, <1>3 DEF OthersStay, Given, Scanning, v
<1>4. CASE v = w
  <2>1. writes[w] <= writes'[w] /\ (writes[w] = writes'[w] => (Scanning(w)' => Scanning(w)))
    BY DEF Grows
  <2>2. b[2] <= writes'[w] /\ (b[2] = writes'[w] => writes[w] = writes'[w])
    BY <1>0, <1>1, <1>4, <2>1
  <2> QED
    BY <1>2, <1>4, <2>1, <2>2 DEF Given, v
<1> QED
  BY <1>3, <1>4

LEMMA WriteGiven ==
  ASSUME Inv, NEW w \in Writers, OthersStay(w), Moves(w), Grows(w), UNCHANGED procVars,
         TypeOK'
  PROVE  GivenInv'
<1> SUFFICES ASSUME NEW b \in Buffers, Shared(b)' \/ first' = b \/ next' = b
             PROVE  Given(b)'
  BY DEF GivenInv
<1>1. Given(b) => Given(b)'
  BY GivenStays DEF Inv
<1>2. UNCHANGED <<first, next>> /\ b # NoBuf
  BY BufferNames DEF procVars, batchVars
<1>3. \A v \in Writers : v # w => held'[v] = held[v]
  BY DEF OthersStay
<1>4. CASE UNCHANGED <<slot, ch>> /\ held'[w] \in {held[w], NoBuf}
  BY <1>1, <1>2, <1>3, <1>4 DEF Inv, GivenInv, Shared
<1>5. CASE \E n \in Nat : Gets(w, n)
  <2>1. CASE b = <<w, writes'[w]>>
    BY <1>5, <2>1 DEF Gets, Given, Scanning, TypeOK
  <2>2. CASE b # <<w, writes'[w]>>
    BY <1>1, <1>2, <1>3, <1>5, <2>2 DEF Gets, Inv, GivenInv, Shared
  <2> QED
    BY <2>1, <2>2
<1>6. ASSUME NEW i \in 1 .. Slots, Takes(w, i) PROVE Given(b)'
  <2>1. \A j \in 1 .. Slots : slot'[j] = slot[j] \/ slot'[j] = NoBuf
    BY <1>6 DEF Takes, Inv, TypeOK
  <2> QED
    BY <1>1, <1>2, <1>3, <1>6, <2>1 DEF Takes, Inv, GivenInv, Shared
<1>7. CASE Sends(w)
  <2>1. ch \in Seq(Buffers) /\ held[w] \in Buffers
    BY <1>7 DEF Sends, Inv, TypeOK, WriterInv, Holding
  <2>2. \A i \in 1 .. Len(ch') : ch'[i] = held[w] \/ (i \in 1 .. Len(ch) /\ ch'[i] = ch[i])
    BY <1>7, <2>1 DEF Sends
  <2> QED
    BY <1>1, <1>2, <1>3, <1>7, <2>2 DEF Sends, Inv, GivenInv, Shared
<1> QED
  BY <1>4, <1>5, <1>6, <1>7 DEF Moves, Scans, Fills, Waits, GivesUp, Inv, WriterInv

LEMMA WriteExclusive ==
  ASSUME Inv, NEW w \in Writers, OthersStay(w), Moves(w), UNCHANGED procVars
  PROVE  Exclusive'
<1> USE DEF Inv
<1>1. /\ UNCHANGED <<first, next, cpc>> /\ TypeOK /\ Exclusive /\ GivenInv
      /\ ch \in Seq(Buffers) /\ slot \in [1 .. Slots -> Buffers \cup {NoBuf}]
      /\ \A b \in Buffers : b # NoBuf
  BY BufferNames DEF procVars, batchVars, TypeOK
<1>2. \A v \in Writers : v # w => held'[v] = held[v]
  BY DEF OthersStay
<1>3. CASE /\ held'[w] \in {held[w], NoBuf}
           /\ UNCHANGED <<slot, ch>>
  BY <1>1, <1>2, <1>3 DEF Exclusive, Shared
<1>4. ASSUME NEW n \in Nat, Gets(w, n) PROVE Exclusive'
  <2> DEFINE b == held'[w]
  <2>1. b \in Buffers /\ ~Given(b) /\ UNCHANGED <<slot, ch>>
    BY <1>4 DEF Gets
  <2>2. ~Shared(b) /\ first # b /\ next # b
    BY <1>1, <2>1 DEF GivenInv, Shared
  <2> HIDE DEF b
  <2>3. \A v \in Writers : held'[v] = IF v = w THEN b ELSE held[v]
    BY <1>2 DEF b
  <2> QED
    BY <1>1, <2>1, <2>2, <2>3 DEF Exclusive, Shared
<1>5. ASSUME NEW k \in 1 .. Slots, Takes(w, k) PROVE Exclusive'
  <2>1. /\ \A i \in 1 .. Slots : slot'[i] = IF i = k THEN NoBuf ELSE slot[i]
        /\ \A v \in Writers : held'[v] = IF v = w THEN slot[k] ELSE held[v]
        /\ ch' = ch /\ slot[k] # NoBuf
    BY <1>1, <1>2, <1>5 DEF Takes
  <2> QED
    BY <1>1, <2>1 DEF Exclusive, Shared
<1>6. CASE Sends(w)
  <2>1. /\ held[w] \in Buffers /\ slot' = slot
        /\ \A v \in Writers : held'[v] = IF v = w THEN NoBuf ELSE held[v]
    BY <1>1, <1>2, <1>6 DEF Sends, WriterInv, Holding, TypeOK
  <2>2. /\ Len(ch') = Len(ch) + 1 /\ ch'[Len(ch) + 1] = held[w] /\ Len(ch) \in Nat
        /\ \A i \in 1 .. Len(ch) : ch'[i] = ch[i]
    BY <1>1, <1>6, <2>1 DEF Sends
  <2>3. \A i \in 1 .. Len(ch') : i \in 1 .. Len(ch) \/ i = Len(ch) + 1
    BY <2>2
  <2>4. ~(\E i \in 1 .. Slots : slot[i] = held[w]) /\ ~(\E i \in 1 .. Len(ch) : ch[i] = held[w])
    BY <1>1, <2>1 DEF Exclusive
  <2>5. /\ \A i, j \in 1 .. Len(ch') : ch'[i] = ch'[j] => i = j
        /\ \A i \in 1 .. Slots, j \in 1 .. Len(ch') : slot[i] # ch'[j]
    BY <1>1, <2>2, <2>3, <2>4 DEF Exclusive
  <2>6. \A v \in Writers, j \in 1 .. Len(ch') : held'[v] # ch'[j]
    <3>1. ASSUME NEW v \in Writers, NEW j \in 1 .. Len(ch') PROVE held'[v] # ch'[j]
      BY <1>1, <2>1, <2>2, <2>3 DEF Exclusive
    <3> QED
      BY <3>1
  <2>7. \A b \in Buffers : Shared(b)' => Shared(b)
    BY <1>1, <2>1, <2>2, <2>3 DEF Shared
  <2>8. /\ \A u, v \in Writers : held'[u] = held'[v] => u = v \/ held'[u] = NoBuf
        /\ \A i \in 1 .. Slots, v \in Writers : slot[i] = held'[v] => slot[i] = NoBuf
    BY <1>1, <2>1 DEF Exclusive
  <2>9. /\ first # NoBuf /\ cpc # "reportFirst" => ~Shared(first)' /\ first # next
        /\ next # NoBuf /\ cpc # "reportNext" => ~Shared(next)'
    BY <1>1, <2>7 DEF Exclusive, TypeOK
  <2> QED
    BY <1>1, <2>1, <2>5, <2>6, <2>8, <2>9 DEF Exclusive
<1> QED
  BY <1>3, <1>4, <1>5, <1>6 DEF Moves, Scans, Fills, Waits, GivesUp, WriterInv

LEMMA WriteContents ==
  ASSUME Inv, NEW w \in Writers, OthersStay(w), Moves(w), LocalInv(w)',
         UNCHANGED procVars, TypeOK'
  PROVE  WriterInv' /\ SlotInv' /\ ProcessInv' /\ Batches'
<1> USE DEF Inv
<1>1. /\ UNCHANGED <<first, next, cpc, used>> /\ TypeOK /\ Exclusive /\ GivenInv
      /\ WriterInv /\ SlotInv /\ ProcessInv
      /\ content \in [Buffers -> Entry \cup {NoEntry}] /\ capacity \in [Buffers -> Nat]
      /\ ch \in Seq(Buffers) /\ held[w] \in Buffers \cup {NoBuf}
  BY DEF procVars, batchVars, TypeOK
(* Who has a buffer sees nothing of what others do with theirs. *)
<1>2. ASSUME NEW b \in Buffers, b # held[w], Given(b)
      PROVE  content'[b] = content[b] /\ capacity'[b] = capacity[b]
  BY <1>1, <1>2 DEF Moves, Scans, Fills, Sends, Waits, GivesUp, Gets, Takes
<1>3. ASSUME NEW v \in Writers, v # w, Holding(v)
      PROVE  content'[held[v]] = content[held[v]] /\ capacity'[held[v]] = capacity[held[v]]
  <2>1. held[v] \in Buffers /\ held[v] # NoBuf /\ held[v] # held[w] /\ Given(held[v])
    BY <1>1, <1>3 DEF WriterInv, TypeOK, Exclusive, GivenInv, Shared
  <2> QED
    BY <1>2, <2>1
<1>4. ASSUME NEW v \in Writers, v # w
      PROVE  /\ held'[v] # NoBuf <=> Holding(v)'
             /\ old'[v] # NoBuf <=> wpc'[v] = "cas"
             /\ wpc'[v] # "idle" => /\ entry'[v] \in Entry /\ writes'[v] # 0
                                    /\ entry'[v].w = v /\ entry'[v].n = writes'[v]
             /\ Scanning(v)' => wi'[v] <= Slots /\ entry'[v].size <= DefaultSize
             /\ Holding(v)' => entry'[v].size <= capacity'[held'[v]]
             /\ wpc'[v] \in {"try", "wait"} => content'[held'[v]] = entry'[v]
  <2>1. /\ wpc'[v] = wpc[v] /\ writes'[v] = writes[v] /\ entry'[v] = entry[v]
        /\ wi'[v] = wi[v] /\ old'[v] = old[v] /\ held'[v] = held[v]
    BY <1>4 DEF OthersStay
  <2>2. wpc[v] \in {"try", "wait"} => Holding(v)
    BY DEF Holding
  <2> QED
    BY <1>1, <1>3, <1>4, <2>1, <2>2 DEF WriterInv, Holding, Scanning
<1>5. /\ held'[w] # NoBuf <=> Holding(w)'
      /\ Holding(w)' => entry'[w].size <= capacity'[held'[w]]
      /\ wpc'[w] \in {"try", "wait"} => content'[held'[w]] = entry'[w]
  <2>1. CASE Scans(w) \/ Sends(w) \/ GivesUp(w)
    BY <2>1 DEF Scans, Sends, GivesUp, Holding, Scanning
  <2>2. CASE Waits(w)
    BY <1>1, <2>2 DEF Waits, Holding, WriterInv
  <2>3. CASE Fills(w)
    BY <1>1, <2>3 DEF Fills, Holding, WriterInv
  <2>4. ASSUME NEW n \in Nat, Gets(w, n)
        PROVE  /\ Holding(w)' /\ held'[w] # NoBuf
               /\ entry'[w].size <= capacity'[held'[w]]
               /\ wpc'[w] = "copy"
    BY <1>1, <2>4, BufferNames DEF Gets, Holding
  <2>5. ASSUME NEW i \in 1 .. Slots, Takes(w, i)
        PROVE  /\ Holding(w)' /\ held'[w] # NoBuf
               /\ entry'[w].size <= capacity'[held'[w]]
               /\ wpc'[w] = "copy"
    BY <1>1, <2>5 DEF Takes, Holding, SlotInv, WriterInv, Scanning
  <2> QED
    BY <2>1, <2>2, <2>3, <2>4, <2>5 DEF Moves
<1>6. WriterInv'
  <2>1. LocalInv(w)'
    OBVIOUS
  <2> QED
    BY <1>4, <1>5, <2>1 DEF WriterInv, LocalInv
<1>7. SlotInv'
  <2> SUFFICES ASSUME NEW i \in 1 .. Slots, slot'[i] # NoBuf
               PROVE  capacity'[slot'[i]] = DefaultSize
    BY DEF SlotInv
  <2>1. slot'[i] = slot[i]
    BY DEF Moves, Scans, Gets, Takes, Fills, Sends, Waits, GivesUp, TypeOK
  <2>2. slot[i] \in Buffers /\ slot[i] # held[w] /\ Given(slot[i])
    BY <1>1, <2>1 DEF TypeOK, Exclusive, GivenInv, Shared
  <2> QED
    BY <1>1, <1>2, <2>1, <2>2 DEF SlotInv
<1>8. /\ first # NoBuf /\ cpc # "reportFirst" => content'[first] = content[first]
      /\ next # NoBuf /\ cpc # "reportNext" => content'[next] = content[next]
  <2>1. /\ first # NoBuf /\ cpc # "reportFirst" => first # held[w]
        /\ next # NoBuf /\ cpc # "reportNext" => next # held[w]
    BY <1>1 DEF Exclusive, Shared
  <2> QED
    BY <1>1, <1>2, <2>1 DEF GivenInv, TypeOK
<1>9. \A i \in 1 .. Len(ch') : content'[ch'[i]] \in Entry
  <2>1. \A i \in 1 .. Len(ch) : content'[ch[i]] \in Entry
    <3>1. \A i \in 1 .. Len(ch) : ch[i] \in Buffers /\ ch[i] # held[w] /\ Given(ch[i])
      BY <1>1 DEF Exclusive, GivenInv, Shared
    <3> QED
      BY <1>1, <1>2, <3>1 DEF ProcessInv
  <2>2. CASE ch' = ch
    BY <2>1, <2>2
  <2>3. CASE Sends(w)
    <3>1. held[w] \in Buffers /\ content'[held[w]] \in Entry
      BY <1>1, <2>3 DEF Sends, WriterInv, Holding
    <3>2. \A i \in 1 .. Len(ch') : ch'[i] = held[w] \/ (i \in 1 .. Len(ch) /\ ch'[i] = ch[i])
      BY <1>1, <2>3, <3>1 DEF Sends
    <3> QED
      BY <2>1, <3>1, <3>2
  <2> QED
    BY <2>2, <2>3 DEF Moves, Scans, Gets, Takes, Fills, Waits, GivesUp
<1>10. ProcessInv'
  BY <1>1, <1>8, <1>9 DEF ProcessInv, HasFirst, HasNext
<1>11. Batches'
  <2>1. cpc = "copyFirst" => BufLen(first)' = BufLen(first) /\ BufLen(next)' = BufLen(next)
    BY <1>1, <1>8 DEF BufLen, ProcessInv, HasFirst, HasNext
  <2>2. cpc \in {"putFirst", "copyNext"} => BufLen(next)' = BufLen(next)
    BY <1>1, <1>8 DEF BufLen, ProcessInv, HasNext
  <2> QED
    BY <1>1, <2>1, <2>2 DEF Batches
<1> QED
  BY <1>6, <1>7, <1>10, <1>11

-----------------------------------------------------------------------------
(* Every step of process keeps the invariant. *)
CPCs == {"recv", "gather", "copyFirst", "putFirst", "copyNext", "putNext",
         "writeFirst", "freeFirst", "reportFirst", "writeTemp", "writeNext",
         "freeNext", "reportNext", "hung"}
ProcOK ==
  /\ cpc \in CPCs
  /\ first \in Buffers \cup {NoBuf} /\ next \in Buffers \cup {NoBuf}
  /\ temp \in Seq(Entry) /\ used \in Nat /\ pi \in 1 .. Slots
  /\ failed \in Entry \cup {NoEntry}
OutOK == settled \in Nat /\ written \in Seq(Entry)

Mine == <<content, capacity, writerVars, refused, accepted>>

LEMMA ProcTypes ==
  /\ TypeOK => /\ ProcOK /\ OutOK
               /\ content \in [Buffers -> Entry \cup {NoEntry}]
  /\ TypeOK /\ UNCHANGED Mine /\ ProcOK' /\ OutOK' /\ CacheOK'
       /\ ch' \in Seq(Buffers) /\ Len(ch') <= ChanCap => TypeOK'
BY DEF TypeOK, ProcOK, OutOK, CacheOK, CPCs, Mine, writerVars

(* What the steps that leave the cache and the channel alone have in common. *)
Keeps ==
  /\ UNCHANGED <<Mine, slot, ch, pi>>
  /\ first' \in {first, NoBuf} /\ next' \in {next, NoBuf}
  /\ cpc = "reportFirst" => first' = NoBuf
  /\ cpc = "reportNext" => next' = NoBuf
  /\ cpc' \notin {"reportFirst", "reportNext"}

LEMMA KeepsInv ==
  ASSUME Inv, Keeps, ProcOK', OutOK',
         HasFirst' => first' # NoBuf, HasNext' => next' # NoBuf,
         cpc' \in {"recv", "copyNext", "putNext", "writeTemp", "writeNext", "freeNext"}
           => first' = NoBuf,
         cpc' \in {"recv", "gather"} => next' = NoBuf,
         cpc' = "recv" => used' = 0,
         used' = 0 \/ first' = NoBuf \/ cpc' = "putFirst",
         Batches'
  PROVE  Inv'
<1> USE DEF Inv, Keeps
<1>1. TypeOK'
  <2>1. CacheOK /\ ChanOK
    BY WriterTypes
  <2>2. CacheOK' /\ ch' \in Seq(Buffers) /\ Len(ch') <= ChanCap
    BY <2>1 DEF CacheOK, ChanOK, Mine
  <2> QED
    BY <2>2, ProcTypes
<1>2. WriterInv' /\ SlotInv'
  BY DEF WriterInv, SlotInv, Mine, writerVars, Scanning, Holding
<1>3. ProcessInv'
  BY DEF ProcessInv, Mine, HasFirst, HasNext
<1>4. \A b : Shared(b)' <=> Shared(b)
  BY DEF Shared, Mine, writerVars
<1>5. GivenInv'
  BY <1>4, BufferNames DEF GivenInv, Given, Scanning, Mine, writerVars
<1>6. Exclusive'
  BY <1>4 DEF Exclusive, Mine, writerVars
<1> QED
  BY <1>1, <1>2, <1>3, <1>5, <1>6

LEMMA QuietInv ==
  ASSUME Inv, NoNext \/ CopyFirst \/ CopyNext \/ ReportFirst \/ ReportNext
  PROVE  Inv'
<1> USE DEF Inv, batchVars, histVars
<1>0. TypeOK /\ ProcOK /\ OutOK /\ ProcessInv /\ Batches
  BY ProcTypes
<1>1. CASE NoNext
  <2>1. Keeps /\ ProcOK' /\ OutOK'
    BY <1>0, <1>1 DEF NoNext, Keeps, Mine, ProcOK, OutOK, CPCs
  <2>2. Batches'
    BY <1>0, <1>1 DEF NoNext, Batches
  <2> QED
    BY <1>0, <1>1, <2>1, <2>2, KeepsInv DEF NoNext, ProcessInv, HasFirst, HasNext
<1>2. CASE CopyFirst
  <2>1. /\ first \in Buffers /\ next \in Buffers /\ content[first] \in Entry /\ used = 0
        /\ BufLen(first) \in Nat /\ BufLen(next) \in Nat /\ first # NoBuf /\ next # NoBuf
    BY <1>0, <1>2, LenType DEF CopyFirst, ProcessInv, HasFirst, HasNext, ProcOK
  <2>2. /\ cpc = "copyFirst" /\ cpc' = "putFirst" /\ used' = BufLen(first)
        /\ UNCHANGED <<first, next, content>> /\ temp' = Append(temp, content[first])
    BY <1>2, <2>1 DEF CopyFirst, CopyOut
  <2>3. Keeps /\ OutOK'
    BY <1>0, <1>2, <2>2 DEF CopyFirst, CopyOut, Keeps, Mine, OutOK
  <2>4. ProcOK'
    BY <1>0, <1>2, <2>1, <2>2 DEF CopyFirst, CopyOut, ProcOK, CPCs
  <2>5. Batches'
    <3>1. BufLen(next)' = BufLen(next)
      BY <2>2 DEF BufLen
    <3> QED
      BY <1>0, <2>1, <2>2, <3>1 DEF Batches
  <2> QED
    BY <2>1, <2>2, <2>3, <2>4, <2>5, KeepsInv DEF HasFirst, HasNext
<1>3. CASE CopyNext
  <2>1. /\ next \in Buffers /\ content[next] \in Entry
        /\ BufLen(next) \in Nat /\ first = NoBuf /\ next # NoBuf
    BY <1>0, <1>3, LenType DEF CopyNext, ProcessInv, HasNext, ProcOK
  <2>2. /\ cpc = "copyNext" /\ cpc' = "putNext" /\ used' = used + BufLen(next)
        /\ UNCHANGED <<first, next>> /\ temp' = Append(temp, content[next])
    BY <1>3 DEF CopyNext, CopyOut
  <2>3. Keeps /\ OutOK'
    BY <1>0, <1>3, <2>2 DEF CopyNext, CopyOut, Keeps, Mine, OutOK
  <2>4. ProcOK'
    BY <1>0, <1>3, <2>1, <2>2 DEF CopyNext, CopyOut, ProcOK, CPCs
  <2>5. Batches'
    BY <1>0, <2>1, <2>2 DEF Batches
  <2> QED
    BY <2>1, <2>2, <2>3, <2>4, <2>5, KeepsInv DEF HasFirst, HasNext
<1>4. CASE ReportFirst
  <2>1. /\ cpc = "reportFirst" /\ cpc' = "writeTemp" /\ first' = NoBuf
        /\ UNCHANGED <<next, used, content>> /\ failed' = NoEntry
    BY <1>4 DEF ReportFirst, Report
  <2>2. Keeps /\ ProcOK' /\ OutOK'
    BY <1>0, <1>4, <2>1 DEF ReportFirst, Report, Keeps, Mine, ProcOK, OutOK, CPCs
  <2>3. Batches'
    BY <1>0, <2>1 DEF Batches
  <2> QED
    BY <2>1, <2>2, <2>3, KeepsInv DEF HasFirst, HasNext
<1>5. CASE ReportNext
  <2>1. /\ cpc = "reportNext" /\ cpc' = "recv" /\ first' = NoBuf /\ next' = NoBuf
        /\ temp' = <<>> /\ used' = 0 /\ failed' = NoEntry
    BY <1>5 DEF ReportNext, Report, NoBatch
  <2>2. Keeps /\ ProcOK' /\ OutOK'
    BY <1>0, <1>5, <2>1 DEF ReportNext, Report, Keeps, Mine, ProcOK, OutOK, CPCs
  <2>3. Batches'
    BY <2>1 DEF Batches
  <2> QED
    BY <2>1, <2>2, <2>3, KeepsInv DEF HasFirst, HasNext
<1> QED
  BY <1>1, <1>2, <1>3, <1>4, <1>5

(* However the io.Writer answers: on to `then`, back to the start, or hung. *)
LEMMA WriteOutMoves ==
  ASSUME OutOK, NEW s \in Seq(Entry), NEW fail, NEW rest, NEW then,
         WriteOut(s, fail, rest, then)
  PROVE  \/ /\ \E k \in 0 .. Len(s) : written' = written \o SubSeq(s, 1, k)
            /\ \/ /\ settled' = settled + Len(s)
                  /\ cpc' = then /\ UNCHANGED batchVars
               \/ /\ settled' = settled + Len(s) + rest
                  /\ cpc' = "recv" /\ NoBatch
         \/ cpc' = "hung" /\ UNCHANGED <<written, settled, batchVars>>
<1>1. Len(s) \in 0 .. Len(s) /\ s = SubSeq(s, 1, Len(s))
  OBVIOUS
<1>2. ASSUME written' = written \o s
      PROVE  \E k \in 0 .. Len(s) : written' = written \o SubSeq(s, 1, k)
  BY <1>1, <1>2
<1>3. \/ /\ written' = written \o s \/ WriterTakes(s)
         /\ settled' = settled + Len(s) /\ cpc' = then /\ UNCHANGED batchVars
      \/ WriterTakes(s) /\ settled' = settled + Len(s) + rest /\ cpc' = "recv" /\ NoBatch
      \/ cpc' = "hung" /\ UNCHANGED <<written, settled, batchVars>>
  BY DEF WriteOut
<1> QED
  BY <1>2, <1>3, Zenon DEF WriterTakes

LEMMA WriteOutInv ==
  ASSUME Inv, NEW s \in Seq(Entry), NEW fail \in Entry \cup {NoEntry},
         NEW b \in Buffers \cup {NoBuf}, NEW then \in CPCs,
         WriteOut(s, fail, Rest(b), then), NoSharedChange,
         cpc \in {"writeFirst", "writeTemp", "writeNext"},
         \/ then = "freeFirst" /\ first # NoBuf
         \/ then = "writeNext" /\ first = NoBuf
         \/ then = "freeNext" /\ first = NoBuf /\ next # NoBuf
  PROVE  Inv'
<1> USE DEF Inv, batchVars
<1>0. TypeOK /\ ProcOK /\ OutOK /\ ProcessInv /\ Batches
  BY ProcTypes
<1>1. Rest(b) \in Nat /\ Len(s) \in Nat
  BY DEF Rest
<1>2. \/ cpc' \in {then, "hung"} /\ UNCHANGED batchVars
      \/ cpc' = "recv" /\ NoBatch
  BY DEF WriteOut
<1>3. Keeps
  BY <1>2 DEF Keeps, Mine, NoSharedChange, NoBatch
<1>4. ProcOK'
  <2>1. failed' \in Entry \cup {NoEntry}
    BY <1>0 DEF WriteOut, ProcOK
  <2>2. pi' = pi /\ cpc' \in CPCs
    BY <1>2 DEF NoSharedChange, CPCs
  <2>3. CASE UNCHANGED batchVars
    BY <1>0, <2>1, <2>2, <2>3 DEF ProcOK
  <2>4. CASE NoBatch
    BY <1>0, <2>1, <2>2, <2>4 DEF ProcOK, NoBatch
  <2> QED
    BY <1>2, <2>3, <2>4
<1>5. OutOK'
  <2>1. CASE UNCHANGED <<written, settled>>
    BY <1>0, <2>1 DEF OutOK
  <2>2. CASE /\ \E k \in 0 .. Len(s) : written' = written \o SubSeq(s, 1, k)
             /\ settled' \in {settled + Len(s), settled + Len(s) + Rest(b)}
    <3>1. PICK k \in 0 .. Len(s) : written' = written \o SubSeq(s, 1, k)
      BY <2>2
    <3>2. SubSeq(s, 1, k) \in Seq(Entry)
      BY <1>1
    <3>3. written' \in Seq(Entry)
      BY <1>0, <3>1, <3>2 DEF OutOK
    <3> QED
      BY <1>0, <1>1, <2>2, <3>3 DEF OutOK
  <2> QED
    BY <1>0, <2>1, <2>2, WriteOutMoves
<1>6. Batches'
  BY <1>0, <1>2 DEF Batches, NoBatch
<1>7. /\ HasFirst' => first' # NoBuf
      /\ HasNext' => next' # NoBuf
      /\ cpc' \in {"recv", "copyNext", "putNext", "writeTemp", "writeNext", "freeNext"}
           => first' = NoBuf
      /\ cpc' \in {"recv", "gather"} => next' = NoBuf
      /\ cpc' = "recv" => used' = 0
      /\ used' = 0 \/ first' = NoBuf \/ cpc' = "putFirst"
  BY <1>0, <1>2 DEF ProcessInv, HasFirst, HasNext, NoBatch
<1> QED
  BY <1>3, <1>4, <1>5, <1>6, <1>7, KeepsInv

LEMMA WriteLogInv ==
  ASSUME Inv, WriteFirst \/ WriteTemp \/ WriteNext
  PROVE  Inv'
<1> USE DEF Inv, batchVars
<1>0. TypeOK /\ ProcOK /\ OutOK /\ ProcessInv /\ Batches
  BY ProcTypes
(* Nothing to write. *)
<1>1. ASSUME NEW pc \in {"writeTemp", "writeNext"}, SkipTo(pc), NoSharedChange, first = NoBuf,
             cpc \in {"writeFirst", "writeTemp"}
      PROVE  Inv'
  <2>1. Keeps /\ ProcOK' /\ OutOK' /\ Batches'
    BY <1>0, <1>1 DEF SkipTo, NoSharedChange, Keeps, Mine, ProcOK, OutOK, CPCs, Batches
  <2> QED
    BY <1>0, <1>1, <2>1, KeepsInv DEF SkipTo, HasFirst, HasNext, ProcessInv
<1>2. CASE WriteFirst
  <2>1. CASE first = NoBuf
    BY <1>1, <1>2, <2>1 DEF WriteFirst
  <2>2. CASE first # NoBuf
    <3>1. content[first] \in Entry /\ <<content[first]>> \in Seq(Entry)
      BY <1>0, <1>2, <2>2 DEF WriteFirst, ProcessInv
    <3> QED
      <4>1. /\ WriteOut(<<content[first]>>, content[first], Rest(next), "freeFirst")
            /\ NoSharedChange /\ cpc = "writeFirst"
        BY <1>2, <2>2 DEF WriteFirst
      <4>2. next \in Buffers \cup {NoBuf} /\ "freeFirst" \in CPCs
        BY <1>0 DEF ProcOK, CPCs
      <4> QED
        BY <2>2, <3>1, <4>1, <4>2, WriteOutInv
  <2> QED
    BY <2>1, <2>2
<1>3. CASE WriteTemp
  <2>1. first = NoBuf /\ temp \in Seq(Entry) /\ next \in Buffers \cup {NoBuf}
    BY <1>0, <1>3 DEF WriteTemp, ProcessInv, ProcOK
  <2>2. CASE used = 0
    BY <1>1, <1>3, <2>1, <2>2 DEF WriteTemp
  <2>3. CASE used # 0
    BY <1>3, <2>1, <2>3, WriteOutInv DEF WriteTemp, CPCs
  <2> QED
    BY <2>2, <2>3
<1>4. CASE WriteNext
  <2>1. first = NoBuf
    BY <1>0, <1>4 DEF WriteNext, ProcessInv
  <2>2. CASE next = NoBuf
    <3>1. cpc' = "recv" /\ first' = NoBuf /\ next' = NoBuf /\ temp' = <<>> /\ used' = 0
      BY <1>4, <2>2 DEF WriteNext, NoBatch
    <3>2. Keeps /\ ProcOK' /\ OutOK' /\ Batches'
      BY <1>0, <1>4, <2>2, <3>1
         DEF WriteNext, NoSharedChange, Keeps, Mine, ProcOK, OutOK, CPCs, Batches
    <3> QED
      BY <3>1, <3>2, KeepsInv DEF HasFirst, HasNext
  <2>3. CASE next # NoBuf
    <3>1. content[next] \in Entry /\ <<content[next]>> \in Seq(Entry)
      BY <1>0, <1>4, <2>3 DEF WriteNext, ProcessInv
    <3>2. WriteOut(<<content[next]>>, content[next], Rest(NoBuf), "freeNext")
      BY <1>4, <2>3 DEF WriteNext, Rest
    <3> QED
      BY <1>4, <2>1, <2>3, <3>1, <3>2, WriteOutInv DEF WriteNext, CPCs
  <2> QED
    BY <2>2, <2>3
<1> QED
  BY <1>2, <1>3, <1>4

(* process takes the head of the channel. *)
LEMMA RecvHead ==
  ASSUME Inv, NEW b, b = Head(ch), RecvFirst \/ RecvNext
  PROVE  Inv'
<1> USE DEF Inv, histVars
<1>0. /\ TypeOK /\ ProcOK /\ OutOK /\ ProcessInv /\ Batches /\ GivenInv /\ Exclusive
      /\ CacheOK /\ ch \in Seq(Buffers) /\ Len(ch) <= ChanCap
  BY ProcTypes, WriterTypes DEF TypeOK
<1>1. /\ ch # <<>> /\ ch' = Tail(ch) /\ UNCHANGED <<Mine, slot, pi, temp, used, failed, settled, written>>
      /\ \/ /\ cpc = "recv" /\ cpc' = "gather"
            /\ first' = b /\ next' = next
         \/ /\ cpc = "gather" /\ cpc' \in {"writeFirst", "copyFirst", "copyNext"}
            /\ next' = b /\ first' = first
            /\ cpc' = "copyFirst" => first # NoBuf
            /\ cpc' = "copyNext" => first = NoBuf
  BY DEF RecvFirst, RecvNext, Mine
<1>2. /\ b \in Buffers /\ b # NoBuf /\ b = ch[1] /\ 1 \in 1 .. Len(ch)
      /\ ch' \in Seq(Buffers) /\ Len(ch') <= ChanCap /\ Len(ch) \in Nat
      /\ \A i \in 1 .. Len(ch') : i + 1 \in 1 .. Len(ch) /\ ch'[i] = ch[i + 1] /\ i + 1 # 1
  BY <1>0, <1>1, BufferNames
<1>3. /\ ~(\E i \in 1 .. Slots : slot[i] = b) /\ ~(\E w \in Writers : held[w] = b)
      /\ \A i \in 1 .. Len(ch') : ch'[i] # b
  <2>1. \A i \in 1 .. Slots : slot[i] # b
    BY <1>0, <1>2 DEF Exclusive
  <2>2. \A w \in Writers : held[w] # b
    BY <1>0, <1>2 DEF Exclusive
  <2>3. \A i, j \in 1 .. Len(ch) : ch[i] = ch[j] => i = j
    BY <1>0 DEF Exclusive
  <2>4. ASSUME NEW i \in 1 .. Len(ch') PROVE ch'[i] # b
    BY <1>2, <2>3
  <2> QED
    BY <2>1, <2>2, <2>4
<1>4. content[b] \in Entry /\ Given(b) /\ Shared(b)
  BY <1>0, <1>2 DEF ProcessInv, GivenInv, Shared
<1>5. /\ first = b => cpc = "reportFirst"
      /\ next = b => cpc = "reportNext"
  BY <1>0, <1>2, <1>4 DEF Exclusive
<1>6. TypeOK'
  <2>1. CacheOK'
    BY <1>0, <1>1 DEF CacheOK, Mine
  <2>2. OutOK'
    BY <1>0, <1>1 DEF OutOK
  <2>3. ProcOK'
    BY <1>0, <1>1, <1>2 DEF ProcOK, CPCs
  <2> QED
    BY <1>0, <1>1, <1>2, <2>1, <2>2, <2>3, ProcTypes
<1>7. WriterInv' /\ SlotInv'
  BY <1>1 DEF WriterInv, SlotInv, Mine, writerVars, Scanning, Holding
<1>8. ProcessInv'
  <2>1. \A i \in 1 .. Len(ch') : content[ch'[i]] \in Entry
    BY <1>0, <1>2 DEF ProcessInv
  <2> QED
    BY <1>0, <1>1, <1>2, <1>4, <2>1 DEF ProcessInv, Mine, HasFirst, HasNext
<1>9. Batches'
  <2>1. CASE RecvFirst
    BY <1>0, <2>1 DEF RecvFirst, Batches
  <2>2. CASE RecvNext
    <3>1. /\ BufLen(first)' = BufLen(first) /\ BufLen(next)' = BufLen(b)
          /\ BufLen(b) \in Nat /\ BufLen(first) \in Nat /\ used \in Nat
          /\ used' = used /\ used <= TempSize
      <4>1. first' = first /\ next' = b /\ used' = used /\ content' = content
        BY <2>2 DEF RecvNext
      <4>2. BufLen(b) \in Nat /\ BufLen(first) \in Nat
        BY <1>0, <1>2, LenType DEF ProcOK
      <4> QED
        BY <1>0, <4>1, <4>2 DEF BufLen, ProcOK, Batches
    <3>2. cpc' \in {"copyFirst", "copyNext"} => Fits(b)'
      BY <2>2 DEF RecvNext, Fits, BufLen
    <3>3. /\ cpc' = "copyFirst" => BufLen(first) + BufLen(b) <= TempSize
          /\ cpc' = "copyNext" => used + BufLen(b) <= TempSize
      <4>1. Fits(b)' => Fits(b)
        BY <2>2 DEF RecvNext, Fits, BufLen
      <4> QED
        BY <1>1, <2>2, <3>1, <3>2, <4>1 DEF Fits, RecvNext
    <3> QED
      BY <1>1, <3>1, <3>3 DEF Batches
  <2> QED
    BY <2>1, <2>2
<1>10. \A a \in Buffers : Shared(a)' => Shared(a) /\ a # b
  BY <1>1, <1>2, <1>3 DEF Shared, Mine, writerVars
<1>11. GivenInv'
  BY <1>0, <1>1, <1>4, <1>10 DEF GivenInv, Given, Scanning, Mine, writerVars
<1>12. Exclusive'
  <2>1. /\ \A i, j \in 1 .. Len(ch') : ch'[i] = ch'[j] => i = j
        /\ \A i \in 1 .. Slots, j \in 1 .. Len(ch') : slot[i] # ch'[j]
        /\ \A w \in Writers, j \in 1 .. Len(ch') : held[w] # ch'[j]
    <3>1. ASSUME NEW i \in 1 .. Len(ch'), NEW j \in 1 .. Len(ch'), ch'[i] = ch'[j]
          PROVE  i = j
      <4>1. i + 1 = j + 1
        BY <1>0, <1>2, <3>1 DEF Exclusive
      <4> QED
        BY <4>1
    <3>2. ASSUME NEW j \in 1 .. Len(ch')
          PROVE  /\ \A i \in 1 .. Slots : slot[i] # ch'[j]
                 /\ \A w \in Writers : held[w] # ch'[j]
      BY <1>0, <1>2 DEF Exclusive
    <3> QED
      BY <3>1, <3>2
  <2>2. /\ first' # NoBuf /\ cpc' # "reportFirst" => ~Shared(first)' /\ first' # next'
        /\ next' # NoBuf /\ cpc' # "reportNext" => ~Shared(next)'
    <3>1. \A a \in Buffers : ~Shared(a) => ~Shared(a)'
      BY <1>10
    <3>2. ~Shared(b)'
      BY <1>2, <1>10
    <3>3. CASE cpc = "recv"
      BY <1>0, <1>1, <1>2, <1>5, <3>1, <3>2, <3>3 DEF ProcessInv
    <3>4. CASE cpc = "gather"
      BY <1>0, <1>1, <1>2, <1>5, <3>1, <3>2, <3>4 DEF Exclusive, ProcOK
    <3> QED
      BY <1>1, <3>3, <3>4
  <2> QED
    BY <1>0, <1>1, <2>1, <2>2 DEF Exclusive, Mine, writerVars
<1> QED
  BY <1>6, <1>7, <1>8, <1>9, <1>11, <1>12

LEMMA RecvInv == Inv /\ (RecvFirst \/ RecvNext) => Inv'
BY RecvHead

(* process gives the buffer b, and what it does with it next is up to the  *)
(* caller.                                                                 *)
Stores(b) ==
  /\ slot[pi] = NoBuf /\ capacity[b] = DefaultSize
  /\ slot' = [slot EXCEPT ![pi] = b]

LEMMA PutInv ==
  ASSUME Inv, NEW b \in Buffers, ~Shared(b), UNCHANGED <<Mine, ch>>, Given(b),
         Stores(b) \/ slot' = slot, ProcOK', OutOK', Batches',
         /\ first' \in {first, NoBuf} /\ next' \in {next, NoBuf}
         /\ HasFirst' => first' # NoBuf
         /\ HasNext' => next' # NoBuf,
         cpc' \in {"recv", "copyNext", "putNext", "writeTemp", "writeNext", "freeNext",
                   "reportNext"} => first' = NoBuf,
         cpc' \in {"recv", "gather"} => next' = NoBuf,
         cpc' = "recv" => used' = 0,
         used' = 0 \/ first' = NoBuf \/ cpc' = "putFirst",
         /\ slot' # slot /\ first' = b => cpc' = "reportFirst"
         /\ slot' # slot /\ next' = b => cpc' = "reportNext",
         cpc \notin {"reportFirst", "reportNext"}
  PROVE  Inv'
<1> USE DEF Inv
<1>0. /\ TypeOK /\ ProcOK /\ ProcessInv /\ GivenInv /\ Exclusive
      /\ CacheOK /\ ch \in Seq(Buffers) /\ Len(ch) <= ChanCap /\ b # NoBuf
  BY ProcTypes, WriterTypes, BufferNames DEF TypeOK
<1>1. /\ slot' \in [1 .. Slots -> Buffers \cup {NoBuf}]
      /\ \A i \in 1 .. Slots : \/ slot'[i] = slot[i]
                               \/ i = pi /\ slot' # slot /\ slot'[i] = b /\ Stores(b)
  BY <1>0 DEF Stores, CacheOK, ProcOK
<1>2. TypeOK'
  <2>1. CacheOK'
    BY <1>0, <1>1 DEF CacheOK, Mine
  <2> QED
    BY <1>0, <2>1, ProcTypes
<1>3. WriterInv' /\ SlotInv'
  BY <1>1 DEF WriterInv, SlotInv, Mine, writerVars, Scanning, Holding, Stores
<1>4. ProcessInv'
  BY <1>0 DEF ProcessInv, Mine, HasFirst, HasNext
<1>5. \A a \in Buffers : Shared(a)' => Shared(a) \/ (a = b /\ slot' # slot)
  BY <1>1 DEF Shared, Mine, writerVars
<1>6. GivenInv'
  BY <1>0, <1>5, BufferNames DEF GivenInv, Given, Scanning, Mine, writerVars
<1>7. Exclusive'
  <2>1. /\ \A i \in 1 .. Slots : slot[i] # b
        /\ \A w \in Writers : held[w] # b
        /\ \A i \in 1 .. Len(ch) : ch[i] # b
    BY DEF Shared
  <2>2. \A i, j \in 1 .. Slots : slot'[i] = slot'[j] => i = j \/ slot'[i] = NoBuf
    BY <1>0, <1>1, <2>1 DEF Exclusive
  <2>3. \A i \in 1 .. Slots, w \in Writers : slot'[i] = held[w] => slot'[i] = NoBuf
    BY <1>0, <1>1, <2>1 DEF Exclusive
  <2>4. \A i \in 1 .. Slots, j \in 1 .. Len(ch) : slot'[i] # ch[j]
    BY <1>0, <1>1, <2>1 DEF Exclusive
  <2>5. /\ first' # NoBuf /\ cpc' # "reportFirst" => ~Shared(first)' /\ first' # next'
        /\ next' # NoBuf /\ cpc' # "reportNext" => ~Shared(next)'
    BY <1>0, <1>5 DEF Exclusive, ProcOK
  <2> QED
    BY <1>0, <2>2, <2>3, <2>4, <2>5 DEF Exclusive, Mine, writerVars
<1> QED
  BY <1>2, <1>3, <1>4, <1>6, <1>7

(* One step of PutBuffer: on to the next slot, or done. *)
LEMMA PutBufferMoves ==
  ASSUME ProcOK, NEW b, NEW done \in BOOLEAN, PutBuffer(b, done)
  PROVE  /\ pi' \in 1 .. Slots
         /\ \/ done /\ (Stores(b) \/ slot' = slot)
            \/ UNCHANGED <<slot, cpc, batchVars>>
BY DEF PutBuffer, ProcOK, Stores

LEMMA GiveBackInv ==
  ASSUME Inv, PutFirst \/ PutNext \/ FreeFirst \/ FreeNext
  PROVE  Inv'
<1> USE DEF Inv, batchVars, histVars
<1>0. TypeOK /\ ProcOK /\ OutOK /\ ProcessInv /\ Batches /\ GivenInv /\ Exclusive
  BY ProcTypes
<1>1. UNCHANGED <<Mine, ch, failed, settled, written>>
  BY DEF PutFirst, PutNext, FreeFirst, FreeNext, Mine
<1>2. OutOK'
  BY <1>0, <1>1 DEF OutOK
<1>3. /\ HasFirst => first \in Buffers /\ first # NoBuf
      /\ HasNext => next \in Buffers /\ next # NoBuf
  BY <1>0 DEF ProcessInv, ProcOK
<1>4. CASE PutFirst \/ FreeFirst
  <2> DEFINE gone == PutFirst /\ cpc' = "copyNext" /\ first' = NoBuf /\ UNCHANGED <<next, temp, used>>
             kept == FreeFirst /\ cpc' = "reportFirst" /\ UNCHANGED batchVars
  <2>1. /\ pi' \in 1 .. Slots
        /\ \/ (gone \/ kept) /\ (Stores(first) \/ slot' = slot)
           \/ UNCHANGED <<slot, cpc, batchVars>>
    <3>1. CASE PutFirst
      BY <1>0, <3>1, PutBufferMoves DEF PutFirst
    <3>2. CASE FreeFirst
      BY <1>0, <3>2, PutBufferMoves DEF FreeFirst
    <3> QED
      BY <1>4, <3>1, <3>2
  <2>2. /\ cpc \in {"putFirst", "freeFirst"} /\ first \in Buffers /\ first # NoBuf
        /\ (PutFirst => cpc = "putFirst") /\ (FreeFirst => cpc = "freeFirst")
    BY <1>3, <1>4 DEF PutFirst, FreeFirst, HasFirst
  <2>3. ~Shared(first) /\ Given(first) /\ first # next
    BY <1>0, <2>2 DEF Exclusive, GivenInv
  <2>4. ProcOK'
    BY <1>0, <1>1, <2>1, <2>2 DEF ProcOK, CPCs
  <2>5. Batches'
    BY <1>0, <1>1, <2>1, <2>2 DEF Batches, BufLen, Mine
  <2>6. /\ first' \in {first, NoBuf} /\ next' = next /\ used' = used /\ temp' = temp
        /\ cpc' = "reportFirst" \/ first' = NoBuf \/ slot' = slot
    BY <2>1
  <2>7. /\ HasFirst' => first' # NoBuf
        /\ HasNext' => next' # NoBuf
        /\ cpc' \in {"recv", "copyNext", "putNext", "writeTemp", "writeNext", "freeNext",
                     "reportNext"} => first' = NoBuf
        /\ cpc' \in {"recv", "gather"} => next' = NoBuf
        /\ cpc' = "recv" => used' = 0
        /\ used' = 0 \/ first' = NoBuf \/ cpc' = "putFirst"
    BY <1>0, <1>3, <2>1, <2>2 DEF ProcessInv, HasFirst, HasNext
  <2> HIDE DEF gone, kept
  <2> QED
    BY <1>1, <1>2, <2>1, <2>2, <2>3, <2>4, <2>5, <2>6, <2>7, PutInv
<1>5. CASE PutNext \/ FreeNext
  <2> DEFINE gone == PutNext /\ cpc' = "gather" /\ next' = NoBuf /\ UNCHANGED <<first, temp, used>>
             kept == FreeNext /\ cpc' = "reportNext" /\ UNCHANGED batchVars
  <2>1. /\ pi' \in 1 .. Slots
        /\ \/ (gone \/ kept) /\ (Stores(next) \/ slot' = slot)
           \/ UNCHANGED <<slot, cpc, batchVars>>
    <3>1. CASE PutNext
      BY <1>0, <3>1, PutBufferMoves DEF PutNext
    <3>2. CASE FreeNext
      BY <1>0, <3>2, PutBufferMoves DEF FreeNext
    <3> QED
      BY <1>5, <3>1, <3>2
  <2>2. /\ cpc \in {"putNext", "freeNext"} /\ next \in Buffers /\ next # NoBuf
        /\ (PutNext => cpc = "putNext") /\ (FreeNext => cpc = "freeNext")
    BY <1>3, <1>5 DEF PutNext, FreeNext, HasNext
  <2>3. ~Shared(next) /\ Given(next) /\ first = NoBuf
    BY <1>0, <2>2 DEF Exclusive, GivenInv, ProcessInv
  <2>4. ProcOK'
    BY <1>0, <1>1, <2>1, <2>2 DEF ProcOK, CPCs
  <2>5. Batches'
    BY <1>0, <1>1, <2>1, <2>2 DEF Batches, BufLen, Mine
  <2>6. /\ next' \in {next, NoBuf} /\ first' = first /\ used' = used /\ temp' = temp
        /\ cpc' = "reportNext" \/ next' = NoBuf \/ slot' = slot
    BY <2>1
  <2>7. /\ HasFirst' => first' # NoBuf
        /\ HasNext' => next' # NoBuf
        /\ cpc' \in {"recv", "copyNext", "putNext", "writeTemp", "writeNext", "freeNext",
                     "reportNext"} => first' = NoBuf
        /\ cpc' \in {"recv", "gather"} => next' = NoBuf
        /\ cpc' = "recv" => used' = 0
        /\ used' = 0 \/ first' = NoBuf \/ cpc' = "putFirst"
    BY <1>0, <1>3, <2>1, <2>2, <2>3 DEF ProcessInv, HasFirst, HasNext
  <2> HIDE DEF gone, kept
  <2> QED
    BY <1>1, <1>2, <2>1, <2>2, <2>3, <2>4, <2>5, <2>6, <2>7, PutInv
<1> QED
  BY <1>4, <1>5

-----------------------------------------------------------------------------
LEMMA WriterStepInv ==
  ASSUME Inv, NEW w \in Writers, (\E n \in Sizes : WriteBegin(w, n)) \/ WriteStep(w)
  PROVE  Inv'
<1>1. TypeOK'
  BY WriteType
<1>2. OthersStay(w) /\ Moves(w) /\ LocalInv(w)' /\ Grows(w) /\ UNCHANGED procVars
  BY WriteMoves
<1> QED
  BY <1>1, <1>2, WriteGiven, WriteExclusive, WriteContents DEF Inv

LEMMA StepInv == Inv /\ [Next]_vars => Inv'
<1> SUFFICES ASSUME Inv, [Next]_vars PROVE Inv'
  OBVIOUS
<1>1. CASE Process
  BY <1>1, QuietInv, WriteLogInv, RecvInv, GiveBackInv DEF Process
<1>2. CASE \E w \in Writers : (\E n \in Sizes : WriteBegin(w, n)) \/ WriteStep(w)
  BY <1>2, WriterStepInv
<1>3. CASE UNCHANGED vars
  <2>1. \A b : (Shared(b)' <=> Shared(b)) /\ (Given(b)' <=> Given(b)) /\ BufLen(b)' = BufLen(b)
    BY <1>3 DEF vars, writerVars, Shared, Given, Scanning, BufLen
  <2> USE <1>3 DEF vars, writerVars, procVars, batchVars, histVars, Inv
  <2>2. TypeOK'
    BY DEF TypeOK
  <2>3. WriterInv' /\ SlotInv'
    BY DEF WriterInv, SlotInv, Scanning, Holding
  <2>4. ProcessInv'
    BY DEF ProcessInv, HasFirst, HasNext
  <2>5. Batches'
    BY <2>1 DEF Batches, BufLen
  <2>6. GivenInv' /\ Exclusive'
    BY <2>1 DEF GivenInv, Exclusive
  <2> QED
    BY <2>2, <2>3, <2>4, <2>5, <2>6
<1> QED
  BY <1>1, <1>2, <1>3 DEF Next

LEMMA Invariant == Spec => []Inv
BY InitInv, StepInv, PTL DEF Spec

-----------------------------------------------------------------------------
(* Every variable of the log proxy keeps its type. *)
THEOREM TypeCorrect == Spec => []TypeOK
<1>1. Inv => TypeOK
  BY DEF Inv
<1> QED
  BY <1>1, Invariant, PTL

(* What process copies always fits into tempBuffer. *)
THEOREM BatchesFit == Spec => []BatchFits
<1>1. Inv => BatchFits
  BY DEF Inv, Batches, BatchFits
<1> QED
  BY <1>1, Invariant, PTL

LEMMA OneOwner == ASSUME Inv, NEW b \in Buffers PROVE Cardinality(Owners(b)) <= 1
<1>0. Exclusive /\ b # NoBuf /\ cpc \in CPCs
  BY BufferNames DEF Inv, TypeOK, CPCs
<1>s. Cardinality({}) = 0 /\ \A p : Cardinality({p}) = 1
  BY FS_EmptySet, FS_Singleton
<1>1. ASSUME NEW i \in 1 .. Slots, slot[i] = b PROVE Owners(b) = {<<"slot", i>>}
  <2>1. \A j \in 1 .. Slots : slot[j] = b => j = i
    BY <1>0, <1>1 DEF Exclusive
  <2>2. ~(\E w \in Writers : held[w] = b) /\ ~(\E j \in 1 .. Len(ch) : ch[j] = b)
    BY <1>0, <1>1 DEF Exclusive
  <2>3. (first = b => cpc = "reportFirst") /\ (next = b => cpc = "reportNext")
    BY <1>0, <1>1 DEF Exclusive, Shared
  <2> QED
    BY <1>1, <2>1, <2>2, <2>3 DEF Owners
<1>2. ASSUME NEW w \in Writers, held[w] = b PROVE Owners(b) = {<<"writer", w>>}
  <2>1. \A v \in Writers : held[v] = b => v = w
    BY <1>0, <1>2 DEF Exclusive
  <2>2. ~(\E i \in 1 .. Slots : slot[i] = b) /\ ~(\E j \in 1 .. Len(ch) : ch[j] = b)
    BY <1>0, <1>2 DEF Exclusive
  <2>3. (first = b => cpc = "reportFirst") /\ (next = b => cpc = "reportNext")
    BY <1>0, <1>2 DEF Exclusive, Shared
  <2> QED
    BY <1>2, <2>1, <2>2, <2>3 DEF Owners
<1>3. ASSUME NEW j \in 1 .. Len(ch), ch[j] = b PROVE Owners(b) = {<<"ch", j>>}
  <2>1. \A k \in 1 .. Len(ch) : ch[k] = b => k = j
    BY <1>0, <1>3 DEF Exclusive
  <2>2. ~(\E i \in 1 .. Slots : slot[i] = b) /\ ~(\E w \in Writers : held[w] = b)
    BY <1>0, <1>3 DEF Exclusive
  <2>3. (first = b => cpc = "reportFirst") /\ (next = b => cpc = "reportNext")
    BY <1>0, <1>3 DEF Exclusive, Shared
  <2> QED
    BY <1>3, <2>1, <2>2, <2>3 DEF Owners
<1>4. CASE ~Shared(b)
  <2>1. Owners(b) = (IF first = b /\ cpc # "reportFirst" THEN {<<"process", 1>>} ELSE {})
                    \cup (IF next = b /\ cpc # "reportNext" THEN {<<"process", 2>>} ELSE {})
    BY <1>4 DEF Owners, Shared
  <2>2. ~(first = b /\ cpc # "reportFirst" /\ next = b)
    BY <1>0 DEF Exclusive
  <2>3. Owners(b) \in {{}, {<<"process", 1>>}, {<<"process", 2>>}}
    BY <2>1, <2>2
  <2>4. Cardinality({}) <= 1
    BY <1>s
  <2>5. \A p : Cardinality({p}) <= 1
    BY <1>s
  <2> QED
    BY <2>3, <2>4, <2>5, Zenon
<1>5. CASE Shared(b)
  <2>1. \A p : Owners(b) = {p} => Cardinality(Owners(b)) <= 1
    BY <1>s
  <2>2. CASE \E i \in 1 .. Slots : slot[i] = b
    BY <1>1, <2>1, <2>2
  <2>3. CASE \E w \in Writers : held[w] = b
    BY <1>2, <2>1, <2>3
  <2>4. CASE \E i \in 1 .. Len(ch) : ch[i] = b
    BY <1>3, <2>1, <2>4
  <2> QED
    BY <1>5, <2>2, <2>3, <2>4 DEF Shared
<1> QED
  BY <1>4, <1>5

(* No buffer is ever in two hands, although GetBuffer loads and swaps in   *)
(* two steps.                                                              *)
THEOREM BuffersAreExclusive == Spec => []ExclusiveBuffers
<1>1. Inv => ExclusiveBuffers
  BY OneOwner DEF ExclusiveBuffers
<1> QED
  BY <1>1, Invariant, PTL

-----------------------------------------------------------------------------
(* The log proxy implements LogQueue.  writeLog takes an empty tempBuffer  *)
(* for one without entries, so entries must not be empty; those of zap end *)
(* with a line end.                                                        *)
NoneEmpty == 0 \notin Sizes

(* The entries of the batch that are not settled yet, and whether nextLog  *)
(* follows them.                                                           *)
Batch ==
  IF cpc \in {"freeFirst", "reportFirst", "writeNext", "freeNext", "reportNext"} THEN <<>>
  ELSE IF first # NoBuf /\ cpc # "putFirst" THEN <<content[first]>>
  ELSE temp
NextIn == next # NoBuf /\ cpc \notin {"putNext", "freeNext", "reportNext"}
Ahead == Len(Batch) + (IF NextIn THEN 1 ELSE 0)

(* What is accepted is settled, or in the batch, or in the channel, in     *)
(* this order.                                                             *)
Queued ==
  /\ Len(accepted) = settled + Ahead + Len(ch)
  /\ \A i \in 1 .. Len(Batch) : accepted[settled + i] = Batch[i]
  /\ NextIn => accepted[settled + Len(Batch) + 1] = content[next]
  /\ \A i \in 1 .. Len(ch) : accepted[settled + Ahead + i] = content[ch[i]]

(* A Write that has not returned is neither accepted nor refused. *)
Ended(e) == e.n <= writes[e.w] /\ (e.n = writes[e.w] => wpc[e.w] = "idle")
Once ==
  \A e \in Entry : e \in refused \/ (\E i \in 1 .. Len(accepted) : accepted[i] = e) => Ended(e)

QueueInv ==
  /\ used = 0 <=> temp = <<>>
  /\ cpc # "hung" => Queued
  /\ Once

Reached == <<accepted, refused, settled, written>>

LEMMA InitQueue == Init => QueueInv /\ Q!Init
BY DEF Init, QueueInv, Queued, Once, Ended, Batch, NextIn, Ahead, Q!Init

LEMMA QueueTypes ==
  TypeOK => /\ Len(ch) \in Nat /\ Len(accepted) \in Nat /\ settled \in Nat /\ Len(Batch) \in Nat
            /\ Ahead \in Nat
            /\ accepted \in Seq(Entry) /\ ch \in Seq(Buffers)
<1> SUFFICES ASSUME TypeOK
             PROVE  Len(Batch) \in Nat /\ Ahead \in Nat
  BY DEF TypeOK
<1>1. temp \in Seq(Entry)
  BY DEF TypeOK
<1>2. Batch \in {<<>>, <<content[first]>>, temp}
  BY DEF Batch
<1>3. Len(Batch) \in Nat
  BY <1>1, <1>2
<1> QED
  BY <1>3 DEF Ahead

-----------------------------------------------------------------------------
(* Steps of Write. *)
LEMMA ContentsStay ==
  ASSUME Inv, NEW w \in Writers, OthersStay(w), Moves(w), UNCHANGED procVars
  PROVE  /\ first # NoBuf /\ cpc # "reportFirst" => content'[first] = content[first]
         /\ next # NoBuf /\ cpc # "reportNext" => content'[next] = content[next]
         /\ \A i \in 1 .. Len(ch) : content'[ch[i]] = content[ch[i]]
<1>0. /\ TypeOK /\ Exclusive /\ GivenInv /\ content \in [Buffers -> Entry \cup {NoEntry}]
      /\ ch \in Seq(Buffers)
  BY DEF Inv, TypeOK
<1>1. \A b \in Buffers : b # held[w] => content'[b] = content[b]
  BY <1>0 DEF Moves, Scans, Fills, Sends, Waits, GivesUp, Gets, Takes
<1>2. /\ first # NoBuf /\ cpc # "reportFirst" => first # held[w] /\ first \in Buffers
      /\ next # NoBuf /\ cpc # "reportNext" => next # held[w] /\ next \in Buffers
  BY <1>0 DEF Exclusive, Shared, TypeOK
<1>3. \A i \in 1 .. Len(ch) : ch[i] # held[w] /\ ch[i] \in Buffers
  BY <1>0 DEF Exclusive
<1> QED
  BY <1>1, <1>2, <1>3

LEMMA BatchStays ==
  ASSUME Inv, NEW w \in Writers, OthersStay(w), Moves(w), UNCHANGED procVars
  PROVE  /\ Batch' = Batch /\ NextIn' = NextIn /\ Ahead' = Ahead
         /\ NextIn => content'[next'] = content[next]
<1>1. UNCHANGED <<first, next, cpc, temp>>
  BY DEF procVars, batchVars
<1>2. Batch' = Batch /\ NextIn' = NextIn
  BY <1>1, ContentsStay DEF Batch, NextIn
<1> QED
  BY <1>1, <1>2, ContentsStay DEF Ahead, NextIn

(* A Write that has ended stays so while its goroutine does another. *)
LEMMA EndedStays ==
  ASSUME Inv, TypeOK', NEW w \in Writers, OthersStay(w), Grows(w),
         wpc[w] = "idle" => writes'[w] # writes[w],
         NEW e \in Entry, Ended(e)
  PROVE  Ended(e)'
<1> DEFINE v == e.w
<1>1. v \in Writers /\ e.n \in Nat
  BY EntryNames
<1>2. e.n <= writes[v] /\ (e.n = writes[v] => wpc[v] = "idle")
  BY DEF Ended
<1>3. \A u \in Writers : writes[u] \in Nat /\ writes'[u] \in Nat
  BY DEF Inv, TypeOK
<1> HIDE DEF v
<1>4. CASE v # w
  BY <1>1, <1>2, <1>4 DEF OthersStay, Ended, v
<1>5. CASE v = w
  <2>1. writes[w] <= writes'[w]
    BY DEF Grows
  <2>2. e.n <= writes'[w] /\ (e.n = writes'[w] => writes[w] = writes'[w] /\ wpc[w] = "idle")
    BY <1>1, <1>2, <1>3, <1>5, <2>1
  <2> QED
    BY <1>5, <2>2 DEF Ended, v
<1> QED
  BY <1>4, <1>5

(* A step of Write that neither sends nor gives up is none of the queue's. *)
LEMMA WriteStutters ==
  ASSUME Inv, QueueInv, NEW w \in Writers, TypeOK',
         OthersStay(w), Moves(w), Grows(w), UNCHANGED <<procVars, ch, Reached>>,
         wpc[w] = "idle" => writes'[w] # writes[w]
  PROVE  QueueInv'
<1>1. UNCHANGED <<cpc, temp, used, accepted, refused, settled>>
  BY DEF procVars, batchVars, Reached
<1>2. Once'
  <2>1. \A e \in Entry : Ended(e) => Ended(e)'
    BY EndedStays
  <2> QED
    BY <1>1, <2>1 DEF Once, QueueInv
<1>3. Queued => Queued'
  BY <1>1, BatchStays, ContentsStay DEF Queued
<1> QED
  BY <1>1, <1>2, <1>3 DEF QueueInv

(* Before a Write sends or gives up, the queue has not seen its entry. *)
LEMMA EntryIsNew ==
  ASSUME Inv, QueueInv, NEW w \in Writers, wpc[w] \in {"try", "wait"}, NEW e, e = entry[w]
  PROVE  /\ e \in Entry /\ e.w = w /\ e.n = writes[w] /\ content[held[w]] = e
         /\ held[w] \in Buffers
         /\ e \notin refused /\ ~(\E i \in 1 .. Len(accepted) : accepted[i] = e)
<1>1. /\ e \in Entry /\ e.w = w /\ e.n = writes[w] /\ content[held[w]] = e
      /\ held[w] \in Buffers
  BY DEF Inv, WriterInv, Holding, TypeOK
<1>2. ~Ended(e)
  BY <1>1 DEF Ended
<1> QED
  BY <1>1, <1>2 DEF QueueInv, Once

(* Its goroutine returns, and every Write that had ended still has. *)
LEMMA ReturnEnds ==
  ASSUME Inv, NEW w \in Writers, wpc[w] \in {"try", "wait"}, OthersStay(w), TypeOK', Grows(w),
         writes' = writes, wpc'[w] = "idle", NEW e \in Entry, Ended(e) \/ e = entry[w]
  PROVE  Ended(e)'
<1>1. CASE Ended(e)
  BY <1>1, EndedStays
<1>2. CASE e = entry[w]
  <2>1. e.w = w /\ e.n = writes[w]
    BY <1>2 DEF Inv, WriterInv
  <2>2. writes'[e.w] = e.n /\ wpc'[e.w] = "idle" /\ e.n \in Nat
    BY <2>1, EntryNames
  <2> QED
    BY <2>2 DEF Ended
<1> QED
  BY <1>1, <1>2

LEMMA SendQueue ==
  ASSUME Inv, QueueInv, NEW w \in Writers, TypeOK',
         OthersStay(w), Moves(w), Grows(w), UNCHANGED procVars, Send(w)
  PROVE  QueueInv' /\ Q!Next
<1> DEFINE e == entry[w]
<1>1. /\ wpc[w] \in {"try", "wait"} /\ ch' = Append(ch, held[w])
      /\ accepted' = Append(accepted, e)
      /\ UNCHANGED <<content, refused, settled, written, writes>>
      /\ wpc'[w] = "idle"
  BY DEF Send, Return, Goto, Inv, TypeOK
<1>2. /\ e \in Entry /\ content[held[w]] = e /\ held[w] \in Buffers
      /\ e \notin refused /\ ~(\E i \in 1 .. Len(accepted) : accepted[i] = e)
  BY <1>1, EntryIsNew
<1>3. \A d \in Entry : Ended(d) \/ d = e => Ended(d)'
  BY <1>1, ReturnEnds
<1> HIDE DEF e
<1>4. TypeOK /\ accepted \in Seq(Entry) /\ ch \in Seq(Buffers)
  BY DEF Inv, TypeOK
<1>5. /\ Len(accepted') = Len(accepted) + 1 /\ accepted'[Len(accepted) + 1] = e
      /\ \A i \in 1 .. Len(accepted) : accepted'[i] = accepted[i]
      /\ Len(ch') = Len(ch) + 1 /\ ch'[Len(ch) + 1] = held[w]
      /\ \A i \in 1 .. Len(ch) : ch'[i] = ch[i]
      /\ Len(ch) \in Nat /\ Len(accepted) \in Nat
  BY <1>1, <1>2, <1>4
<1>6. Q!Next
  BY <1>1, <1>2 DEF Q!Next, Q!Accept, Q!Accepted
<1>7. Once'
  <2> SUFFICES ASSUME NEW d \in Entry,
                      d \in refused \/ (\E i \in 1 .. Len(accepted') : accepted'[i] = d)
               PROVE  Ended(d)'
    BY <1>1 DEF Once
  <2>1. d \in refused \/ d = e \/ (\E i \in 1 .. Len(accepted) : accepted[i] = d)
    BY <1>5
  <2> QED
    BY <1>3, <2>1 DEF QueueInv, Once
<1>8. Queued => Queued'
  <2> SUFFICES ASSUME Queued PROVE Queued'
    OBVIOUS
  <2>1. /\ Batch' = Batch /\ NextIn' = NextIn /\ Ahead' = Ahead
        /\ NextIn => content[next'] = content[next]
    BY <1>1, BatchStays
  <2>2. /\ Ahead \in Nat /\ Len(Batch) \in Nat /\ settled \in Nat /\ Len(Batch) <= Ahead
        /\ NextIn => Len(Batch) + 1 <= Ahead
        /\ Len(accepted) = settled + Ahead + Len(ch)
    BY <1>4, QueueTypes DEF Ahead, Queued
  <2>3. \A i \in 1 .. Len(Batch) : accepted'[settled + i] = Batch[i]
    <3> SUFFICES ASSUME NEW i \in 1 .. Len(Batch) PROVE accepted'[settled + i] = Batch[i]
      OBVIOUS
    <3>1. settled + i \in 1 .. Len(accepted)
      BY <1>5, <2>2
    <3> QED
      BY <1>5, <3>1 DEF Queued
  <2>4. NextIn => accepted'[settled + Len(Batch) + 1] = content[next]
    <3>1. NextIn => settled + Len(Batch) + 1 \in 1 .. Len(accepted)
      BY <1>5, <2>2
    <3> QED
      BY <1>5, <3>1 DEF Queued
  <2>5. \A i \in 1 .. Len(ch') : accepted'[settled + Ahead + i] = content[ch'[i]]
    <3> SUFFICES ASSUME NEW i \in 1 .. Len(ch')
                 PROVE  accepted'[settled + Ahead + i] = content[ch'[i]]
      OBVIOUS
    <3>1. CASE i = Len(ch) + 1
      BY <1>2, <1>5, <2>2, <3>1
    <3>2. CASE i # Len(ch) + 1
      <4>1. i \in 1 .. Len(ch) /\ settled + Ahead + i \in 1 .. Len(accepted)
        BY <1>5, <2>2, <3>2
      <4> QED
        BY <1>5, <4>1 DEF Queued
    <3> QED
      BY <3>1, <3>2
  <2>6. Len(accepted') = settled + Ahead + Len(ch')
    BY <1>5, <2>2
  <2> QED
    BY <1>1, <2>1, <2>3, <2>4, <2>5, <2>6 DEF Queued
<1> QED
  BY <1>6, <1>7, <1>8 DEF QueueInv, procVars, batchVars

LEMMA TimeoutQueue ==
  ASSUME Inv, QueueInv, NEW w \in Writers, TypeOK',
         OthersStay(w), Moves(w), Grows(w), UNCHANGED procVars, WriteTimeout(w)
  PROVE  QueueInv' /\ Q!Next
<1> DEFINE e == entry[w]
<1>1. /\ wpc[w] = "wait" /\ refused' = refused \cup {e}
      /\ UNCHANGED <<ch, content, accepted, settled, written, writes>>
      /\ wpc'[w] = "idle"
  BY DEF WriteTimeout, Return, Goto, Inv, TypeOK
<1>2. /\ e \in Entry /\ e \notin refused
      /\ ~(\E i \in 1 .. Len(accepted) : accepted[i] = e)
  BY <1>1, EntryIsNew
<1>3. \A d \in Entry : Ended(d) \/ d = e => Ended(d)'
  BY <1>1, ReturnEnds
<1> HIDE DEF e
<1>4. Q!Next
  BY <1>1, <1>2 DEF Q!Next, Q!Refuse, Q!Accepted
<1>5. Once'
  BY <1>1, <1>3 DEF QueueInv, Once
<1>6. Queued => Queued'
  BY <1>1, BatchStays DEF Queued
<1> QED
  BY <1>4, <1>5, <1>6 DEF QueueInv, procVars, batchVars

LEMMA WriteQueue ==
  ASSUME Inv, QueueInv, NEW w \in Writers,
         (\E n \in Sizes : WriteBegin(w, n)) \/ WriteStep(w)
  PROVE  QueueInv' /\ [Q!Next]_Reached
<1>0. TypeOK /\ TypeOK' /\ OthersStay(w) /\ Moves(w) /\ Grows(w) /\ UNCHANGED procVars
  <2>1. TypeOK'
    BY WriteType DEF Inv
  <2> QED
    BY <2>1, WriteMoves DEF Inv
<1>1. \/ /\ UNCHANGED <<ch, Reached>>
         /\ wpc[w] = "idle" => writes'[w] # writes[w]
      \/ Send(w)
      \/ WriteTimeout(w)
  <2>1. ASSUME NEW n \in Sizes, WriteBegin(w, n)
        PROVE  UNCHANGED <<ch, Reached>> /\ writes'[w] # writes[w]
    <3>1. writes'[w] = writes[w] + 1 /\ writes[w] \in Nat
      BY <1>0, <2>1 DEF WriteBegin, TypeOK
    <3> QED
      BY <2>1, <3>1 DEF WriteBegin, Reached, histVars
  <2>2. CASE LoadSlot(w) \/ SwapSlot(w) \/ CopyIn(w) \/ WaitForRoom(w)
    BY <2>2 DEF LoadSlot, SwapSlot, CopyIn, WaitForRoom, Reached, histVars
  <2> QED
    BY <2>1, <2>2 DEF WriteStep
<1>2. CASE /\ UNCHANGED <<ch, Reached>>
           /\ wpc[w] = "idle" => writes'[w] # writes[w]
  BY <1>0, <1>2, WriteStutters
<1>3. CASE Send(w)
  BY <1>0, <1>3, SendQueue
<1>4. CASE WriteTimeout(w)
  BY <1>0, <1>4, TimeoutQueue
<1> QED
  BY <1>1, <1>2, <1>3, <1>4

-----------------------------------------------------------------------------
(* Steps of process. *)
ProcFacts ==
  /\ TypeOK /\ ProcOK /\ OutOK /\ ProcessInv
  /\ used = 0 <=> temp = <<>>
  /\ temp \in Seq(Entry) /\ ch \in Seq(Buffers) /\ accepted \in Seq(Entry)
  /\ first # NoBuf => first \in Buffers
  /\ next # NoBuf => next \in Buffers

LEMMA GetProcFacts == Inv /\ QueueInv => ProcFacts
BY ProcTypes DEF ProcFacts, Inv, QueueInv, ProcOK, TypeOK

(* Nothing leaves, and the line of entries stays the same. *)
LEMMA LineStays ==
  ASSUME Queued, UNCHANGED <<content, ch, accepted, settled>>,
         Batch' = Batch, NextIn' = NextIn, NextIn => next' = next
  PROVE  Queued'
BY DEF Queued, Ahead

(* The batch leaves, and k is 1 when what follows it leaves with it. *)
LEMMA LineMoves ==
  ASSUME TypeOK, Queued, UNCHANGED <<content, ch, accepted>>,
         Batch' = <<>>,
         \/ settled' = settled + Len(Batch) /\ NextIn' = NextIn /\ next' = next
         \/ settled' = settled + Ahead /\ ~NextIn'
  PROVE  /\ Queued'
         /\ settled' > settled => settled' \in settled + 1 .. Len(accepted)
<1>1. /\ Ahead \in Nat /\ Len(Batch) \in Nat /\ settled \in Nat /\ Len(ch) \in Nat
      /\ Len(accepted) = settled + Ahead + Len(ch)
      /\ Ahead = Len(Batch) + (IF NextIn THEN 1 ELSE 0)
  BY QueueTypes DEF Queued, Ahead
<1>2. Len(Batch') = 0 /\ Ahead' = (IF NextIn' THEN 1 ELSE 0)
  BY DEF Ahead
<1>3. settled' + Ahead' = settled + Ahead /\ settled' \in Nat
  BY <1>1, <1>2
<1>4. \A i \in 1 .. Len(ch) : accepted[settled' + Ahead' + i] = content[ch[i]]
  BY <1>3 DEF Queued
<1>5. NextIn' => accepted[settled' + 0 + 1] = content[next]
  <2>1. NextIn' => settled' = settled + Len(Batch) /\ NextIn
    BY <1>1
  <2>2. NextIn' => settled' + 0 + 1 = settled + Len(Batch) + 1
    BY <1>1, <2>1
  <2> QED
    BY <2>1, <2>2 DEF Queued
<1>6. Len(accepted) = settled' + Ahead' + Len(ch)
  BY <1>1, <1>3
<1>7. Queued'
  BY <1>2, <1>4, <1>5, <1>6 DEF Queued
<1>8. settled' <= Len(accepted)
  BY <1>1, <1>2, <1>6, <1>3
<1> QED
  BY <1>1, <1>3, <1>7, <1>8

(* The head of the channel joins the batch, which was empty, or follows it. *)
LEMMA LinePulls ==
  ASSUME TypeOK, Queued, ch # <<>>, ch' = Tail(ch), UNCHANGED <<content, accepted, settled>>,
         ~NextIn,
         \/ Batch = <<>> /\ Batch' = <<content[Head(ch)]>> /\ ~NextIn'
         \/ Batch' = Batch /\ NextIn' /\ next' = Head(ch)
  PROVE  Queued'
<1>1. /\ Len(Batch) \in Nat /\ settled \in Nat /\ Len(ch) \in Nat /\ ch \in Seq(Buffers)
      /\ Len(accepted) = settled + Ahead + Len(ch) /\ Ahead = Len(Batch)
  BY QueueTypes DEF Queued, Ahead
<1>2. /\ Len(ch') = Len(ch) - 1 /\ Head(ch) = ch[1] /\ Len(ch) >= 1
      /\ \A i \in 1 .. Len(ch') : ch'[i] = ch[i + 1] /\ i + 1 \in 1 .. Len(ch)
  BY <1>1
<1>3. accepted[settled + Ahead + 1] = content[Head(ch)]
  BY <1>1, <1>2 DEF Queued
<1>4. Ahead' = Ahead + 1
  <2>1. CASE Batch = <<>> /\ Batch' = <<content[Head(ch)]>> /\ ~NextIn'
    <3>1. Len(Batch) = 0 /\ Len(Batch') = 1
      BY <2>1
    <3> QED
      BY <1>1, <2>1, <3>1 DEF Ahead
  <2>2. CASE Batch' = Batch /\ NextIn' /\ next' = Head(ch)
    BY <1>1, <2>2 DEF Ahead
  <2> QED
    BY <2>1, <2>2
<1>5. \A i \in 1 .. Len(ch') : accepted[settled + Ahead' + i] = content[ch'[i]]
  <2> SUFFICES ASSUME NEW i \in 1 .. Len(ch')
               PROVE  accepted[settled + Ahead' + i] = content[ch'[i]]
    OBVIOUS
  <2>1. settled + Ahead' + i = settled + Ahead + (i + 1)
    BY <1>1, <1>4
  <2>2. accepted[settled + Ahead + (i + 1)] = content[ch[i + 1]]
    BY <1>2 DEF Queued
  <2> QED
    BY <1>2, <2>1, <2>2
<1>6. \A i \in 1 .. Len(Batch') : accepted[settled + i] = Batch'[i]
  <2>1. CASE Batch = <<>> /\ Batch' = <<content[Head(ch)]>>
    <3>1. Ahead = 0 /\ Len(Batch') = 1 /\ Batch'[1] = content[Head(ch)]
      BY <1>1, <2>1
    <3> QED
      BY <1>1, <1>3, <3>1
  <2>2. CASE Batch' = Batch
    BY <2>2 DEF Queued
  <2> QED
    BY <2>1, <2>2
<1>7. NextIn' => accepted[settled + Len(Batch') + 1] = content[next']
  BY <1>1, <1>3
<1>8. Len(accepted) = settled + Ahead' + Len(ch')
  BY <1>1, <1>2, <1>4
<1> QED
  BY <1>5, <1>6, <1>7, <1>8 DEF Queued

(* What follows the batch joins it. *)
LEMMA LinePacks ==
  ASSUME TypeOK, Queued, UNCHANGED <<content, ch, accepted, settled>>,
         Batch \in Seq(Entry), next \in Buffers, NextIn, ~NextIn',
         Batch' = Append(Batch, content[next])
  PROVE  Queued'
<1>1. /\ Len(Batch) \in Nat /\ settled \in Nat /\ Ahead = Len(Batch) + 1
      /\ Len(Batch') = Len(Batch) + 1 /\ Ahead' = Ahead
  BY QueueTypes DEF Ahead
<1>2. /\ \A i \in 1 .. Len(Batch) : Batch'[i] = Batch[i]
      /\ Batch'[Len(Batch) + 1] = content[next]
  OBVIOUS
<1>3. \A i \in 1 .. Len(Batch') : accepted[settled + i] = Batch'[i]
  <2> SUFFICES ASSUME NEW i \in 1 .. Len(Batch') PROVE accepted[settled + i] = Batch'[i]
    OBVIOUS
  <2>1. CASE i \in 1 .. Len(Batch)
    BY <1>2, <2>1 DEF Queued
  <2>2. CASE i = Len(Batch) + 1
    <3>1. settled + i = settled + Len(Batch) + 1
      BY <1>1, <2>2
    <3> QED
      BY <1>2, <2>2, <3>1 DEF Queued
  <2> QED
    BY <1>1, <2>1, <2>2
<1> QED
  BY <1>1, <1>3 DEF Queued

LEMMA GatherQueue ==
  ASSUME Inv, QueueInv, NoneEmpty,
         RecvFirst \/ RecvNext \/ NoNext \/ CopyFirst \/ CopyNext
  PROVE  QueueInv' /\ UNCHANGED Reached
<1>0. ProcFacts /\ Queued /\ Once
  <2>1. cpc # "hung"
    BY DEF RecvFirst, RecvNext, NoNext, CopyFirst, CopyNext
  <2> QED
    BY <2>1, GetProcFacts DEF QueueInv
<1>1. UNCHANGED <<content, accepted, refused, settled, written, writes, wpc>>
  BY DEF RecvFirst, RecvNext, NoNext, CopyFirst, CopyNext, CopyOut, histVars, writerVars
<1>2. Once'
  BY <1>0, <1>1 DEF Once, Ended
<1>3. Queued' /\ (used' = 0 <=> temp' = <<>>)
  <2>1. CASE RecvFirst
    <3>1. /\ first = NoBuf /\ next = NoBuf /\ temp = <<>> /\ cpc = "recv" /\ cpc' = "gather"
          /\ first' = Head(ch) /\ Head(ch) # NoBuf /\ UNCHANGED <<next, temp, used>>
      <4>1. Head(ch) \in Buffers
        BY <1>0, <2>1 DEF RecvFirst, ProcFacts
      <4> QED
        BY <1>0, <2>1, <4>1, BufferNames DEF RecvFirst, ProcFacts, ProcessInv
    <3>2. /\ Batch = <<>> /\ Batch' = <<content[Head(ch)]>> /\ ~NextIn /\ ~NextIn'
      BY <1>1, <3>1 DEF Batch, NextIn
    <3>3. ch # <<>> /\ ch' = Tail(ch)
      BY <2>1 DEF RecvFirst
    <3>4. Queued'
      BY <1>0, <1>1, <3>2, <3>3, LinePulls DEF ProcFacts
    <3> QED
      BY <1>0, <3>1, <3>4 DEF ProcFacts
  <2>2. CASE RecvNext
    <3>1. /\ next = NoBuf /\ cpc = "gather" /\ cpc' \in {"writeFirst", "copyFirst", "copyNext"}
          /\ next' = Head(ch) /\ Head(ch) # NoBuf /\ UNCHANGED <<first, temp, used>>
      <4>1. Head(ch) \in Buffers
        BY <1>0, <2>2 DEF RecvNext, ProcFacts
      <4> QED
        BY <1>0, <2>2, <4>1, BufferNames DEF RecvNext, ProcFacts, ProcessInv
    <3>2. Batch' = Batch /\ ~NextIn /\ NextIn'
      BY <1>1, <3>1 DEF Batch, NextIn
    <3>3. ch # <<>> /\ ch' = Tail(ch)
      BY <2>2 DEF RecvNext
    <3>4. Queued'
      BY <1>0, <1>1, <3>1, <3>2, <3>3, LinePulls DEF ProcFacts
    <3> QED
      BY <1>0, <3>1, <3>4 DEF ProcFacts
  <2>3. CASE NoNext
    <3>1. cpc = "gather" /\ cpc' = "writeFirst" /\ UNCHANGED <<first, next, temp, used, ch>>
      BY <2>3 DEF NoNext, batchVars
    <3>2. Batch' = Batch /\ NextIn' = NextIn
      BY <1>1, <3>1 DEF Batch, NextIn
    <3> QED
      BY <1>0, <1>1, <3>1, <3>2, LineStays DEF ProcFacts
  <2>4. CASE CopyFirst
    <3>1. /\ cpc = "copyFirst" /\ cpc' = "putFirst" /\ temp' = Append(temp, content[first])
          /\ used' = used + BufLen(first) /\ UNCHANGED <<first, next, ch>>
      BY <2>4 DEF CopyFirst, CopyOut
    <3>2. first # NoBuf /\ next # NoBuf /\ used = 0 /\ temp = <<>> /\ content[first] \in Entry
      BY <1>0, <3>1 DEF ProcFacts, ProcessInv, HasFirst, HasNext
    <3>3. temp' = <<content[first]>>
      BY <3>1, <3>2
    <3>4. Batch' = Batch /\ NextIn' = NextIn
      BY <1>1, <3>1, <3>2, <3>3 DEF Batch, NextIn
    <3>5. used' # 0
      BY <3>1, <3>2, EntryNames DEF BufLen, NoneEmpty, Entry
    <3>6. temp' # <<>>
      BY <3>3
    <3> QED
      BY <1>0, <1>1, <3>1, <3>4, <3>5, <3>6, LineStays
  <2>5. CASE CopyNext
    <3>1. /\ cpc = "copyNext" /\ cpc' = "putNext" /\ temp' = Append(temp, content[next])
          /\ used' = used + BufLen(next) /\ UNCHANGED <<first, next, ch>>
      BY <2>5 DEF CopyNext, CopyOut
    <3>2. first = NoBuf /\ next # NoBuf /\ content[next] \in Entry /\ used \in Nat
          /\ temp \in Seq(Entry) /\ next \in Buffers
      BY <1>0, <3>1 DEF ProcFacts, ProcessInv, HasNext, ProcOK
    <3>3. Batch = temp /\ Batch' = temp' /\ NextIn /\ ~NextIn'
      BY <3>1, <3>2 DEF Batch, NextIn
    <3>4. Queued'
      BY <1>0, <1>1, <3>1, <3>2, <3>3, LinePacks DEF ProcFacts
    <3>5. used' # 0
      <4>1. BufLen(next) \in Nat /\ BufLen(next) # 0
        BY <3>2, EntryNames DEF BufLen, NoneEmpty, Entry
      <4> QED
        BY <3>1, <3>2, <4>1
    <3>6. temp' # <<>>
      BY <3>1, <3>2
    <3> QED
      BY <3>4, <3>5, <3>6
  <2> QED
    BY <2>1, <2>2, <2>3, <2>4, <2>5
<1> QED
  BY <1>1, <1>2, <1>3 DEF QueueInv, Reached

LEMMA PutQueue ==
  ASSUME Inv, QueueInv,
         PutFirst \/ PutNext \/ FreeFirst \/ FreeNext \/ ReportFirst \/ ReportNext
  PROVE  QueueInv' /\ UNCHANGED Reached
<1>0. ProcFacts /\ Queued /\ Once
  <2>1. cpc # "hung"
    BY DEF PutFirst, PutNext, FreeFirst, FreeNext, ReportFirst, ReportNext
  <2> QED
    BY <2>1, GetProcFacts DEF QueueInv
<1>1. UNCHANGED <<content, ch, accepted, refused, settled, written, writes, wpc>>
  BY DEF PutFirst, PutNext, FreeFirst, FreeNext, ReportFirst, ReportNext, Report, histVars,
         writerVars
<1>2. Once'
  BY <1>0, <1>1 DEF Once, Ended
<1>3. /\ Batch' = Batch /\ NextIn' = NextIn /\ (NextIn => next' = next)
      /\ used' = 0 <=> temp' = <<>>
  <2>1. CASE PutFirst
    <3>1. cpc = "putFirst"
      BY <2>1 DEF PutFirst
    <3>2. \/ cpc' = "copyNext" /\ first' = NoBuf /\ UNCHANGED <<next, temp, used>>
          \/ UNCHANGED <<cpc, batchVars>>
      BY <1>0, <2>1, PutBufferMoves DEF PutFirst, ProcFacts
    <3>3. UNCHANGED <<next, temp, used>> /\ ((cpc' = "copyNext" /\ first' = NoBuf) \/ cpc' = cpc)
      BY <3>2 DEF batchVars
    <3> QED
      BY <1>0, <3>1, <3>3 DEF Batch, NextIn, ProcFacts
  <2>2. CASE PutNext
    <3>1. cpc = "putNext" /\ first = NoBuf
      BY <1>0, <2>2 DEF PutNext, ProcFacts, ProcessInv
    <3>2. \/ cpc' = "gather" /\ next' = NoBuf /\ UNCHANGED <<first, temp, used>>
          \/ UNCHANGED <<cpc, batchVars>>
      BY <1>0, <2>2, PutBufferMoves DEF PutNext, ProcFacts
    <3>3. /\ UNCHANGED <<first, temp, used>>
          /\ (cpc' = "gather" /\ next' = NoBuf) \/ UNCHANGED <<cpc, next>>
      BY <3>2 DEF batchVars
    <3> QED
      BY <1>0, <3>1, <3>3 DEF Batch, NextIn, ProcFacts
  <2>3. CASE FreeFirst
    <3>1. /\ cpc = "freeFirst" /\ cpc' \in {"freeFirst", "reportFirst"}
          /\ UNCHANGED <<first, next, temp, used>>
      BY <1>0, <2>3, PutBufferMoves DEF FreeFirst, ProcFacts, batchVars
    <3> QED
      BY <1>0, <3>1 DEF Batch, NextIn, ProcFacts
  <2>4. CASE FreeNext
    <3>1. /\ cpc = "freeNext" /\ cpc' \in {"freeNext", "reportNext"}
          /\ UNCHANGED <<first, next, temp, used>>
      BY <1>0, <2>4, PutBufferMoves DEF FreeNext, ProcFacts, batchVars
    <3> QED
      BY <1>0, <3>1 DEF Batch, NextIn, ProcFacts
  <2>5. CASE ReportFirst
    <3>1. /\ cpc = "reportFirst" /\ cpc' = "writeTemp" /\ first' = NoBuf /\ first # NoBuf
          /\ UNCHANGED <<next, temp, used>> /\ used = 0 /\ temp = <<>>
      BY <1>0, <2>5 DEF ReportFirst, Report, ProcFacts, ProcessInv, HasFirst
    <3> QED
      BY <3>1 DEF Batch, NextIn
  <2>6. CASE ReportNext
    <3>1. /\ cpc = "reportNext" /\ cpc' = "recv" /\ first' = NoBuf /\ next' = NoBuf
          /\ temp' = <<>> /\ used' = 0
      BY <2>6 DEF ReportNext, Report, NoBatch
    <3> QED
      BY <3>1 DEF Batch, NextIn
  <2> QED
    BY <2>1, <2>2, <2>3, <2>4, <2>5, <2>6
<1>4. Queued'
  BY <1>0, <1>1, <1>3, LineStays
<1> QED
  BY <1>1, <1>2, <1>3, <1>4 DEF QueueInv, Reached

(* The entries s leave, and maybe more; the first n have been taken. *)
LEMMA Leaves ==
  ASSUME TypeOK, NEW s \in Seq(Entry), NEW n \in 0 .. Len(s), UNCHANGED <<accepted, refused>>,
         settled' \in settled + 1 .. Len(accepted), settled + Len(s) <= settled',
         \A i \in 1 .. Len(s) : accepted[settled + i] = s[i],
         written' = written \o SubSeq(s, 1, n)
  PROVE  Q!Next
<1>1. /\ settled \in Nat /\ Len(accepted) \in Nat /\ accepted \in Seq(Entry)
      /\ Len(s) \in Nat /\ settled' <= Len(accepted)
  BY QueueTypes
<1>2. PICK k \in settled + 1 .. Len(accepted) : k = settled'
  OBVIOUS
<1>3. PICK m \in settled .. k : m = settled + n
  BY <1>1, <1>2
<1> DEFINE t == SubSeq(accepted, settled + 1, m)
           u == SubSeq(s, 1, n)
<1>4. /\ t \in Seq(Entry) /\ Len(t) = n
      /\ \A i \in 1 .. n : t[i] = accepted[settled + i]
  BY <1>1, <1>2, <1>3
<1>5. u \in Seq(Entry) /\ Len(u) = n /\ \A i \in 1 .. n : u[i] = s[i]
  BY <1>1
<1>6. \A i \in 1 .. n : t[i] = u[i]
  BY <1>1, <1>4, <1>5
<1>7. t = u
  <2> HIDE DEF t, u
  <2> QED
    BY <1>4, <1>5, <1>6
<1>8. Q!Settle(k)
  BY <1>2, <1>7 DEF Q!Settle
<1> QED
  BY <1>8 DEF Q!Next

(* The io.Writer is given the batch. *)
LEMMA OutQueue ==
  ASSUME Inv, QueueInv, NEW fail, NEW then \in {"freeFirst", "writeNext"},
         WriteOut(Batch, fail, Rest(next), then), NoSharedChange,
         cpc \in {"writeFirst", "writeTemp"}, Batch # <<>>, Batch \in Seq(Entry)
  PROVE  QueueInv' /\ [Q!Next]_Reached
<1>0. ProcFacts /\ Queued /\ Once /\ TypeOK
  BY GetProcFacts DEF QueueInv, ProcFacts
<1>1. UNCHANGED <<content, ch, accepted, refused, writes, wpc>>
  BY DEF NoSharedChange, writerVars
<1>2. Once'
  BY <1>0, <1>1 DEF Once, Ended
<1>3. used' = 0 <=> temp' = <<>>
  <2>1. UNCHANGED batchVars \/ NoBatch
    BY DEF WriteOut
  <2> QED
    BY <1>0, <2>1 DEF ProcFacts, batchVars, NoBatch
<1>4. /\ Len(Batch) \in Nat /\ Len(Batch) >= 1 /\ settled \in Nat /\ Len(ch) \in Nat
      /\ NextIn <=> next # NoBuf
      /\ Ahead = Len(Batch) + Rest(next)
      /\ Rest(next) \in {0, 1}
      /\ Len(accepted) = settled + Ahead + Len(ch)
  <2>1. Len(Batch) \in Nat /\ Len(Batch) >= 1
    OBVIOUS
  <2>2. NextIn <=> next # NoBuf
    BY DEF NextIn
  <2> QED
    BY <1>0, <2>1, <2>2, QueueTypes DEF Ahead, Rest, Queued
<1>5. ASSUME settled' = settled + Len(Batch), cpc' = then, UNCHANGED batchVars
      PROVE  QueueInv' /\ settled' \in settled + 1 .. Len(accepted)
  <2>1. Batch' = <<>> /\ NextIn' = NextIn /\ next' = next
    BY <1>4, <1>5 DEF Batch, NextIn, batchVars
  <2> QED
    BY <1>0, <1>1, <1>2, <1>3, <1>4, <1>5, <2>1, LineMoves DEF QueueInv
<1>6. ASSUME settled' = settled + Len(Batch) + Rest(next), cpc' = "recv", NoBatch
      PROVE  QueueInv' /\ settled' \in settled + 1 .. Len(accepted)
  <2>1. Batch' = <<>> /\ ~NextIn'
    BY <1>6 DEF Batch, NextIn, NoBatch
  <2>2. settled' = settled + Ahead /\ settled' > settled
    BY <1>4, <1>6
  <2>3. Queued' /\ settled' \in settled + 1 .. Len(accepted)
    BY <1>0, <1>1, <2>1, <2>2, LineMoves
  <2> QED
    BY <1>2, <1>3, <2>3 DEF QueueInv
<1>7. CASE /\ \E n \in 0 .. Len(Batch) : written' = written \o SubSeq(Batch, 1, n)
           /\ \/ settled' = settled + Len(Batch) /\ cpc' = then /\ UNCHANGED batchVars
              \/ settled' = settled + Len(Batch) + Rest(next) /\ cpc' = "recv" /\ NoBatch
  <2> DEFINE s == Batch
  <2>1. QueueInv' /\ settled' \in settled + 1 .. Len(accepted)
    BY <1>5, <1>6, <1>7
  <2>2. \A i \in 1 .. Len(s) : accepted[settled + i] = s[i]
    BY <1>0 DEF Queued
  <2>3. s \in Seq(Entry) /\ settled + Len(s) <= settled'
    BY <1>4, <1>7
  <2>4. PICK n \in 0 .. Len(s) : written' = written \o SubSeq(s, 1, n)
    BY <1>7
  <2> HIDE DEF s
  <2>5. Q!Next
    BY <1>0, <1>1, <2>1, <2>2, <2>3, <2>4, Leaves
  <2> QED
    BY <2>1, <2>5
<1>8. CASE cpc' = "hung" /\ UNCHANGED <<written, settled>>
  BY <1>1, <1>2, <1>3, <1>8 DEF QueueInv, Reached
<1> QED
  BY <1>0, <1>7, <1>8, WriteOutMoves DEF ProcFacts

LEMMA WriteLogQueue ==
  ASSUME Inv, QueueInv, WriteFirst \/ WriteTemp \/ WriteNext
  PROVE  QueueInv' /\ [Q!Next]_Reached
<1>0. ProcFacts /\ Queued /\ Once /\ TypeOK
  <2>1. cpc # "hung"
    BY DEF WriteFirst, WriteTemp, WriteNext
  <2> QED
    BY <2>1, GetProcFacts DEF QueueInv, ProcFacts
<1>1. /\ NoSharedChange
      /\ UNCHANGED <<content, ch, accepted, refused, writes, wpc>>
  BY DEF WriteFirst, WriteTemp, WriteNext, NoSharedChange, writerVars
<1>2. Once'
  BY <1>0, <1>1 DEF Once, Ended
(* Nothing is written. *)
<1>3. ASSUME UNCHANGED <<settled, written>>, Batch' = Batch, NextIn' = NextIn,
             NextIn => next' = next, used' = 0 <=> temp' = <<>>
      PROVE  QueueInv' /\ [Q!Next]_Reached
  BY <1>0, <1>1, <1>2, <1>3, LineStays DEF QueueInv, Reached
<1>4. CASE WriteFirst
  <2>1. cpc = "writeFirst"
    BY <1>4 DEF WriteFirst
  <2>2. CASE first = NoBuf
    <3>1. cpc' = "writeTemp" /\ UNCHANGED <<settled, written, first, next, temp, used>>
      BY <1>4, <2>2 DEF WriteFirst, SkipTo, batchVars
    <3>2. Batch' = Batch /\ NextIn' = NextIn
      BY <2>1, <2>2, <3>1 DEF Batch, NextIn
    <3>3. used' = 0 <=> temp' = <<>>
      BY <1>0, <3>1 DEF ProcFacts
    <3> QED
      BY <1>3, <3>1, <3>2, <3>3
  <2>3. CASE first # NoBuf
    <3>1. content[first] \in Entry
      BY <1>0, <2>1, <2>3 DEF ProcFacts, ProcessInv
    <3>2. Batch = <<content[first]>>
      BY <2>1, <2>3 DEF Batch
    <3>3. Batch \in Seq(Entry) /\ Batch # <<>>
      BY <3>1, <3>2
    <3>4. WriteOut(Batch, content[first], Rest(next), "freeFirst")
      BY <1>4, <2>3, <3>2 DEF WriteFirst
    <3> QED
      BY <1>1, <2>1, <3>3, <3>4, OutQueue
  <2> QED
    BY <2>2, <2>3
<1>5. CASE WriteTemp
  <2>1. cpc = "writeTemp" /\ first = NoBuf /\ Batch = temp /\ Batch \in Seq(Entry)
    BY <1>0, <1>5 DEF WriteTemp, ProcFacts, ProcessInv, Batch
  <2>2. CASE used = 0
    <3>1. cpc' = "writeNext" /\ UNCHANGED <<settled, written, first, next, temp, used>>
      BY <1>5, <2>2 DEF WriteTemp, SkipTo, batchVars
    <3>2. temp = <<>> /\ (used' = 0 <=> temp' = <<>>)
      BY <1>0, <2>2, <3>1 DEF ProcFacts
    <3>3. Batch' = Batch /\ NextIn' = NextIn
      BY <2>1, <3>1, <3>2 DEF Batch, NextIn
    <3> QED
      BY <1>3, <3>1, <3>2, <3>3
  <2>3. CASE used # 0
    <3>1. Batch # <<>>
      BY <1>0, <2>1, <2>3 DEF ProcFacts
    <3>2. WriteOut(Batch, NoEntry, Rest(next), "writeNext")
      BY <1>5, <2>1, <2>3 DEF WriteTemp
    <3> QED
      BY <1>1, <2>1, <3>1, <3>2, OutQueue
  <2> QED
    BY <2>2, <2>3
<1>6. CASE WriteNext
  <2>1. cpc = "writeNext" /\ first = NoBuf /\ Batch = <<>>
    BY <1>0, <1>6 DEF WriteNext, ProcFacts, ProcessInv, Batch
  <2>2. CASE next = NoBuf
    <3>1. /\ cpc' = "recv" /\ UNCHANGED <<settled, written>>
          /\ first' = NoBuf /\ next' = NoBuf /\ temp' = <<>> /\ used' = 0
      BY <1>6, <2>2 DEF WriteNext, NoBatch
    <3>2. Batch' = Batch /\ NextIn' = NextIn
      BY <2>1, <2>2, <3>1 DEF Batch, NextIn
    <3> QED
      BY <1>3, <2>2, <3>1, <3>2
  <2>3. CASE next # NoBuf
    <3> DEFINE s == <<content[next]>>
    <3>1. /\ content[next] \in Entry /\ s \in Seq(Entry) /\ s # <<>> /\ Len(s) = 1
          /\ s[1] = content[next]
      BY <1>0, <2>1, <2>3 DEF ProcFacts, ProcessInv
    <3>2. NextIn /\ Ahead = 1 /\ Len(Batch) = 0 /\ settled \in Nat
      BY <1>0, <2>1, <2>3, QueueTypes DEF NextIn, Ahead
    <3>3. accepted[settled + 1] = content[next]
      BY <1>0, <3>2 DEF Queued
    <3>4. WriteOut(s, content[next], 0, "freeNext")
      BY <1>6, <2>3 DEF WriteNext
    <3> HIDE DEF s
    <3>5. \/ /\ \E n \in 0 .. Len(s) : written' = written \o SubSeq(s, 1, n)
             /\ settled' = settled + 1
             /\ \/ cpc' = "freeNext" /\ UNCHANGED batchVars
                \/ cpc' = "recv" /\ NoBatch
          \/ cpc' = "hung" /\ UNCHANGED <<settled, written, batchVars>>
      <4>1. OutOK
        BY <1>0 DEF ProcFacts
      <4>2. \/ /\ \E n \in 0 .. Len(s) : written' = written \o SubSeq(s, 1, n)
               /\ \/ /\ settled' = settled + Len(s)
                     /\ cpc' = "freeNext" /\ UNCHANGED batchVars
                  \/ settled' = settled + Len(s) + 0 /\ cpc' = "recv" /\ NoBatch
            \/ cpc' = "hung" /\ UNCHANGED <<written, settled, batchVars>>
        BY <3>1, <3>4, <4>1, WriteOutMoves, Zenon
      <4> QED
        BY <3>1, <3>2, <4>2
    <3>6. used' = 0 <=> temp' = <<>>
      BY <1>0, <3>5 DEF ProcFacts, batchVars, NoBatch
    <3>7. CASE cpc' = "hung" /\ UNCHANGED <<settled, written, batchVars>>
      BY <1>1, <1>2, <3>6, <3>7 DEF QueueInv, Reached
    <3>8. CASE cpc' # "hung"
      <4>1. PICK n \in 0 .. Len(s) : written' = written \o SubSeq(s, 1, n)
        BY <3>5, <3>8
      <4>2. Batch' = <<>> /\ ~NextIn'
        BY <2>1, <3>5, <3>8 DEF Batch, NextIn, batchVars, NoBatch
      <4>3. settled' = settled + Ahead /\ settled' > settled
        BY <3>2, <3>5, <3>8
      <4>4. Queued' /\ settled' \in settled + 1 .. Len(accepted)
        BY <1>0, <1>1, <4>2, <4>3, LineMoves
      <4>5. settled + Len(s) <= settled'
        BY <3>1, <3>2, <4>3
      <4>6. \A i \in 1 .. Len(s) : accepted[settled + i] = s[i]
        BY <3>1, <3>3
      <4>7. Q!Next
        BY <1>0, <1>1, <3>1, <4>1, <4>4, <4>5, <4>6, Leaves
      <4> QED
        BY <1>2, <3>6, <4>4, <4>7 DEF QueueInv
    <3> QED
      BY <3>7, <3>8, <3>5
  <2> QED
    BY <2>2, <2>3
<1> QED
  BY <1>4, <1>5, <1>6

LEMMA StepQueue ==
  ASSUME NoneEmpty, Inv, QueueInv, [Next]_vars
  PROVE  QueueInv' /\ [Q!Next]_Reached
<1>1. CASE RecvFirst \/ RecvNext \/ NoNext \/ CopyFirst \/ CopyNext
  BY <1>1, GatherQueue
<1>2. CASE PutFirst \/ PutNext \/ FreeFirst \/ FreeNext \/ ReportFirst \/ ReportNext
  BY <1>2, PutQueue
<1>3. CASE WriteFirst \/ WriteTemp \/ WriteNext
  BY <1>3, WriteLogQueue
<1>4. CASE \E w \in Writers : (\E n \in Sizes : WriteBegin(w, n)) \/ WriteStep(w)
  BY <1>4, WriteQueue
<1>5. CASE UNCHANGED vars
  <2> USE <1>5 DEF vars, writerVars, procVars, batchVars, histVars
  <2>1. Batch' = Batch /\ NextIn' = NextIn /\ Ahead' = Ahead
    BY DEF Batch, NextIn, Ahead
  <2>2. Queued => Queued'
    BY <2>1 DEF Queued
  <2>3. Once'
    BY DEF QueueInv, Once, Ended
  <2> QED
    BY <2>2, <2>3 DEF QueueInv, Reached
<1> QED
  BY <1>1, <1>2, <1>3, <1>4, <1>5 DEF Next, Process

(* The log proxy is the queue it promises to be, with any number of        *)
(* writers, slots and places in the channel, and however the io.Writer     *)
(* fails: nothing written twice, out of order, changed on its way, or      *)
(* after Write had refused it.                                             *)
THEOREM ProxyImplementsQueue == NoneEmpty /\ Spec => ImplementsQueue
<1> SUFFICES ASSUME NoneEmpty PROVE Spec => Q!Spec
  BY DEF ImplementsQueue
<1>1. Inv /\ QueueInv /\ [Next]_vars => QueueInv' /\ [Q!Next]_<<accepted, refused, settled, written>>
  BY StepQueue DEF Reached
<1>2. Spec => []Inv
  BY Invariant
<1>3. Init => QueueInv /\ Q!Init
  BY InitQueue
<1> QED
  BY <1>1, <1>2, <1>3, PTL DEF Spec, Q!Spec
=============================================================================
