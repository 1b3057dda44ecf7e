--------------------------- MODULE EncoderProofs ---------------------------
(***************************************************************************)
(* Theorems about Encoder, for any goroutines, loggers and fields, and for *)
(* any calls that a marshaler makes.                                       *)
(***************************************************************************)
EXTENDS EncoderTextProofs

USE EncoderAssumption

(* What the variables are made of.  Texts, fields and what they mean may   *)
(* be anything.                                                            *)
EncoderRecord(r) ==
  r = [config |-> r.config, buf |-> r.buf, spaced |-> r.spaced,
       openNamespaces |-> r.openNamespaces, reflectBuf |-> r.reflectBuf]
CallRecord(r) ==
  r = [op |-> r.op, logger |-> r.logger, enc |-> r.enc, line |-> r.line,
       entry |-> r.entry, open |-> r.open, meant |-> r.meant, nested |-> r.nested,
       timed |-> r.timed, n |-> r.n]
Shape ==
  /\ enc = [e \in Encoders |-> enc[e]] /\ \A e \in Encoders : EncoderRecord(enc[e])
  /\ mem = [b \in Buffers |-> mem[b]]
  /\ call = [p \in Procs |-> call[p]] /\ \A p \in Procs : CallRecord(call[p])
  /\ IsASeq(loggers)
  /\ pool \subseteq Encoders /\ free \subseteq Buffers

(* An encoder has buffers of its own, and is as New makes it in the pool.  *)
Named ==
  \A e \in Encoders :
    /\ enc[e].buf \in {NoBuffer, <<"buf", e>>}
    /\ enc[e].reflectBuf \in {NoBuffer, <<"reflect", e>>}
    /\ enc[e].openNamespaces \in Nat
    /\ e \in pool => enc[e] = NewEncoder

(* Encoders in use, and what they have, are not for others to take. *)
OfLogger(e) == \E l \in DOMAIN loggers : loggers[l].enc = e
OfCall(e)   == \E p \in Procs : Busy(p) /\ call[p].enc = e
Owned ==
  \A e \in Encoders : OfLogger(e) \/ OfCall(e) =>
    /\ e \notin pool
    /\ enc[e].buf = <<"buf", e>> /\ <<"buf", e>> \notin free
    /\ enc[e].reflectBuf # NoBuffer => <<"reflect", e>> \notin free

(* What a goroutine has in hand. *)
OpenOK(open) == IsASeq(open) /\ Len(open) >= 1 /\ open[1].what = Object
CallInv(p) ==
  /\ call[p].op \in {"idle", "with", "entry", "line"}
  /\ call[p].op \in {"idle", "with"} => call[p].line = NoBuffer
  /\ call[p].op = "with" => call[p].enc \in 1 .. MaxLoggers
  /\ call[p].op = "entry" =>
       /\ call[p].enc = p /\ call[p].logger \in DOMAIN loggers
       /\ call[p].line = IF loggers[call[p].logger].console THEN <<"line", p>> ELSE NoBuffer
  /\ call[p].op = "line" => call[p].line \in {<<"line", p>>, <<"buf", p>>}
  /\ call[p].line # NoBuffer => call[p].line \notin free
  /\ Busy(p) => OpenOK(call[p].open)
Calls == \A p \in Procs : CallInv(p)

(* The encoders that With has made so far are numbered. *)
Withs == {q \in Procs : call[q].op = "with"}
Taken == Len(loggers) + Cardinality(Withs)
Numbered ==
  /\ Taken <= MaxLoggers /\ Len(Roots) <= Len(loggers)
  /\ \A l \in DOMAIN loggers : loggers[l].enc \in 1 .. Taken
  /\ \A q \in Withs : call[q].enc \in 1 .. Taken
  /\ \A l, m \in DOMAIN loggers : loggers[l].enc = loggers[m].enc => l = m
  /\ \A q, r \in Withs : call[q].enc = call[r].enc => q = r
  /\ \A l \in DOMAIN loggers, q \in Withs : loggers[l].enc # call[q].enc

Inv == Shape /\ Named /\ Owned /\ Calls /\ Numbered

-----------------------------------------------------------------------------
LEMMA Names ==
  /\ 1 .. MaxLoggers \subseteq Encoders /\ Procs \subseteq Encoders
  /\ \A p \in Procs : p \notin 1 .. MaxLoggers
  /\ \A e \in Encoders : {<<"buf", e>>, <<"line", e>>, <<"reflect", e>>} \subseteq Buffers
  /\ \A b \in Buffers : b # NoBuffer
BY DEF Encoders, Buffers

LEMMA WithsFinite == IsFiniteSet(Withs) /\ Cardinality(Withs) \in Nat
BY FS_Subset, FS_CardinalityType DEF Withs

LEMMA InitInv == Init => Inv
<1> SUFFICES ASSUME Init PROVE Inv
  OBVIOUS
<1>1. /\ Len(Roots) \in Nat /\ DOMAIN Roots = 1 .. Len(Roots)
      /\ DOMAIN Roots \subseteq 1 .. MaxLoggers
  OBVIOUS
<1>2. /\ loggers = [i \in 1 .. Len(Roots) |->
                      [console |-> Roots[i].console, enc |-> i, path |-> <<>>,
                       meant |-> <<>>, nested |-> FALSE, timed |-> FALSE, n |-> 0]]
      /\ \A p \in Procs : call[p] = Idle
      /\ call = [p \in Procs |-> Idle]
  BY <1>1 DEF Init
<1>3. IsASeq(loggers) /\ Len(loggers) = Len(Roots) /\ DOMAIN loggers = 1 .. Len(Roots)
      /\ \A l \in DOMAIN loggers : loggers[l].enc = l
  <2>1. loggers = [i \in 1 .. Len(Roots) |-> loggers[i]]
    BY <1>2
  <2>2. IsASeq(loggers) /\ Len(loggers) = Len(Roots)
    BY <1>1, <2>1, FunctionSeq
  <2> QED
    BY <1>2, <2>2
<1>4. \A e \in Encoders : enc[e] = IF e \in DOMAIN Roots THEN NewConsoleOrJSON(e) ELSE NewEncoder
  BY DEF Init
<1>5. Shape
  <2>1. \A e \in Encoders : EncoderRecord(enc[e])
    <3>1. EncoderRecord(NewEncoder)
      BY DEF EncoderRecord, NewEncoder
    <3>2. ASSUME NEW e PROVE EncoderRecord(NewConsoleOrJSON(e))
      <4>1. ASSUME NEW c, NEW b, NEW d, NEW r,
                   r = [NewEncoder EXCEPT !.config = c, !.buf = b, !.spaced = d]
            PROVE  EncoderRecord(r)
        <5>1. r = [config |-> c, buf |-> b, spaced |-> d, openNamespaces |-> 0,
                   reflectBuf |-> NoBuffer]
          BY <4>1 DEF NewEncoder
        <5> QED
          BY <5>1 DEF EncoderRecord
      <4> QED
        BY <4>1 DEF NewConsoleOrJSON
    <3> QED
      BY <1>4, <3>1, <3>2
  <2>2. \A p \in Procs : CallRecord(call[p])
    BY <1>2 DEF Idle, CallRecord
  <2> QED
    BY <1>3, <2>1, <2>2 DEF Init, Shape
<1>6. Named
  BY <1>4 DEF Named, Init, NewConsoleOrJSON, NewEncoder
<1>7. Owned
  <2> SUFFICES ASSUME NEW e \in Encoders, OfLogger(e) \/ OfCall(e)
               PROVE  e \in DOMAIN Roots /\ enc[e].buf = <<"buf", e>>
                      /\ enc[e].reflectBuf = NoBuffer
    BY DEF Owned, Init
  <2>1. e \in DOMAIN Roots
    BY <1>1, <1>2, <1>3 DEF OfLogger, OfCall, Busy, Idle
  <2> QED
    BY <1>4, <2>1 DEF NewConsoleOrJSON, NewEncoder
<1>8. Calls
  BY <1>2 DEF Calls, CallInv, Busy, Idle
<1>9. Numbered
  <2>1. Withs = {}
    BY <1>2 DEF Withs, Idle
  <2>2. Taken = Len(Roots)
    BY <1>1, <1>3, <2>1, FS_EmptySet DEF Taken
  <2> QED
    BY <1>1, <1>3, <2>1, <2>2 DEF Numbered
<1> QED
  BY <1>5, <1>6, <1>7, <1>8, <1>9 DEF Inv

-----------------------------------------------------------------------------
(* A step touches an encoder and its buffers at most, and no logger's.     *)
Touches(e) ==
  /\ ~OfLogger(e)
  /\ \A d \in Encoders : d # e => enc'[d] = enc[d]
  /\ \A b \in Buffers : b[2] # e => mem'[b] = mem[b]
ContextKept ==
  \A l \in DOMAIN loggers :
    LET e == loggers[l].enc
    IN  enc'[e] = enc[e] /\ mem'[enc[e].buf] = mem[enc[e].buf]

LEMMA TouchesKeeps ==
  ASSUME Inv, NEW e \in Encoders, Touches(e)
  PROVE  ContextKept
<1> SUFFICES ASSUME NEW l \in DOMAIN loggers, NEW d, d = loggers[l].enc
             PROVE  enc'[d] = enc[d] /\ mem'[enc[d].buf] = mem[enc[d].buf]
  BY DEF ContextKept
<1>1. d # e /\ OfLogger(d)
  BY DEF Touches, OfLogger
<1>2. d \in Encoders
  <2>1. Taken \in Nat /\ Taken <= MaxLoggers /\ d \in 1 .. Taken
    <3>1. Len(loggers) \in Nat
      BY AppendSeq DEF Inv, Shape
    <3> QED
      BY <3>1, WithsFinite DEF Inv, Numbered, Taken
  <2> QED
    BY <2>1, Names
<1>3. enc[d].buf = <<"buf", d>> /\ <<"buf", d>> \in Buffers
  BY <1>1, <1>2, Names DEF Inv, Owned
<1> QED
  BY <1>1, <1>2, <1>3 DEF Touches

(* What a call of a method does, e being the encoder the goroutine has. *)
Others(p) == \A q \in Procs : q # p => call'[q] = call[q]
Works(p, e) ==
  /\ Busy(p) /\ e = call[p].enc /\ Others(p)
  /\ CallRecord(call'[p])
  /\ call'[p].op = call[p].op /\ call'[p].logger = call[p].logger
  /\ call'[p].enc = call[p].enc /\ call'[p].line = call[p].line
  /\ OpenOK(call'[p].open)
  /\ Touches(e) /\ EncoderRecord(enc'[e])
  /\ enc'[e].buf = enc[e].buf /\ enc'[e].openNamespaces \in Nat
  /\ \/ free' = free /\ enc'[e].reflectBuf = enc[e].reflectBuf
     \/ free' = free \ {<<"reflect", e>>} /\ enc'[e].reflectBuf = <<"reflect", e>>
  /\ UNCHANGED <<pool, loggers>>
  /\ enc' = [d \in Encoders |-> enc'[d]]
  /\ mem' = [b \in Buffers |-> mem'[b]]
  /\ call' = [q \in Procs |-> call'[q]]

LEMMA WorksInv ==
  ASSUME Inv, NEW p \in Procs, NEW e \in Encoders, Works(p, e)
  PROVE  Inv'
<1> USE DEF Inv, Works
<1>1. Shape'
  <2>1. \A d \in Encoders : EncoderRecord(enc'[d])
    BY DEF Shape, Touches
  <2>2. \A q \in Procs : CallRecord(call'[q])
    BY DEF Shape, Others
  <2>3. free' \subseteq Buffers
    BY DEF Shape
  <2> QED
    BY <2>1, <2>2, <2>3 DEF Shape
<1>2. \A q \in Procs : /\ call'[q].op = call[q].op /\ call'[q].logger = call[q].logger
                       /\ call'[q].enc = call[q].enc /\ call'[q].line = call[q].line
                       /\ Busy(q)' = Busy(q)
  BY DEF Others, Busy
<1>3. \A d \in Encoders : /\ OfLogger(d)' = OfLogger(d) /\ OfCall(d)' = OfCall(d)
  BY <1>2 DEF OfLogger, OfCall
<1>4. e \notin pool /\ OfCall(e)
  BY DEF OfCall, Owned
<1>5. Named'
  BY <1>4 DEF Named, Touches
<1>6. Owned'
  BY <1>3, <1>4 DEF Owned, Touches
<1>7. Calls'
  <2> SUFFICES ASSUME NEW q \in Procs PROVE CallInv(q)'
    BY DEF Calls
  <2>1. free' \subseteq free
    OBVIOUS
  <2>2. Busy(q)' => OpenOK(call'[q].open)
    BY <1>2 DEF Calls, CallInv, Others
  <2> QED
    BY <1>2, <2>1, <2>2 DEF Calls, CallInv
<1>8. Numbered'
  <2>1. Withs' = Withs /\ \A q \in Withs : call'[q].enc = call[q].enc
    BY <1>2 DEF Withs
  <2>2. Taken' = Taken
    BY <2>1 DEF Taken
  <2> QED
    BY <2>1, <2>2 DEF Numbered
<1> QED
  BY <1>1, <1>5, <1>6, <1>7, <1>8

-----------------------------------------------------------------------------
(* The encoder of a goroutine that has one. *)
LEMMA BusyFacts ==
  ASSUME Inv, NEW p \in Procs, Busy(p), NEW e, e = call[p].enc
  PROVE  /\ e \in Encoders /\ ~OfLogger(e) /\ OfCall(e) /\ e \notin pool
         /\ enc[e].buf = <<"buf", e>> /\ <<"buf", e>> \in Buffers
         /\ enc[e].reflectBuf \in {NoBuffer, <<"reflect", e>>} /\ <<"reflect", e>> \in Buffers
         /\ OpenOK(call[p].open) /\ CallRecord(call[p]) /\ EncoderRecord(enc[e])
         /\ enc[e].openNamespaces \in Nat
<1> USE DEF Inv
<1>1. e \in Encoders /\ OpenOK(call[p].open)
  BY Names DEF Calls, CallInv, Busy
<1>2. OfCall(e)
  BY DEF OfCall
<1>3. ~OfLogger(e)
  <2>1. \A l \in DOMAIN loggers : loggers[l].enc \in 1 .. MaxLoggers
    <3>1. Len(loggers) \in Nat /\ Taken \in Nat
      BY AppendSeq, WithsFinite DEF Shape, Taken
    <3> QED
      BY <3>1 DEF Numbered
  <2>2. CASE call[p].op = "with"
    <3>1. p \in Withs
      BY <2>2 DEF Withs
    <3>2. \A l \in DOMAIN loggers : loggers[l].enc # e
      BY <3>1 DEF Numbered
    <3> QED
      BY <3>2 DEF OfLogger
  <2>3. CASE call[p].op = "entry"
    <3>1. e = p
      BY <2>3 DEF Calls, CallInv
    <3>2. e \notin 1 .. MaxLoggers
      BY <3>1, Names
    <3> QED
      BY <2>1, <3>2 DEF OfLogger
  <2> QED
    BY <2>2, <2>3 DEF Busy
<1> QED
  BY <1>1, <1>2, <1>3, Names DEF Owned, Named, Shape

(* m is mem but for what the encoder e has. *)
OnlyTheirs(m, e) ==
  /\ \A b \in Buffers : b[2] # e => m[b] = mem[b]
  /\ m = [b \in Buffers |-> m[b]]

LEMMA OnlyBoth ==
  ASSUME Inv, NEW e \in Encoders, NEW t, NEW u, NEW m,
         m = [[mem EXCEPT ![<<"reflect", e>>] = t] EXCEPT ![<<"buf", e>>] = u]
  PROVE  OnlyTheirs(m, e)
<1>1. mem = [b \in Buffers |-> mem[b]]
  BY DEF Inv, Shape
<1>2. ASSUME NEW b \in Buffers, b[2] # e PROVE m[b] = mem[b]
  <2>1. b # <<"buf", e>> /\ b # <<"reflect", e>>
    BY <1>2
  <2> QED
    BY <1>1, <2>1
<1>3. m = [b \in Buffers |-> m[b]]
  BY <1>1
<1> QED
  BY <1>2, <1>3 DEF OnlyTheirs

LEMMA OnlyLine ==
  ASSUME Inv, NEW e \in Encoders, NEW t, NEW u, NEW m,
         m = [[mem EXCEPT ![<<"line", e>>] = t] EXCEPT ![<<"buf", e>>] = u]
  PROVE  OnlyTheirs(m, e)
<1>1. mem = [b \in Buffers |-> mem[b]]
  BY DEF Inv, Shape
<1>2. ASSUME NEW b \in Buffers, b[2] # e PROVE m[b] = mem[b]
  <2>1. b # <<"buf", e>> /\ b # <<"line", e>>
    BY <1>2
  <2> QED
    BY <1>1, <2>1
<1>3. m = [b \in Buffers |-> m[b]]
  BY <1>1
<1> QED
  BY <1>2, <1>3 DEF OnlyTheirs

LEMMA OnlyBuf ==
  ASSUME Inv, NEW e \in Encoders, NEW u, NEW m, m = [mem EXCEPT ![<<"buf", e>>] = u]
  PROVE  OnlyTheirs(m, e)
<1>1. mem = [b \in Buffers |-> mem[b]]
  BY DEF Inv, Shape
<1>2. ASSUME NEW b \in Buffers, b[2] # e PROVE m[b] = mem[b]
  <2>1. b # <<"buf", e>>
    BY <1>2
  <2> QED
    BY <1>1, <2>1
<1>3. m = [b \in Buffers |-> m[b]]
  BY <1>1
<1> QED
  BY <1>2, <1>3 DEF OnlyTheirs

(* A method that appends something to the text. *)
LEMMA PutWorks ==
  ASSUME Inv, NEW p \in Procs, Busy(p), NEW text, Put(p, text), NEW e, e = call[p].enc,
         UNCHANGED <<enc, pool, free, loggers>>,
         NEW r, call' = [call EXCEPT ![p] = r], CallRecord(r), OpenOK(r.open),
         r.op = call[p].op, r.logger = call[p].logger, r.enc = call[p].enc, r.line = call[p].line
  PROVE  Works(p, e)
<1>1. /\ mem' = [mem EXCEPT ![<<"buf", e>>] = text] /\ <<"buf", e>> \in Buffers
      /\ e \in Encoders /\ ~OfLogger(e) /\ enc[e].openNamespaces \in Nat /\ EncoderRecord(enc[e])
  BY BusyFacts DEF Put, Mine
<1>2. Shape
  BY DEF Inv
<1>3. call'[p] = r /\ Others(p) /\ call' = [q \in Procs |-> call'[q]]
  BY <1>2 DEF Shape, Others
<1>4. OnlyTheirs(mem', e)
  BY <1>1, OnlyBuf
<1>5. Touches(e) /\ enc' = [d \in Encoders |-> enc'[d]]
  BY <1>1, <1>2, <1>4 DEF Touches, Shape, OnlyTheirs
<1> QED
  BY <1>1, <1>3, <1>4, <1>5 DEF Works, OnlyTheirs

(* The fields of a call that a method leaves alone. *)
SameCall(r, p) ==
  /\ CallRecord(r) /\ OpenOK(r.open)
  /\ r.op = call[p].op /\ r.logger = call[p].logger /\ r.enc = call[p].enc /\ r.line = call[p].line

LEMMA SaysSame ==
  ASSUME Inv, NEW p \in Procs, Busy(p), NEW k, NEW v
  PROVE  SameCall(Says(p, k, v), p) /\ Says(p, k, v).open = call[p].open
<1>1. CallRecord(call[p]) /\ OpenOK(call[p].open)
  BY BusyFacts
<1> DEFINE r == Says(p, k, v)
<1>2. r = [call[p] EXCEPT !.n = @ + 1, !.meant = Append(@, <<Place(p, k), v>>)]
  BY DEF Says
<1> HIDE DEF r
<1>3. /\ CallRecord(r) /\ r.open = call[p].open
      /\ r.op = call[p].op /\ r.logger = call[p].logger /\ r.enc = call[p].enc
      /\ r.line = call[p].line
  BY <1>1, <1>2 DEF CallRecord
<1> QED
  BY <1>1, <1>3 DEF SameCall, r

LEMMA OpenGrows ==
  ASSUME NEW s, OpenOK(s), NEW f
  PROVE  /\ OpenOK(Append(s, f))
         /\ f.what = Object => OpenOK(Append(Front(s), f))
         /\ Len(s) > 1 => OpenOK(Front(s))
<1>0. Len(s) \in Nat /\ Len(s) >= 1
  BY AppendSeq DEF OpenOK
<1>1. IsASeq(s) /\ Len(s) \in Nat /\ Len(s) >= 1 /\ s[1].what = Object
  BY <1>0 DEF OpenOK
<1>2. OpenOK(Append(s, f))
  BY <1>1, AppendSeq DEF OpenOK
<1>3. Len(s) > 1 => OpenOK(Front(s))
  BY <1>1, FrontSeq DEF OpenOK
<1>4. ASSUME f.what = Object PROVE OpenOK(Append(Front(s), f))
  <2>1. CASE Len(s) > 1
    <3> DEFINE t == Front(s)
    <3>1. IsASeq(t) /\ Len(t) = Len(s) - 1 /\ t[1] = s[1]
      BY <2>1, <1>1, FrontSeq
    <3> HIDE DEF t
    <3>2. IsASeq(Append(t, f)) /\ Len(Append(t, f)) = Len(s) /\ Append(t, f)[1] = t[1]
      BY <1>1, <2>1, <3>1, AppendSeq
    <3> QED
      BY <1>1, <3>1, <3>2 DEF OpenOK, t
  <2>2. CASE Len(s) = 1
    <3>1. Front(s) = <<>>
      <4>1. PICK S : s \in Seq(S)
        BY <1>1 DEF IsASeq
      <4> QED
        BY <2>2, <4>1 DEF Front
    <3>2. <<>> \in Seq({}) /\ Len(<<>>) = 0
      OBVIOUS
    <3>3. IsASeq(<<>>)
      BY <3>2 DEF IsASeq
    <3>4. /\ IsASeq(Append(<<>>, f)) /\ Len(Append(<<>>, f)) = 1
          /\ Append(<<>>, f)[1] = f
      <4> DEFINE t == <<>>
      <4>1. IsASeq(t) /\ Len(t) = 0
        BY <3>2, <3>3
      <4> HIDE DEF t
      <4>2. /\ IsASeq(Append(t, f)) /\ Len(Append(t, f)) = 0 + 1
            /\ Append(t, f)[0 + 1] = f
        BY <4>1, AppendSeq
      <4> QED
        BY <4>2 DEF t
    <3> QED
      BY <1>4, <3>1, <3>4 DEF OpenOK
  <2>3. Len(s) > 1 \/ Len(s) = 1
    <3> DEFINE n == Len(s)
    <3>1. n \in Nat /\ n >= 1
      BY <1>0
    <3> HIDE DEF n
    <3>2. n > 1 \/ n = 1
      BY <3>1
    <3> QED
      BY <3>2 DEF n
  <2> QED
    BY <2>1, <2>2, <2>3
<1> QED
  BY <1>2, <1>3, <1>4

LEMMA AddValueWorks ==
  ASSUME Inv, NEW p \in Procs, NEW k, NEW text, NEW v, AddValue(p, k, text, v),
         NEW e, e = call[p].enc
  PROVE  Works(p, e)
<1>1. Busy(p) /\ Put(p, text) /\ UNCHANGED <<enc, pool, free, loggers>>
      /\ call' = [call EXCEPT ![p] = Says(p, k, v)]
  BY DEF AddValue, Ready
<1> QED
  BY <1>1, SaysSame, PutWorks DEF SameCall

LEMMA AddTimeWorks ==
  ASSUME Inv, NEW p \in Procs, NEW k, AddTime(p, k), NEW e, e = call[p].enc
  PROVE  Works(p, e)
<1> DEFINE time == Mine(p).config.time
           s == Says(p, k, Said(time))
           r == [s EXCEPT !.timed = @ \/ Len(time) > 1]
           text == WithEncoded(Labelled(p, k), time, Mine(p).spaced)
<1>1. Busy(p) /\ Put(p, text) /\ UNCHANGED <<enc, pool, free, loggers>>
      /\ call' = [call EXCEPT ![p] = r]
  BY DEF AddTime, Ready
<1>2. SameCall(s, p)
  BY <1>1, SaysSame
<1>3. SameCall(r, p)
  <2> DEFINE x == s.timed \/ Len(time) > 1
  <2>1. r = [s EXCEPT !.timed = x]
    OBVIOUS
  <2> HIDE DEF s, r, x
  <2>2. /\ CallRecord(r) /\ r.open = s.open
        /\ r.op = s.op /\ r.logger = s.logger /\ r.enc = s.enc /\ r.line = s.line
    BY <1>2, <2>1 DEF SameCall, CallRecord
  <2> QED
    BY <1>2, <2>2 DEF SameCall
<1> HIDE DEF r, text
<1> QED
  BY <1>1, <1>3, PutWorks DEF SameCall

LEMMA BeginMarshalWorks ==
  ASSUME Inv, NEW p \in Procs, NEW k, NEW what, BeginMarshal(p, k, what), NEW e, e = call[p].enc
  PROVE  Works(p, e)
<1> DEFINE s == Says(p, k, what)
           f == [what |-> what, path |-> Place(p, k)]
           r == [s EXCEPT !.open = Append(@, f)]
           text == Append(Separated(Labelled(p, k), Mine(p).spaced),
                          IF what = Object THEN "{" ELSE "[")
<1>1. Busy(p) /\ Put(p, text) /\ UNCHANGED <<enc, pool, free, loggers>>
      /\ call' = [call EXCEPT ![p] = r]
  BY DEF BeginMarshal, Ready
<1>2. SameCall(s, p)
  BY <1>1, SaysSame
<1>3. OpenOK(Append(s.open, f))
  BY <1>2, OpenGrows DEF SameCall
<1>4. SameCall(r, p)
  <2> DEFINE x == Append(s.open, f)
  <2>1. r = [s EXCEPT !.open = x]
    OBVIOUS
  <2>2. OpenOK(x)
    BY <1>3
  <2> HIDE DEF s, r, x
  <2>3. CallRecord(s)
    BY <1>2 DEF SameCall
  <2>4. /\ CallRecord(r) /\ r.open = x
        /\ r.op = s.op /\ r.logger = s.logger /\ r.enc = s.enc /\ r.line = s.line
    BY <2>1, <2>3 DEF CallRecord
  <2> QED
    BY <1>2, <2>2, <2>4 DEF SameCall
<1> HIDE DEF r, text
<1> QED
  BY <1>1, <1>4, PutWorks DEF SameCall

LEMMA EndMarshalWorks ==
  ASSUME Inv, NEW p \in Procs, NEW failed, EndMarshal(p, failed), NEW e, e = call[p].enc
  PROVE  Works(p, e)
<1> DEFINE told == failed /\ Len(call[p].open) = 2
           end == Append(Text(p), IF Frame(p).what = Object THEN "}" ELSE "]")
           text == IF told THEN ErrorText(end, Mine(p).spaced) ELSE end
           meant == IF told THEN Append(call[p].meant, <<ErrorPlace(p), <<"e">>>>)
                    ELSE call[p].meant
           r == [call[p] EXCEPT !.open = Front(@), !.meant = meant]
<1>1. Busy(p) /\ Nested(p) /\ Put(p, text) /\ UNCHANGED <<enc, pool, free, loggers>>
  BY DEF EndMarshal
<1>2. call' = [call EXCEPT ![p] = r]
  BY DEF EndMarshal, Inv, Shape
<1>3. CallRecord(call[p]) /\ OpenOK(call[p].open) /\ OpenOK(Front(call[p].open))
  BY <1>1, BusyFacts, OpenGrows DEF Nested
<1>4. SameCall(r, p)
  <2> DEFINE x == Front(call[p].open)
  <2>1. r = [call[p] EXCEPT !.open = x, !.meant = meant]
    OBVIOUS
  <2>2. OpenOK(x)
    BY <1>3
  <2> HIDE DEF r, x, meant
  <2> DEFINE s == call[p]
  <2>3. CallRecord(s)
    BY <1>3
  <2>4. r = [s EXCEPT !.open = x, !.meant = meant]
    BY <2>1
  <2> HIDE DEF s
  <2>5. /\ CallRecord(r) /\ r.open = x
        /\ r.op = s.op /\ r.logger = s.logger /\ r.enc = s.enc /\ r.line = s.line
    BY <2>3, <2>4 DEF CallRecord
  <2> QED
    BY <2>2, <2>5 DEF SameCall, s
<1> HIDE DEF r, text
<1> QED
  BY <1>1, <1>2, <1>4, PutWorks DEF SameCall

LEMMA OpenNamespaceWorks ==
  ASSUME Inv, NEW p \in Procs, NEW k, OpenNamespace(p, k), NEW e, e = call[p].enc
  PROVE  Works(p, e)
<1> DEFINE s == Says(p, k, Object)
           x == Append(Front(s.open), [what |-> Object, path |-> Place(p, k)])
           y == s.nested \/ Nested(p)
           r == [s EXCEPT !.open = x, !.nested = y]
           text == Append(Labelled(p, k), "{")
<1>1. /\ Busy(p) /\ Put(p, text) /\ UNCHANGED <<pool, free, loggers>>
      /\ call' = [call EXCEPT ![p] = r]
      /\ enc' = [enc EXCEPT ![e].openNamespaces = @ + 1]
  BY DEF OpenNamespace, Ready
<1>2. SameCall(s, p)
  BY <1>1, SaysSame
<1>3. OpenOK(x)
  BY <1>2, OpenGrows DEF SameCall
<1>4. SameCall(r, p)
  <2>1. r = [s EXCEPT !.open = x, !.nested = y]
    OBVIOUS
  <2>2. CallRecord(s)
    BY <1>2 DEF SameCall
  <2>3. OpenOK(x)
    BY <1>3
  <2> HIDE DEF s, r, x, y
  <2>4. /\ CallRecord(r) /\ r.open = x
        /\ r.op = s.op /\ r.logger = s.logger /\ r.enc = s.enc /\ r.line = s.line
    BY <2>1, <2>2 DEF CallRecord
  <2> QED
    BY <1>2, <2>3, <2>4 DEF SameCall
<1> HIDE DEF r, text
<1>5. /\ mem' = [mem EXCEPT ![<<"buf", e>>] = text] /\ <<"buf", e>> \in Buffers
      /\ e \in Encoders /\ ~OfLogger(e) /\ enc[e].openNamespaces \in Nat /\ EncoderRecord(enc[e])
  BY <1>1, BusyFacts DEF Put, Mine
<1>6. Shape
  BY DEF Inv
<1>7. call'[p] = r /\ Others(p) /\ call' = [q \in Procs |-> call'[q]]
  BY <1>1, <1>6 DEF Shape, Others
<1>8. OnlyTheirs(mem', e)
  BY <1>5, OnlyBuf
<1>9. /\ enc' = [d \in Encoders |-> enc'[d]]
      /\ \A d \in Encoders : d # e => enc'[d] = enc[d]
      /\ enc'[e] = [enc[e] EXCEPT !.openNamespaces = @ + 1]
  BY <1>1, <1>5, <1>6 DEF Shape
<1>10. /\ EncoderRecord(enc'[e]) /\ enc'[e].buf = enc[e].buf
       /\ enc'[e].openNamespaces \in Nat /\ enc'[e].reflectBuf = enc[e].reflectBuf
  <2> DEFINE n == enc[e].openNamespaces + 1
             a == enc[e]
             b == enc'[e]
  <2>1. b = [a EXCEPT !.openNamespaces = n] /\ EncoderRecord(a) /\ n \in Nat
    BY <1>5, <1>9
  <2> HIDE DEF a, b, n
  <2>2. EncoderRecord(b) /\ b.buf = a.buf /\ b.openNamespaces = n /\ b.reflectBuf = a.reflectBuf
    BY <2>1 DEF EncoderRecord
  <2> QED
    BY <2>1, <2>2 DEF a, b
<1> QED
  BY <1>1, <1>4, <1>5, <1>7, <1>8, <1>9, <1>10 DEF Works, Touches, OnlyTheirs, SameCall

LEMMA AddReflectedWorks ==
  ASSUME Inv, NEW p \in Procs, NEW k, AddReflected(p, k), NEW e, e = call[p].enc
  PROVE  Works(p, e)
<1> DEFINE c == <<"reflect", e>>
<1>1. Busy(p) /\ UNCHANGED <<pool, loggers>>
  BY DEF AddReflected, Ready
<1>2. /\ e \in Encoders /\ ~OfLogger(e) /\ EncoderRecord(enc[e])
      /\ enc[e].buf = <<"buf", e>> /\ <<"buf", e>> \in Buffers /\ c \in Buffers
      /\ enc[e].reflectBuf \in {NoBuffer, c} /\ enc[e].openNamespaces \in Nat
      /\ CallRecord(call[p]) /\ OpenOK(call[p].open)
  BY <1>1, BusyFacts
<1>3. (IF Mine(p).reflectBuf = NoBuffer THEN <<"reflect", call[p].enc>> ELSE Mine(p).reflectBuf) = c
  BY <1>2 DEF Mine
<1> HIDE DEF c
<1>4. /\ free' = free \ {c}
      /\ enc' = [enc EXCEPT ![e].reflectBuf = c]
      /\ \E t, u : mem' = [mem EXCEPT ![c] = t, ![<<"buf", e>>] = u]
      /\ \/ call' = [call EXCEPT ![p] = Says(p, k, Number)]
         \/ call' = [call EXCEPT ![p].n = @ + 1]
         \/ call' = [call EXCEPT ![p].n = @ + 1,
                       ![p].meant = Append(@, <<ErrorPlace(p), <<"e">>>>)]
  <2>1. free' = free \ {c} /\ enc' = [enc EXCEPT ![e].reflectBuf = c]
    BY <1>3 DEF AddReflected
  <2>2. Mine(p).buf = <<"buf", e>>
    BY <1>2 DEF Mine
  <2>3. \E t, u : mem' = [mem EXCEPT ![c] = t, ![<<"buf", e>>] = u]
    <3>1. \E t, u : mem' = [mem EXCEPT ![c] = t, ![Mine(p).buf] = u]
      BY <1>3 DEF AddReflected
    <3> QED
      BY <2>2, <3>1
  <2> QED
    BY <2>1, <2>3 DEF AddReflected
<1>5. Shape
  BY DEF Inv
<1>6. /\ SameCall(call'[p], p) /\ Others(p) /\ call' = [q \in Procs |-> call'[q]]
  <2>1. CASE call' = [call EXCEPT ![p] = Says(p, k, Number)]
    <3>1. call'[p] = Says(p, k, Number) /\ Others(p) /\ call' = [q \in Procs |-> call'[q]]
      BY <1>5, <2>1 DEF Shape, Others
    <3> QED
      BY <1>1, <3>1, SaysSame
  <2>2. CASE call' = [call EXCEPT ![p].n = @ + 1]
    <3>1. /\ call'[p] = [call[p] EXCEPT !.n = @ + 1]
          /\ Others(p) /\ call' = [q \in Procs |-> call'[q]]
      BY <1>5, <2>2 DEF Shape, Others
    <3> QED
      BY <1>2, <3>1 DEF SameCall, CallRecord
  <2>3. CASE call' = [call EXCEPT ![p].n = @ + 1,
                        ![p].meant = Append(@, <<ErrorPlace(p), <<"e">>>>)]
    <3>1. /\ call'[p] = [call[p] EXCEPT !.n = @ + 1,
                           !.meant = Append(@, <<ErrorPlace(p), <<"e">>>>)]
          /\ Others(p) /\ call' = [q \in Procs |-> call'[q]]
      BY <1>5, <2>3 DEF Shape, Others
    <3> QED
      BY <1>2, <3>1 DEF SameCall, CallRecord
  <2> QED
    BY <1>4, <2>1, <2>2, <2>3
<1>7. OnlyTheirs(mem', e)
  <2>1. PICK t, u : mem' = [mem EXCEPT ![c] = t, ![<<"buf", e>>] = u]
    BY <1>4
  <2>2. mem' = [[mem EXCEPT ![c] = t] EXCEPT ![<<"buf", e>>] = u]
    BY <2>1
  <2> QED
    BY <1>2, <2>2, OnlyBoth DEF c
<1>8. /\ enc' = [d \in Encoders |-> enc'[d]]
      /\ \A d \in Encoders : d # e => enc'[d] = enc[d]
      /\ enc'[e] = [enc[e] EXCEPT !.reflectBuf = c]
  BY <1>2, <1>4, <1>5 DEF Shape
<1>9. /\ EncoderRecord(enc'[e]) /\ enc'[e].buf = enc[e].buf
      /\ enc'[e].openNamespaces \in Nat /\ enc'[e].reflectBuf = c
  BY <1>2, <1>8 DEF EncoderRecord
<1> QED
  BY <1>1, <1>2, <1>4, <1>6, <1>7, <1>8, <1>9 DEF Works, Touches, OnlyTheirs, SameCall, c

-----------------------------------------------------------------------------
(* Beginning: an encoder leaves the pool. *)
LEMMA IndexFacts ==
  Inv => /\ Taken \in Nat /\ Len(loggers) \in Nat /\ DOMAIN loggers = 1 .. Len(loggers)
         /\ \A l \in DOMAIN loggers : loggers[l].enc \in 1 .. MaxLoggers
         /\ \A l \in DOMAIN loggers : loggers[l].enc \in Encoders
         /\ \A p \in Procs : ~OfLogger(p)
<1> SUFFICES ASSUME Inv
             PROVE  /\ Taken \in Nat /\ Len(loggers) \in Nat /\ DOMAIN loggers = 1 .. Len(loggers)
                    /\ \A l \in DOMAIN loggers : loggers[l].enc \in 1 .. MaxLoggers
  BY Names DEF OfLogger
<1>1. Len(loggers) \in Nat /\ DOMAIN loggers = 1 .. Len(loggers)
  BY AppendSeq DEF Inv, Shape
<1>2. Taken \in Nat
  BY <1>1, WithsFinite DEF Taken
<1> QED
  BY <1>1, <1>2 DEF Inv, Numbered

Begins(p, c, e, r) ==
  /\ call[p].op = "idle" /\ c \in pool /\ <<"buf", c>> \in free
  /\ enc' = [enc EXCEPT ![c] = Clone(c, e, <<"buf", c>>)]
  /\ pool' = pool \ {c} /\ free' = free \ {<<"buf", c>>, r.line}
  /\ OnlyTheirs(mem', c) /\ loggers' = loggers
  /\ call' = [call EXCEPT ![p] = r]
  /\ CallRecord(r) /\ OpenOK(r.open) /\ r.enc = c
  /\ \/ r.op = "with" /\ r.line = NoBuffer /\ c = Taken + 1 /\ c <= MaxLoggers
     \/ /\ r.op = "entry" /\ c = p /\ r.logger \in DOMAIN loggers
        /\ r.line = IF loggers[r.logger].console THEN <<"line", p>> ELSE NoBuffer

LEMMA BeginsInv ==
  ASSUME Inv, NEW p \in Procs, NEW c \in Encoders, NEW e \in Encoders, NEW r, Begins(p, c, e, r)
  PROVE  Inv' /\ Touches(c)
<1> USE DEF Inv, Begins
<1>1. ~OfLogger(c) /\ ~OfCall(c)
  BY DEF Owned
<1>2. /\ enc' = [d \in Encoders |-> enc'[d]]
      /\ \A d \in Encoders : d # c => enc'[d] = enc[d]
      /\ enc'[c] = Clone(c, e, <<"buf", c>>)
  BY DEF Shape
<1>3. /\ EncoderRecord(enc'[c]) /\ enc'[c].buf = <<"buf", c>>
      /\ enc'[c].reflectBuf = NoBuffer /\ enc'[c].openNamespaces \in Nat
  <2> DEFINE a == enc[c]
             b == enc'[c]
             x == enc[e].config
             y == enc[e].spaced
             n == enc[e].openNamespaces
  <2>1. /\ b = [a EXCEPT !.config = x, !.spaced = y, !.openNamespaces = n, !.buf = <<"buf", c>>]
        /\ EncoderRecord(a) /\ n \in Nat /\ a.reflectBuf = NoBuffer
    <3>1. c \in pool => enc[c].reflectBuf = NoBuffer
      BY DEF Named, NewEncoder
    <3> QED
      BY <1>2, <3>1 DEF Clone, Shape, Named
  <2> HIDE DEF a, b, x, y, n
  <2>2. /\ EncoderRecord(b) /\ b.buf = <<"buf", c>> /\ b.reflectBuf = a.reflectBuf
        /\ b.openNamespaces = n
    BY <2>1 DEF EncoderRecord
  <2> QED
    BY <2>1, <2>2 DEF b
<1>4. Touches(c)
  BY <1>1, <1>2 DEF Touches, OnlyTheirs
<1>5. call'[p] = r /\ Others(p) /\ call' = [q \in Procs |-> call'[q]]
  BY DEF Shape, Others
<1>6. Shape'
  <2>1. \A d \in Encoders : EncoderRecord(enc'[d])
    BY <1>2, <1>3 DEF Shape
  <2>2. \A q \in Procs : CallRecord(call'[q])
    BY <1>5 DEF Shape, Others
  <2> QED
    BY <1>2, <1>5, <2>1, <2>2 DEF Shape, OnlyTheirs
<1>7. Named'
  BY <1>2, <1>3 DEF Named
<1>8. \A d \in Encoders : (OfLogger(d)' <=> OfLogger(d)) /\ (OfCall(d)' => OfCall(d) \/ d = c)
  BY <1>5 DEF OfLogger, OfCall, Busy, Others
<1>9. Owned'
  <2> SUFFICES ASSUME NEW d \in Encoders, OfLogger(d)' \/ OfCall(d)'
               PROVE  /\ d \notin pool'
                      /\ enc'[d].buf = <<"buf", d>> /\ <<"buf", d>> \notin free'
                      /\ enc'[d].reflectBuf # NoBuffer => <<"reflect", d>> \notin free'
    BY DEF Owned
  <2>1. CASE d = c
    BY <1>3, <2>1
  <2>2. CASE d # c
    BY <1>2, <1>8, <2>2 DEF Owned
  <2> QED
    BY <2>1, <2>2
<1>10. Calls'
  <2> SUFFICES ASSUME NEW q \in Procs PROVE CallInv(q)'
    BY DEF Calls
  <2>1. CASE q # p
    BY <1>5, <2>1 DEF Calls, CallInv, Others, Busy
  <2>2. CASE q = p
    <3>1. r.op = "with" => c \in 1 .. MaxLoggers
      BY IndexFacts
    <3> QED
      BY <1>5, <2>2, <3>1, Names DEF CallInv, Busy
  <2> QED
    BY <2>1, <2>2
<1>11. Numbered'
  <2>1. CASE r.op = "entry"
    <3>1. Withs' = Withs /\ \A q \in Withs : call'[q].enc = call[q].enc
      BY <1>5, <2>1 DEF Withs, Others
    <3>2. Taken' = Taken
      BY <3>1 DEF Taken
    <3> QED
      BY <3>1, <3>2 DEF Numbered
  <2>2. CASE r.op = "with"
    <3>1. /\ Withs' = Withs \cup {p} /\ p \notin Withs
          /\ \A q \in Withs : call'[q].enc = call[q].enc
      BY <1>5, <2>2 DEF Withs, Others
    <3>2. Cardinality(Withs \cup {p}) = Cardinality(Withs) + 1
      BY <3>1, WithsFinite, FS_AddElement
    <3>3. Taken' = Taken + 1 /\ Taken \in Nat /\ c = Taken + 1 /\ c <= MaxLoggers
      BY <2>2, <3>1, <3>2, WithsFinite, IndexFacts DEF Taken
    <3>4. call'[p].enc = c
      BY <1>5
    <3>5. /\ \A l \in DOMAIN loggers : loggers[l].enc \in 1 .. Taken' /\ loggers[l].enc # c
          /\ \A q \in Withs : call[q].enc \in 1 .. Taken' /\ call[q].enc # c
      BY <3>3 DEF Numbered
    <3> QED
      BY <3>1, <3>3, <3>4, <3>5 DEF Numbered
  <2> QED
    BY <2>1, <2>2
<1> QED
  BY <1>4, <1>6, <1>7, <1>9, <1>10, <1>11

LEMMA StartedRecord ==
  ASSUME NEW op, NEW l, NEW e, NEW line, NEW entry, NEW r, r = Started(op, l, e, line, entry)
  PROVE  /\ CallRecord(r) /\ OpenOK(r.open)
         /\ r.op = op /\ r.logger = l /\ r.enc = e /\ r.line = line
<1>1. /\ CallRecord(r) /\ r.open = <<[what |-> Object, path |-> loggers[l].path]>>
      /\ r.op = op /\ r.logger = l /\ r.enc = e /\ r.line = line
  BY DEF Started, CallRecord
<1>2. ASSUME NEW f, f.what = Object PROVE OpenOK(<<f>>)
  <2> DEFINE t == <<f>>
  <2>1. t \in Seq({f}) /\ Len(t) = 1 /\ t[1] = f
    OBVIOUS
  <2> HIDE DEF t
  <2>2. IsASeq(t)
    BY <2>1 DEF IsASeq
  <2> QED
    BY <1>2, <2>1, <2>2 DEF OpenOK, t
<1>3. OpenOK(<<[what |-> Object, path |-> loggers[l].path]>>)
  BY <1>2
<1> QED
  BY <1>1, <1>3

LEMMA BeginWithBegins ==
  ASSUME Inv, NEW p \in Procs, NEW l \in DOMAIN loggers, BeginWith(p, l),
         NEW c, c = Taken + 1, NEW e, e = loggers[l].enc,
         NEW r, r = Started("with", l, c, NoBuffer, {})
  PROVE  /\ c \in Encoders /\ e \in Encoders /\ Begins(p, c, e, r)
         /\ mem' = [mem EXCEPT ![<<"buf", c>>] = mem[enc[e].buf]]
<1>1. 1 + Len(loggers) + Cardinality({q \in Procs : call[q].op = "with"}) = c
  BY IndexFacts, WithsFinite DEF Taken, Withs
<1>2. e \in Encoders /\ Taken \in Nat
  BY IndexFacts
<1> DEFINE b == <<"buf", c>>
<1>3. /\ call[p].op = "idle" /\ c <= MaxLoggers /\ Take(c, e, b, mem[enc[e].buf])
      /\ free' = free \ {b} /\ call' = [call EXCEPT ![p] = r] /\ UNCHANGED loggers
  BY <1>1 DEF BeginWith
<1>4. c \in pool /\ b \in free /\ c \in Encoders
  BY <1>3 DEF Take, Inv, Shape
<1>5. OnlyTheirs(mem', c)
  BY <1>3, <1>4, OnlyBuf DEF Take
<1>6. /\ CallRecord(r) /\ OpenOK(r.open) /\ r.op = "with" /\ r.enc = c /\ r.line = NoBuffer
  BY StartedRecord
<1>7. free' = free \ {b, r.line}
  BY <1>3, <1>6, Names DEF Inv, Shape
<1>8. Begins(p, c, e, r)
  BY <1>3, <1>4, <1>5, <1>6, <1>7 DEF Begins, Take
<1> QED
  BY <1>2, <1>3, <1>4, <1>8 DEF Take

LEMMA BeginJSONBegins ==
  ASSUME Inv, NEW p \in Procs, NEW l \in DOMAIN loggers, NEW entry, BeginJSON(p, l, entry),
         NEW e, e = loggers[l].enc, NEW r, r = Started("entry", l, p, NoBuffer, entry)
  PROVE  p \in Encoders /\ e \in Encoders /\ Begins(p, p, e, r)
<1> DEFINE b == <<"buf", p>>
           text == IF mem[enc[e].buf] = <<>>
                   THEN HeaderJSON(enc[e].config, entry, enc[e].spaced)
                   ELSE Separated(HeaderJSON(enc[e].config, entry, enc[e].spaced),
                                  enc[e].spaced) \o mem[enc[e].buf]
<1>1. e \in Encoders /\ p \in Encoders /\ b \in Buffers /\ b # NoBuffer
  BY IndexFacts, Names
<1>2. /\ call[p].op = "idle" /\ ~loggers[l].console /\ Take(p, e, b, text)
      /\ free' = free \ {b} /\ call' = [call EXCEPT ![p] = r] /\ UNCHANGED loggers
  BY DEF BeginJSON
<1>3. /\ CallRecord(r) /\ OpenOK(r.open) /\ r.op = "entry" /\ r.enc = p
      /\ r.line = NoBuffer /\ r.logger = l
  BY StartedRecord
<1> HIDE DEF text
<1>4. OnlyTheirs(mem', p)
  BY <1>1, <1>2, OnlyBuf DEF Take
<1>5. free' = free \ {b, r.line}
  BY <1>2, <1>3, Names DEF Inv, Shape
<1>6. Begins(p, p, e, r)
  BY <1>2, <1>3, <1>4, <1>5 DEF Begins, Take
<1> QED
  BY <1>1, <1>6

LEMMA BeginConsoleBegins ==
  ASSUME Inv, NEW p \in Procs, NEW l \in DOMAIN loggers, NEW entry, BeginConsole(p, l, entry),
         NEW e, e = loggers[l].enc,
         NEW r, r = Started("entry", l, p, <<"line", p>>, entry)
  PROVE  p \in Encoders /\ e \in Encoders /\ Begins(p, p, e, r)
<1> DEFINE b == <<"buf", p>>
           line == <<"line", p>>
<1>1. e \in Encoders /\ p \in Encoders /\ b \in Buffers /\ line \in Buffers
  BY IndexFacts, Names
<1>2. /\ call[p].op = "idle" /\ loggers[l].console /\ p \in pool /\ {line, b} \subseteq free
      /\ enc' = [enc EXCEPT ![p] = Clone(p, e, b)]
      /\ \E t, u : mem' = [[mem EXCEPT ![line] = t] EXCEPT ![b] = u]
      /\ pool' = pool \ {p} /\ free' = free \ {line, b}
      /\ call' = [call EXCEPT ![p] = r] /\ UNCHANGED loggers
  BY DEF BeginConsole
<1>3. /\ CallRecord(r) /\ OpenOK(r.open) /\ r.op = "entry" /\ r.enc = p
      /\ r.line = line /\ r.logger = l
  BY StartedRecord
<1>4. OnlyTheirs(mem', p)
  <2>1. PICK t, u : mem' = [[mem EXCEPT ![line] = t] EXCEPT ![b] = u]
    BY <1>2
  <2> QED
    BY <1>1, <2>1, OnlyLine
<1>5. free' = free \ {b, r.line}
  BY <1>2, <1>3
<1>6. Begins(p, p, e, r)
  BY <1>2, <1>3, <1>4, <1>5 DEF Begins
<1> QED
  BY <1>1, <1>6

LEMMA BeginInv ==
  ASSUME Inv, NEW p \in Procs, NEW l \in DOMAIN loggers,
         \/ BeginWith(p, l)
         \/ \E entry : BeginJSON(p, l, entry) \/ BeginConsole(p, l, entry)
  PROVE  Inv' /\ ContextKept
<1> DEFINE e == loggers[l].enc
<1>1. ASSUME NEW c \in Encoders, NEW r, Begins(p, c, e, r), e \in Encoders
      PROVE  Inv' /\ ContextKept
  BY <1>1, BeginsInv, TouchesKeeps
<1>2. CASE BeginWith(p, l)
  BY <1>1, <1>2, BeginWithBegins
<1>3. ASSUME NEW entry, BeginJSON(p, l, entry) PROVE Inv' /\ ContextKept
  BY <1>1, <1>3, BeginJSONBegins
<1>4. ASSUME NEW entry, BeginConsole(p, l, entry) PROVE Inv' /\ ContextKept
  BY <1>1, <1>4, BeginConsoleBegins
<1> QED
  BY <1>2, <1>3, <1>4

-----------------------------------------------------------------------------
(* Ending. *)
LEMMA EndWithInv ==
  ASSUME Inv, NEW p \in Procs, EndWith(p)
  PROVE  Inv' /\ ContextKept
<1> USE DEF Inv
<1> DEFINE c == call[p].enc
           x == [console |-> loggers[call[p].logger].console, enc |-> call[p].enc,
                 path |-> Frame(p).path, meant |-> call[p].meant,
                 nested |-> call[p].nested, timed |-> call[p].timed, n |-> call[p].n]
<1>1. /\ call[p].op = "with" /\ Busy(p) /\ p \in Withs
      /\ loggers' = Append(loggers, x) /\ x.enc = c
      /\ call' = [call EXCEPT ![p] = Idle] /\ UNCHANGED <<enc, pool, mem, free>>
  BY DEF EndWith, Busy, Withs
<1> HIDE DEF x, c
<1>2. /\ IsASeq(loggers') /\ Len(loggers') = Len(loggers) + 1 /\ Len(loggers) \in Nat
      /\ DOMAIN loggers = 1 .. Len(loggers) /\ DOMAIN loggers' = 1 .. Len(loggers) + 1
      /\ loggers'[Len(loggers) + 1] = x
      /\ \A l \in DOMAIN loggers : loggers'[l] = loggers[l]
  BY <1>1, AppendSeq DEF Shape
<1>3. /\ call'[p] = Idle /\ Others(p) /\ call' = [q \in Procs |-> call'[q]]
  BY <1>1 DEF Shape, Others
<1>4. Shape'
  <2>1. CallRecord(Idle)
    BY DEF Idle, CallRecord
  <2>2. \A q \in Procs : CallRecord(call'[q])
    BY <1>3, <2>1 DEF Shape, Others
  <2> QED
    BY <1>1, <1>2, <1>3, <2>2 DEF Shape
<1>5. Named'
  BY <1>1 DEF Named
<1>6. Owned'
  <2>1. OfCall(c)
    BY <1>1 DEF OfCall, c
  <2>2. \A d \in Encoders : OfLogger(d)' \/ OfCall(d)' => OfLogger(d) \/ OfCall(d)
    <3> SUFFICES ASSUME NEW d \in Encoders, OfLogger(d)' \/ OfCall(d)'
                 PROVE  OfLogger(d) \/ OfCall(d)
      OBVIOUS
    <3>1. CASE OfLogger(d)'
      <4>1. PICK l \in DOMAIN loggers' : loggers'[l].enc = d
        BY <3>1 DEF OfLogger
      <4>2. CASE l \in DOMAIN loggers
        BY <1>2, <4>1, <4>2 DEF OfLogger
      <4>3. CASE l = Len(loggers) + 1
        BY <1>1, <1>2, <2>1, <4>1, <4>3
      <4> QED
        BY <1>2, <4>1, <4>2, <4>3
    <3>2. CASE OfCall(d)'
      <4>1. \A q \in Procs : Busy(q)' => Busy(q) /\ call'[q].enc = call[q].enc
        BY <1>3 DEF Busy, Others, Idle
      <4> QED
        BY <3>2, <4>1 DEF OfCall
    <3> QED
      BY <3>1, <3>2
  <2> QED
    BY <1>1, <2>2 DEF Owned
<1>7. Calls'
  <2> SUFFICES ASSUME NEW q \in Procs PROVE CallInv(q)'
    BY DEF Calls
  <2>1. CASE q = p
    BY <1>3, <2>1 DEF CallInv, Busy, Idle
  <2>2. CASE q # p
    <3>1. call'[q] = call[q] /\ free' = free
      BY <1>1, <1>3, <2>2 DEF Others
    <3>2. \A l \in DOMAIN loggers : l \in DOMAIN loggers' /\ loggers'[l].console = loggers[l].console
      BY <1>2
    <3> QED
      BY <3>1, <3>2 DEF Calls, CallInv, Busy
  <2> QED
    BY <2>1, <2>2
<1>8. Numbered'
  <2>1. /\ Withs' = Withs \ {p} /\ \A q \in Withs' : call'[q].enc = call[q].enc /\ q \in Withs
    BY <1>1, <1>3 DEF Withs, Others, Idle
  <2>2. Cardinality(Withs \ {p}) = Cardinality(Withs) - 1
    BY <1>1, WithsFinite, FS_RemoveElement
  <2>3. Taken' = Taken /\ Taken \in Nat
    <3> DEFINE j == Len(loggers)
               k == Cardinality(Withs)
    <3>1. Taken' = (j + 1) + (k - 1)
      <4>1. Len(loggers') = j + 1 /\ Cardinality(Withs)' = k - 1
        BY <1>2, <2>1, <2>2
      <4> QED
        BY <4>1 DEF Taken
    <3>2. Taken = j + k /\ j \in Nat /\ k \in Nat
      BY <1>2, WithsFinite DEF Taken
    <3> HIDE DEF j, k
    <3> QED
      BY <3>1, <3>2
  <2>4. c \in 1 .. Taken /\ \A l \in DOMAIN loggers : loggers[l].enc # c
    BY <1>1 DEF Numbered, c
  <2>5. \A q \in Withs' : call'[q].enc # c /\ call'[q].enc \in 1 .. Taken
    BY <1>1, <2>1 DEF Numbered, c
  <2>6. /\ \A l \in DOMAIN loggers' : loggers'[l].enc \in 1 .. Taken'
        /\ \A l, m \in DOMAIN loggers' : loggers'[l].enc = loggers'[m].enc => l = m
        /\ \A l \in DOMAIN loggers', q \in Withs' : loggers'[l].enc # call'[q].enc
    <3>1. \A l \in DOMAIN loggers' :
            \/ l \in DOMAIN loggers /\ loggers'[l].enc = loggers[l].enc
            \/ l = Len(loggers) + 1 /\ loggers'[l].enc = c
      BY <1>1, <1>2
    <3>2. \A l \in DOMAIN loggers' : loggers'[l].enc \in 1 .. Taken'
      BY <2>3, <2>4, <3>1 DEF Numbered
    <3>3. \A l, m \in DOMAIN loggers' : loggers'[l].enc = loggers'[m].enc => l = m
      BY <2>4, <3>1 DEF Numbered
    <3>4. \A l \in DOMAIN loggers', q \in Withs' : loggers'[l].enc # call'[q].enc
      BY <2>1, <2>5, <3>1 DEF Numbered
    <3> QED
      BY <3>2, <3>3, <3>4
  <2>7. Taken' <= MaxLoggers /\ Len(Roots) <= Len(loggers')
    <3>1. Len(Roots) \in Nat /\ MaxLoggers \in Nat
      OBVIOUS
    <3> QED
      BY <1>2, <2>3, <3>1 DEF Numbered
  <2>8. /\ \A q \in Withs' : call'[q].enc \in 1 .. Taken'
        /\ \A q, r \in Withs' : call'[q].enc = call'[r].enc => q = r
    BY <2>1, <2>3, <2>5 DEF Numbered
  <2> QED
    BY <2>6, <2>7, <2>8 DEF Numbered
<1>9. ContextKept
  BY <1>1 DEF ContextKept
<1> QED
  BY <1>4, <1>5, <1>6, <1>7, <1>8, <1>9

(* The end of an entry: the encoder of the goroutine goes to the pool, and *)
(* the buffers in G are freed, but the line is not.                        *)
Ends(p, G, r) ==
  /\ call[p].op = "entry"
  /\ G \subseteq {<<"buf", p>>, <<"reflect", p>>} /\ r.line \notin G
  /\ enc' = [enc EXCEPT ![p] = NewEncoder]
  /\ pool' = pool \cup {p} /\ free' = free \cup G
  /\ mem' = [b \in Buffers |-> mem'[b]]
  /\ \A b \in Buffers : b[2] # p => mem'[b] = mem[b]
  /\ call' = [call EXCEPT ![p] = r] /\ CallRecord(r) /\ r.op = "line"
  /\ r.line \in {<<"line", p>>, <<"buf", p>>} /\ r.line \notin free
  /\ UNCHANGED loggers

LEMMA EndsInv ==
  ASSUME Inv, NEW p \in Procs, NEW G, NEW r, Ends(p, G, r)
  PROVE  Inv' /\ Touches(p) /\ ContextKept
<1> USE DEF Inv, Ends
<1>1. /\ p \in Encoders /\ ~OfLogger(p) /\ <<"buf", p>> \in Buffers /\ <<"reflect", p>> \in Buffers
  BY Names, IndexFacts
<1>2. /\ enc' = [d \in Encoders |-> enc'[d]] /\ enc'[p] = NewEncoder
      /\ \A d \in Encoders : d # p => enc'[d] = enc[d]
  BY <1>1 DEF Shape
<1>3. /\ call'[p] = r /\ Others(p) /\ call' = [q \in Procs |-> call'[q]]
  BY DEF Shape, Others
<1>4. EncoderRecord(NewEncoder)
  BY DEF EncoderRecord, NewEncoder
<1>5. Shape'
  <2>1. \A d \in Encoders : EncoderRecord(enc'[d])
    BY <1>2, <1>4 DEF Shape
  <2>2. \A q \in Procs : CallRecord(call'[q])
    BY <1>3 DEF Shape, Others
  <2>3. pool' \subseteq Encoders /\ free' \subseteq Buffers
    BY <1>1 DEF Shape
  <2> QED
    BY <1>2, <1>3, <2>1, <2>2, <2>3 DEF Shape
<1>6. Named'
  BY <1>2 DEF Named, NewEncoder
<1>7. \A q \in Procs : Busy(q)' => q # p /\ Busy(q) /\ call'[q] = call[q]
  BY <1>3 DEF Busy, Others
<1>8. ~OfCall(p)' /\ \A d \in Encoders : OfLogger(d)' = OfLogger(d) /\ (OfCall(d)' => OfCall(d))
  <2>1. \A q \in Procs : q # p /\ Busy(q) => call[q].enc # p
    BY Names DEF Calls, CallInv, Busy
  <2> QED
    BY <1>7, <2>1 DEF OfCall, OfLogger
<1>9. Owned'
  <2> SUFFICES ASSUME NEW d \in Encoders, OfLogger(d)' \/ OfCall(d)'
               PROVE  /\ d \notin pool'
                      /\ enc'[d].buf = <<"buf", d>> /\ <<"buf", d>> \notin free'
                      /\ enc'[d].reflectBuf # NoBuffer => <<"reflect", d>> \notin free'
    BY DEF Owned
  <2>1. d # p /\ (OfLogger(d) \/ OfCall(d))
    BY <1>1, <1>8
  <2>2. <<"buf", d>> \notin G /\ <<"reflect", d>> \notin G
    BY <2>1
  <2> QED
    BY <1>2, <2>1, <2>2 DEF Owned
<1>10. Calls'
  <2> SUFFICES ASSUME NEW q \in Procs PROVE CallInv(q)'
    BY DEF Calls
  <2>1. CASE q = p
    <3>1. r.line \notin free'
      OBVIOUS
    <3> QED
      BY <1>3, <2>1, <3>1 DEF CallInv, Busy
  <2>2. CASE q # p
    <3>1. call'[q] = call[q]
      BY <1>3, <2>2 DEF Others
    <3>2. call[q].line # NoBuffer => call[q].line \in {<<"line", q>>, <<"buf", q>>}
      BY DEF Calls, CallInv
    <3>3. call[q].line # NoBuffer => call[q].line \notin free'
      <4>1. <<"line", q>> \notin G /\ <<"buf", q>> \notin G
        BY <2>2
      <4> QED
        BY <3>2, <4>1 DEF Calls, CallInv
    <3> QED
      BY <3>1, <3>3 DEF Calls, CallInv, Busy
  <2> QED
    BY <2>1, <2>2
<1>11. Numbered'
  <2>1. Withs' = Withs /\ \A q \in Withs : call'[q].enc = call[q].enc
    BY <1>3 DEF Withs, Others
  <2>2. Taken' = Taken
    BY <2>1 DEF Taken
  <2> QED
    BY <2>1, <2>2 DEF Numbered
<1>12. Touches(p)
  BY <1>1, <1>2 DEF Touches
<1> QED
  BY <1>1, <1>5, <1>6, <1>9, <1>10, <1>11, <1>12, TouchesKeeps

LEMMA EndEntryEnds ==
  ASSUME Inv, NEW p \in Procs, EndJSON(p) \/ EndConsole(p)
  PROVE  \E G, r : Ends(p, G, r)
<1> DEFINE b == <<"buf", p>>
<1>1. call[p].op = "entry" /\ Busy(p)
  BY DEF EndJSON, EndConsole, Busy
<1>2. /\ call[p].enc = p /\ enc[p].buf = b /\ enc[p].reflectBuf \in {NoBuffer, <<"reflect", p>>}
      /\ p \in Encoders /\ b \in Buffers /\ b # NoBuffer /\ <<"line", p>> \in Buffers
      /\ CallRecord(call[p])
      /\ loggers[call[p].logger].console => call[p].line = <<"line", p>> /\ call[p].line \notin free
      /\ b \notin free
  <2>1. /\ call[p].enc = p
        /\ loggers[call[p].logger].console => call[p].line = <<"line", p>>
        /\ call[p].line # NoBuffer => call[p].line \notin free
    BY <1>1 DEF Inv, Calls, CallInv
  <2>2. OfCall(p)
    BY <1>1, <2>1 DEF OfCall
  <2> QED
    BY <1>1, <2>1, <2>2, BusyFacts, Names DEF Inv, Owned
<1>3. CASE EndJSON(p)
  <2> DEFINE G == FreedBy(p)
             text == Append(LineJSON(p), "newline")
             m == [mem EXCEPT ![b] = text]
             r == [call[p] EXCEPT !.op = "line", !.line = b]
  <2>1. /\ mem' = Emptied(m, G) /\ free' = free \cup G
        /\ enc' = [enc EXCEPT ![p] = NewEncoder] /\ pool' = pool \cup {p}
        /\ call' = [call EXCEPT ![p].op = "line", ![p].line = b] /\ UNCHANGED loggers
    BY <1>2, <1>3 DEF EndJSON, Reset
  <2>2. call' = [call EXCEPT ![p] = r]
    BY <2>1 DEF Inv, Shape
  <2>3. G \subseteq {<<"reflect", p>>}
    BY <1>2 DEF FreedBy
  <2> HIDE DEF G, text
  <2>4. OnlyTheirs(m, p)
    BY <1>2, OnlyBuf
  <2> HIDE DEF m
  <2>5. /\ mem' = [c \in Buffers |-> mem'[c]]
        /\ \A c \in Buffers : c[2] # p => mem'[c] = mem[c]
    <3>1. \A c \in G : c[2] = p
      BY <2>3
    <3> QED
      BY <2>1, <2>4, <3>1 DEF Emptied, OnlyTheirs
  <2>6. CallRecord(r) /\ r.op = "line" /\ r.line = b
    <3> DEFINE s == call[p]
    <3>1. CallRecord(s) /\ r = [s EXCEPT !.op = "line", !.line = b]
      BY <1>2
    <3> HIDE DEF r, s, b
    <3> QED
      BY <3>1 DEF CallRecord
  <2> HIDE DEF r
  <2>7. G \subseteq {<<"buf", p>>, <<"reflect", p>>} /\ r.line \notin G
    BY <2>3, <2>6
  <2>8. Ends(p, G, r)
    BY <1>1, <1>2, <2>1, <2>2, <2>5, <2>6, <2>7 DEF Ends
  <2> QED
    BY <2>8
<1>4. CASE EndConsole(p)
  <2> DEFINE G == {enc[p].buf, enc[p].reflectBuf} \ {NoBuffer}
             line == <<"line", p>>
             r == [call[p] EXCEPT !.op = "line"]
  <2>1. call[p].line = line /\ line \notin free
    BY <1>2, <1>4 DEF EndConsole
  <2>2. /\ \E t : mem' = Emptied([mem EXCEPT ![line] = t], G)
        /\ free' = free \cup G
        /\ enc' = [enc EXCEPT ![p] = NewEncoder] /\ pool' = pool \cup {p}
        /\ call' = [call EXCEPT ![p].op = "line"] /\ UNCHANGED loggers
    BY <1>2, <1>4, <2>1 DEF EndConsole
  <2>3. call' = [call EXCEPT ![p] = r]
    BY <2>2 DEF Inv, Shape
  <2>4. G \subseteq {<<"buf", p>>, <<"reflect", p>>}
    BY <1>2
  <2> HIDE DEF G
  <2>5. /\ mem' = [c \in Buffers |-> mem'[c]]
        /\ \A c \in Buffers : c[2] # p => mem'[c] = mem[c]
    <3>1. PICK t : mem' = Emptied([mem EXCEPT ![line] = t], G)
      BY <2>2
    <3>2. \A c \in Buffers : c[2] # p => [mem EXCEPT ![line] = t][c] = mem[c]
      BY DEF Inv, Shape
    <3>3. \A c \in G : c[2] = p
      BY <2>4
    <3> DEFINE m == [mem EXCEPT ![line] = t]
    <3>4. mem' = Emptied(m, G) /\ \A c \in Buffers : c[2] # p => m[c] = mem[c]
      BY <3>1, <3>2
    <3> HIDE DEF m
    <3> QED
      BY <3>3, <3>4 DEF Emptied
  <2>6. CallRecord(r) /\ r.op = "line" /\ r.line = line
    BY <1>2, <2>1 DEF CallRecord
  <2> HIDE DEF r
  <2>7. r.line \notin G
    BY <2>4, <2>6
  <2>8. Ends(p, G, r)
    BY <1>1, <1>2, <2>1, <2>2, <2>3, <2>4, <2>5, <2>6, <2>7 DEF Ends
  <2> QED
    BY <2>8
<1> QED
  BY <1>3, <1>4

(* The goroutine of a line has no encoder. *)
LEMMA LineFacts ==
  ASSUME Inv, NEW p \in Procs
  PROVE  /\ call[p].line # NoBuffer =>
               /\ call[p].line \in {<<"line", p>>, <<"buf", p>>} /\ call[p].line \notin free
               /\ call[p].op \in {"entry", "line"}
         /\ call[p].op = "line" => ~OfLogger(p) /\ ~OfCall(p) /\ call[p].line # NoBuffer
         /\ call[p].op = "entry" => call[p].line \in {NoBuffer, <<"line", p>>}
<1>1. CallInv(p)
  BY DEF Inv, Calls
<1>2. ASSUME call[p].op = "line" PROVE ~OfLogger(p) /\ ~OfCall(p) /\ call[p].line # NoBuffer
  <2>1. \A q \in Procs : Busy(q) => call[q].enc # p
    BY <1>2, Names DEF Inv, Calls, CallInv, Busy
  <2> QED
    BY <1>1, <1>2, <2>1, IndexFacts, Names DEF OfCall, CallInv
<1> QED
  BY <1>1, <1>2 DEF CallInv

LEMMA WriteLineInv ==
  ASSUME Inv, NEW p \in Procs, WriteLine(p)
  PROVE  Inv' /\ Touches(p) /\ ContextKept
<1> USE DEF Inv
<1> DEFINE b == call[p].line
<1>1. /\ call[p].op = "line" /\ free' = free \cup {b} /\ mem' = Emptied(mem, {b})
      /\ call' = [call EXCEPT ![p] = Idle] /\ UNCHANGED <<enc, pool, loggers>>
  BY DEF WriteLine
<1>2. /\ b \in {<<"line", p>>, <<"buf", p>>} /\ ~OfLogger(p) /\ ~OfCall(p)
      /\ p \in Encoders /\ b \in Buffers
  BY <1>1, LineFacts, Names
<1> HIDE DEF b
<1>3. /\ call'[p] = Idle /\ Others(p) /\ call' = [q \in Procs |-> call'[q]]
  BY <1>1 DEF Shape, Others
<1>4. /\ mem' = [c \in Buffers |-> mem'[c]]
      /\ \A c \in Buffers : c[2] # p => mem'[c] = mem[c]
  <2>1. \A c \in {b} : c[2] = p
    BY <1>2
  <2> QED
    BY <1>1, <2>1 DEF Emptied
<1>5. Shape'
  <2>1. CallRecord(Idle)
    BY DEF Idle, CallRecord
  <2>2. \A q \in Procs : CallRecord(call'[q])
    BY <1>3, <2>1 DEF Shape, Others
  <2>3. free' \subseteq Buffers
    BY <1>1, <1>2 DEF Shape
  <2> QED
    BY <1>1, <1>3, <1>4, <2>2, <2>3 DEF Shape
<1>6. Named'
  BY <1>1 DEF Named
<1>7. \A q \in Procs : Busy(q)' => q # p /\ Busy(q) /\ call'[q] = call[q]
  BY <1>3 DEF Busy, Others, Idle
<1>8. \A d \in Encoders : OfLogger(d)' = OfLogger(d) /\ (OfCall(d)' => OfCall(d))
  BY <1>1, <1>7 DEF OfCall, OfLogger
<1>9. Owned'
  <2> SUFFICES ASSUME NEW d \in Encoders, OfLogger(d)' \/ OfCall(d)'
               PROVE  /\ d \notin pool'
                      /\ enc'[d].buf = <<"buf", d>> /\ <<"buf", d>> \notin free'
                      /\ enc'[d].reflectBuf # NoBuffer => <<"reflect", d>> \notin free'
    BY DEF Owned
  <2>1. d # p /\ (OfLogger(d) \/ OfCall(d))
    BY <1>2, <1>8
  <2>2. <<"buf", d>> # b /\ <<"reflect", d>> # b
    BY <1>2, <2>1
  <2> QED
    BY <1>1, <2>1, <2>2 DEF Owned
<1>10. Calls'
  <2> SUFFICES ASSUME NEW q \in Procs PROVE CallInv(q)'
    BY DEF Calls
  <2>1. CASE q = p
    BY <1>3, <2>1 DEF CallInv, Busy, Idle
  <2>2. CASE q # p
    <3>1. call'[q] = call[q]
      BY <1>3, <2>2 DEF Others
    <3>2. call[q].line # NoBuffer => call[q].line \notin free'
      <4>1. <<"line", q>> # b /\ <<"buf", q>> # b
        BY <1>2, <2>2
      <4> QED
        BY <1>1, <4>1, LineFacts
    <3> QED
      BY <1>1, <3>1, <3>2 DEF Calls, CallInv, Busy
  <2> QED
    BY <2>1, <2>2
<1>11. Numbered'
  <2>1. Withs' = Withs /\ \A q \in Withs : call'[q].enc = call[q].enc
    BY <1>1, <1>3 DEF Withs, Others, Idle
  <2>2. Taken' = Taken
    BY <1>1, <2>1 DEF Taken
  <2> QED
    BY <1>1, <2>1, <2>2 DEF Numbered
<1>12. Touches(p)
  BY <1>1, <1>2, <1>4 DEF Touches
<1> QED
  BY <1>2, <1>5, <1>6, <1>9, <1>10, <1>11, <1>12, TouchesKeeps

-----------------------------------------------------------------------------
(* Every step preserves the invariant and keeps the fields of loggers.     *)
Method(p) ==
  \E k \in Labels(p) :
    \/ \E s \in Strings : AddString(p, k, s)
    \/ \E finite \in BOOLEAN : AddFloat(p, k, finite)
    \/ AddNumber(p, k) \/ AddDuration(p, k) \/ AddTime(p, k)
    \/ AddReflected(p, k) \/ OpenNamespace(p, k)
    \/ \E what \in {Object, Array} : BeginMarshal(p, k, what)

LEMMA MethodWorks ==
  ASSUME Inv, NEW p \in Procs, Busy(p),
         Method(p) \/ \E failed \in BOOLEAN : EndMarshal(p, failed)
  PROVE  Works(p, call[p].enc)
<1>1. CASE Method(p)
  <2>1. PICK k \in Labels(p) :
          \/ \E s \in Strings : AddString(p, k, s)
          \/ \E finite \in BOOLEAN : AddFloat(p, k, finite)
          \/ AddNumber(p, k) \/ AddDuration(p, k) \/ AddTime(p, k)
          \/ AddReflected(p, k) \/ OpenNamespace(p, k)
          \/ \E what \in {Object, Array} : BeginMarshal(p, k, what)
    BY <1>1 DEF Method
  <2>2. ASSUME NEW s \in Strings, AddString(p, k, s) PROVE Works(p, call[p].enc)
    BY <2>2, AddValueWorks DEF AddString
  <2>3. ASSUME NEW finite \in BOOLEAN, AddFloat(p, k, finite) PROVE Works(p, call[p].enc)
    BY <2>3, AddValueWorks DEF AddFloat
  <2>4. CASE AddNumber(p, k)
    BY <2>4, AddValueWorks DEF AddNumber
  <2>5. CASE AddDuration(p, k)
    BY <2>5, AddValueWorks DEF AddDuration
  <2>6. CASE AddTime(p, k)
    BY <2>6, AddTimeWorks
  <2>7. CASE AddReflected(p, k)
    BY <2>7, AddReflectedWorks
  <2>8. CASE OpenNamespace(p, k)
    BY <2>8, OpenNamespaceWorks
  <2>9. ASSUME NEW what \in {Object, Array}, BeginMarshal(p, k, what)
        PROVE  Works(p, call[p].enc)
    BY <2>9, BeginMarshalWorks
  <2> QED
    BY <2>1, <2>2, <2>3, <2>4, <2>5, <2>6, <2>7, <2>8, <2>9
<1>2. ASSUME NEW failed \in BOOLEAN, EndMarshal(p, failed) PROVE Works(p, call[p].enc)
  BY <1>2, EndMarshalWorks
<1> QED
  BY <1>1, <1>2

LEMMA StepInv == Inv /\ [Next]_vars => Inv' /\ ContextKept
<1> SUFFICES ASSUME Inv, [Next]_vars PROVE Inv' /\ ContextKept
  OBVIOUS
<1>1. ASSUME NEW p \in Procs, Busy(p),
             Method(p) \/ \E failed \in BOOLEAN : EndMarshal(p, failed)
      PROVE  Inv' /\ ContextKept
  <2>1. Works(p, call[p].enc) /\ call[p].enc \in Encoders
    BY <1>1, MethodWorks, BusyFacts
  <2>2. Touches(call[p].enc)
    BY <2>1 DEF Works
  <2> QED
    BY <2>1, <2>2, WorksInv, TouchesKeeps
<1>2. CASE UNCHANGED vars
  <2>1. ContextKept
    BY <1>2 DEF ContextKept, vars
  <2>2. Shape' /\ Named'
    BY <1>2 DEF Inv, vars, Shape, Named
  <2>3. Owned'
    BY <1>2 DEF Inv, vars, Owned, OfLogger, OfCall, Busy
  <2>4. Numbered'
    BY <1>2 DEF Inv, vars, Numbered, Taken, Withs
  <2>5. Calls'
    BY <1>2 DEF Inv, vars, Calls, CallInv, Busy
  <2> QED
    BY <2>1, <2>2, <2>3, <2>4, <2>5 DEF Inv
<1>3. CASE Next
  <2>1. PICK p \in Procs :
          \/ \E l \in DOMAIN loggers :
               BeginWith(p, l) \/ \E entry \in Entries : BeginJSON(p, l, entry)
                                                      \/ BeginConsole(p, l, entry)
          \/ Busy(p) /\ Method(p)
          \/ \E failed \in BOOLEAN : EndMarshal(p, failed)
          \/ EndWith(p) \/ EndJSON(p) \/ EndConsole(p) \/ WriteLine(p)
    BY <1>3 DEF Next, WithinBounds, Method
  <2>2. ASSUME NEW l \in DOMAIN loggers, BeginWith(p, l) PROVE Inv' /\ ContextKept
    BY <2>2, BeginInv
  <2>3. ASSUME NEW l \in DOMAIN loggers, NEW entry \in Entries,
               BeginJSON(p, l, entry) \/ BeginConsole(p, l, entry)
        PROVE  Inv' /\ ContextKept
    BY <2>3, BeginInv
  <2>4. CASE Busy(p) /\ Method(p)
    BY <1>1, <2>4
  <2>5. ASSUME NEW failed \in BOOLEAN, EndMarshal(p, failed) PROVE Inv' /\ ContextKept
    <3>1. Busy(p)
      BY <2>5 DEF EndMarshal
    <3> QED
      BY <1>1, <2>5, <3>1
  <2>6. CASE EndWith(p)
    BY <2>6, EndWithInv
  <2>7. CASE EndJSON(p) \/ EndConsole(p)
    BY <2>7, EndEntryEnds, EndsInv
  <2>8. CASE WriteLine(p)
    BY <2>8, WriteLineInv
  <2> QED
    BY <2>1, <2>2, <2>3, <2>4, <2>5, <2>6, <2>7, <2>8
<1> QED
  BY <1>2, <1>3

LEMMA Invariant == Spec => []Inv
<1>1. Inv /\ [Next]_vars => Inv'
  BY StepInv
<1> QED
  BY InitInv, <1>1, PTL DEF Spec

-----------------------------------------------------------------------------
(* Encoders have the buffers they should, the loggers are as many as they  *)
(* may be, and a goroutine writes to an object before anything in it.      *)
LEMMA InvType == Inv => TypeOK
<1> SUFFICES ASSUME Inv PROVE TypeOK
  OBVIOUS
<1>1. pool \subseteq Encoders /\ free \subseteq Buffers
  BY DEF Inv, Shape
<1>2. ASSUME NEW e \in Encoders
      PROVE  /\ enc[e].buf \in Buffers \cup {NoBuffer}
             /\ enc[e].reflectBuf \in Buffers \cup {NoBuffer}
             /\ enc[e].openNamespaces \in Nat
  BY <1>2, Names DEF Inv, Named
<1>3. Len(loggers) \in Len(Roots) .. MaxLoggers
  <2> DEFINE i == Len(loggers)
             j == Cardinality(Withs)
             r == Len(Roots)
  <2>1. i \in Nat /\ j \in Nat /\ r \in Nat /\ i + j <= MaxLoggers /\ r <= i
    BY IndexFacts, WithsFinite DEF Inv, Numbered, Taken
  <2> HIDE DEF i, j, r
  <2>2. i \in r .. MaxLoggers
    BY <2>1
  <2> QED
    BY <2>2 DEF i, r
<1>4. ASSUME NEW p \in Procs, Busy(p) PROVE Head(call[p].open).what = Object
  <2>1. OpenOK(call[p].open)
    BY <1>4, BusyFacts
  <2>2. PICK S : call[p].open \in Seq(S)
    BY <2>1 DEF OpenOK, IsASeq
  <2>3. Head(call[p].open) = call[p].open[1]
    BY <2>1, <2>2 DEF OpenOK
  <2> QED
    BY <2>1, <2>3 DEF OpenOK
<1>5. \A e \in pool : enc[e] = NewEncoder
  BY <1>1 DEF Inv, Named
<1> QED
  BY <1>1, <1>2, <1>3, <1>4, <1>5 DEF TypeOK

(* What is in use, and by whom. *)
LEMMA UserFacts ==
  ASSUME Inv, NEW u \in Users
  PROVE  /\ EncoderOf(u) \in Encoders
         /\ OfLogger(EncoderOf(u)) \/ OfCall(EncoderOf(u))
<1>1. CASE \E l \in DOMAIN loggers : u = <<"logger", l>>
  BY <1>1, IndexFacts DEF EncoderOf, OfLogger
<1>2. CASE \E p \in Procs : Busy(p) /\ u = <<"call", p>>
  <2>1. PICK p \in Procs : Busy(p) /\ u = <<"call", p>>
    BY <1>2
  <2>2. EncoderOf(u) = call[p].enc
    BY <2>1 DEF EncoderOf
  <2> QED
    BY <2>1, <2>2, BusyFacts
<1> QED
  BY <1>1, <1>2 DEF Users

LEMMA OneUser ==
  ASSUME Inv, NEW u \in Users, NEW w \in Users, EncoderOf(u) = EncoderOf(w)
  PROVE  u = w
<1>1. \A x \in Users : \/ \E l \in DOMAIN loggers : x = <<"logger", l>> /\ EncoderOf(x) = loggers[l].enc
                       \/ \E p \in Procs : /\ Busy(p) /\ x = <<"call", p>>
                                            /\ EncoderOf(x) = call[p].enc
  BY DEF Users, EncoderOf
<1>2. \A l, m \in DOMAIN loggers : loggers[l].enc = loggers[m].enc => l = m
  BY DEF Inv, Numbered
<1>3. \A l \in DOMAIN loggers, p \in Procs : Busy(p) => loggers[l].enc # call[p].enc
  <2> SUFFICES ASSUME NEW l \in DOMAIN loggers, NEW p \in Procs, Busy(p)
               PROVE  loggers[l].enc # call[p].enc
    OBVIOUS
  <2>1. ~OfLogger(call[p].enc)
    BY BusyFacts
  <2> QED
    BY <2>1 DEF OfLogger
<1>4. \A p, q \in Procs : Busy(p) /\ Busy(q) /\ call[p].enc = call[q].enc => p = q
  <2> SUFFICES ASSUME NEW p \in Procs, NEW q \in Procs, Busy(p), Busy(q),
                      call[p].enc = call[q].enc
               PROVE  p = q
    OBVIOUS
  <2>1. CallInv(p) /\ CallInv(q)
    BY DEF Inv, Calls
  <2>2. CASE call[p].op = "with" /\ call[q].op = "with"
    BY <2>2 DEF Inv, Numbered, Withs
  <2>3. CASE call[p].op = "entry" \/ call[q].op = "entry"
    BY <2>1, <2>3, Names DEF CallInv, Busy
  <2> QED
    BY <2>2, <2>3 DEF Busy
<1> QED
  BY <1>1, <1>2, <1>3, <1>4

(* A use names its user's buffer. *)
LEMMA UseFacts ==
  ASSUME Inv, NEW a \in Uses
  PROVE  \/ \E u \in Users : a = <<u, "buf", <<"buf", EncoderOf(u)>>>>
         \/ \E u \in Users : a = <<u, "reflect", <<"reflect", EncoderOf(u)>>>>
                            /\ enc[EncoderOf(u)].reflectBuf # NoBuffer
         \/ \E p \in Procs : /\ a = <<<<"call", p>>, "line", call[p].line>>
                              /\ call[p].line # NoBuffer
<1>1. \A u \in Users : enc[EncoderOf(u)].buf = <<"buf", EncoderOf(u)>>
  BY UserFacts DEF Inv, Owned
<1>2. \A u \in Users : enc[EncoderOf(u)].reflectBuf \in {NoBuffer, <<"reflect", EncoderOf(u)>>}
  BY UserFacts DEF Inv, Named
<1> QED
  BY <1>1, <1>2 DEF Uses

LEMMA InvExclusive == Inv => Exclusive
<1> SUFFICES ASSUME Inv PROVE Exclusive
  OBVIOUS
<1>1. \A u \in Users : EncoderOf(u) \notin pool
  BY UserFacts DEF Inv, Owned
<1>2. ASSUME NEW a \in Uses PROVE a[3] \notin free
  <2>1. ASSUME NEW u \in Users
        PROVE  /\ <<"buf", EncoderOf(u)>> \notin free
               /\ enc[EncoderOf(u)].reflectBuf # NoBuffer => <<"reflect", EncoderOf(u)>> \notin free
    BY <2>1, UserFacts DEF Inv, Owned
  <2>2. \A p \in Procs : call[p].line # NoBuffer => call[p].line \notin free
    BY LineFacts
  <2>3. CASE \E u \in Users : a = <<u, "buf", <<"buf", EncoderOf(u)>>>>
    <3>1. PICK u \in Users : a = <<u, "buf", <<"buf", EncoderOf(u)>>>>
      BY <2>3
    <3> DEFINE c == <<"buf", EncoderOf(u)>>
    <3>2. c \notin free /\ a = <<u, "buf", c>>
      BY <2>1, <3>1
    <3> HIDE DEF c
    <3> QED
      BY <3>2
  <2>4. CASE \E u \in Users : a = <<u, "reflect", <<"reflect", EncoderOf(u)>>>>
                            /\ enc[EncoderOf(u)].reflectBuf # NoBuffer
    <3>1. PICK u \in Users : /\ a = <<u, "reflect", <<"reflect", EncoderOf(u)>>>>
                             /\ enc[EncoderOf(u)].reflectBuf # NoBuffer
      BY <2>4
    <3> DEFINE c == <<"reflect", EncoderOf(u)>>
    <3>2. c \notin free /\ a = <<u, "reflect", c>>
      BY <2>1, <3>1
    <3> HIDE DEF c
    <3> QED
      BY <3>2
  <2>5. CASE \E p \in Procs : /\ a = <<<<"call", p>>, "line", call[p].line>>
                              /\ call[p].line # NoBuffer
    BY <2>2, <2>5
  <2> QED
    BY <2>3, <2>4, <2>5, UseFacts
<1>3. ASSUME NEW a \in Uses, NEW b \in Uses, a[3] = b[3] PROVE a = b
  <2>1. \A u \in Users, p \in Procs : call[p].line # NoBuffer =>
          /\ call[p].line # <<"buf", EncoderOf(u)>> /\ call[p].line # <<"reflect", EncoderOf(u)>>
    <3> SUFFICES ASSUME NEW u \in Users, NEW p \in Procs, call[p].line # NoBuffer,
                        call[p].line = <<"buf", EncoderOf(u)>>
                 PROVE  FALSE
      BY LineFacts
    <3> DEFINE e == EncoderOf(u)
    <3>1. OfLogger(e) \/ OfCall(e)
      BY UserFacts
    <3>2. call[p].line = <<"buf", e>>
      OBVIOUS
    <3> HIDE DEF e
    <3>3. call[p].op \in {"entry", "line"} /\ call[p].line \in {<<"line", p>>, <<"buf", p>>}
      BY LineFacts
    <3>4. e = p /\ <<"buf", p>> # <<"line", p>>
      BY <3>2, <3>3
    <3>5. call[p].op = "line"
      BY <3>2, <3>3, <3>4, LineFacts
    <3> QED
      BY <3>1, <3>4, <3>5, LineFacts
  <2>2. \A p, q \in Procs : call[p].line # NoBuffer /\ call[p].line = call[q].line => p = q
    BY LineFacts
  <2>3. \A u, w \in Users : EncoderOf(u) = EncoderOf(w) => u = w
    BY OneUser
  <2>4. CASE \E u \in Users : a = <<u, "buf", <<"buf", EncoderOf(u)>>>>
    BY <1>3, <2>1, <2>3, <2>4, UseFacts
  <2>5. CASE \E u \in Users : a = <<u, "reflect", <<"reflect", EncoderOf(u)>>>>
    <3>1. PICK u \in Users : a = <<u, "reflect", <<"reflect", EncoderOf(u)>>>>
      BY <2>5
    <3>2. CASE \E w \in Users : b = <<w, "buf", <<"buf", EncoderOf(w)>>>>
      BY <1>3, <3>1, <3>2
    <3>3. CASE \E w \in Users : b = <<w, "reflect", <<"reflect", EncoderOf(w)>>>>
      BY <1>3, <2>3, <3>1, <3>3
    <3>4. CASE \E p \in Procs : /\ b = <<<<"call", p>>, "line", call[p].line>>
                                /\ call[p].line # NoBuffer
      BY <1>3, <2>1, <3>1, <3>4
    <3> QED
      BY <3>2, <3>3, <3>4, UseFacts
  <2>6. CASE \E p \in Procs : /\ a = <<<<"call", p>>, "line", call[p].line>>
                              /\ call[p].line # NoBuffer
    <3>1. PICK p \in Procs : /\ a = <<<<"call", p>>, "line", call[p].line>>
                             /\ call[p].line # NoBuffer
      BY <2>6
    <3>2. a[3] = call[p].line
      BY <3>1
    <3>3. ~ \E w \in Users : b = <<w, "buf", <<"buf", EncoderOf(w)>>>>
      BY <1>3, <2>1, <3>1, <3>2
    <3>4. ~ \E w \in Users : b = <<w, "reflect", <<"reflect", EncoderOf(w)>>>>
      BY <1>3, <2>1, <3>1, <3>2
    <3>5. PICK q \in Procs : /\ b = <<<<"call", q>>, "line", call[q].line>>
                             /\ call[q].line # NoBuffer
      BY <3>3, <3>4, UseFacts
    <3>6. b[3] = call[q].line
      BY <3>5
    <3>7. p = q
      BY <1>3, <2>2, <3>1, <3>2, <3>6
    <3> QED
      BY <3>1, <3>5, <3>7
  <2> QED
    BY <2>4, <2>5, <2>6, UseFacts
<1>4. \A u, w \in Users : EncoderOf(u) = EncoderOf(w) => u = w
  BY OneUser
<1> QED
  BY <1>1, <1>2, <1>3, <1>4 DEF Exclusive

(* Encoders have buffers and buffers have a place, whatever is logged: an  *)
(* encoder has none but its own.                                           *)
THEOREM TypeCorrect == Spec => []TypeOK
BY Invariant, InvType, PTL

(* No encoder and no buffer has two users or is pooled while it is used,   *)
(* whatever the goroutines log through the loggers they share, and however *)
(* the calls of their fields' methods interleave: putJSONEncoder,          *)
(* writeContext and zap's core give back what nobody else has.             *)
THEOREM BuffersHaveOneUser == Spec => []Exclusive
BY Invariant, InvExclusive, PTL

(* Nothing that is logged, and no logger made with With, changes what the  *)
(* loggers there are have in their encoders.                               *)
THEOREM ContextsAreKept == Spec => ContextsKept
<1>1. Inv /\ [Next]_vars =>
        [\A l \in DOMAIN loggers :
           LET e == loggers[l].enc
           IN  enc'[e] = enc[e] /\ mem'[enc[e].buf] = mem[enc[e].buf]]_vars
  BY StepInv DEF ContextKept
<1> QED
  BY Invariant, <1>1, PTL DEF Spec, ContextsKept
-----------------------------------------------------------------------------
(* What the texts in the buffers say. *)

HIDE EncoderAssumption

(* Times and durations are one value, but for the times of the console,    *)
(* which are plain.                                                        *)
Fine(config, console) ==
  /\ config.time \in Seq(Seq(STRING)) /\ config.duration \in Seq(Seq(STRING))
  /\ Len(config.duration) <= 1
  /\ ~console => Len(config.time) <= 1
  /\ console => \A j \in 1 .. Len(config.time) : Plain(config.time[j])

(* A logger: the text of its encoder says what was meant, wherever in an   *)
(* object it is put.  This is what makes it possible to put it into many   *)
(* lines.                                                                  *)
LoggerFits(g, r, t) ==
  /\ Fine(r.config, g.console)
  /\ ~g.nested /\ ~g.timed =>
       ContextSays(t, r.openNamespaces, <<[what |-> Object, path |-> g.path]>>, g.meant)
LoggerOK(l) ==
  LoggerFits(loggers[l], enc[loggers[l].enc], mem[<<"buf", loggers[l].enc>>])

(* A goroutine with fields in hand: after what is read before its text, if *)
(* that is the begin of a line or of an object, the text says what was     *)
(* meant so far.                                                           *)
From(c, g, f, r, base) ==
  IF c.op = "entry" /\ ~g.console
  THEN r = Start /\ base = Begun \o MeantHeader(f, c.entry)
  ELSE InObject(r, base)
BusyFits(c, g, f, r, t) ==
  /\ r.config = f
  /\ ~c.nested /\ ~c.timed =>
       \A s, base : From(c, g, f, s, base) =>
         TextSays(s, base, t, r.openNamespaces, c.open, c.meant)

(* A line, as LinesSayWhatWasMeant has it. *)
LineSays(c, g, f, line) ==
  (~g.console \/ c.meant # <<>>) /\ ~c.timed /\ ~c.nested =>
    IF g.console THEN ContextReads(ConsolePart(line), c.meant)
    ELSE ContextReads(Front(line),
           MeantHeader(f, c.entry) \o c.meant \o MeantMeta(f, c.entry, "stack"))

(* What a goroutine has in hand, in each of its states. *)
CallFits(c, g, f, r, t, h, line) ==
  /\ c.op \in {"with", "entry"} => BusyFits(c, g, f, r, t)
  /\ c.op = "entry" /\ g.console => Plain(h)
  /\ c.op = "line" => LineSays(c, g, f, line)
CallOK(p) ==
  /\ call[p].op # "idle" => call[p].logger \in DOMAIN loggers
  /\ CallFits(call[p], loggers[call[p].logger],
              enc[loggers[call[p].logger].enc].config, enc[call[p].enc],
              mem[<<"buf", call[p].enc>>], mem[<<"line", p>>], mem[call[p].line])

(* The invariant: Inv, whose buffers nobody shares, and what the texts in  *)
(* the buffers say.  It is with Inv that a step of one goroutine leaves    *)
(* the texts of all others alone.                                          *)
LInv == Inv /\ (\A l \in DOMAIN loggers : LoggerOK(l)) /\ (\A p \in Procs : CallOK(p))

(* A step of p that writes to e only, which nobody else has. *)
Apart(p, e) ==
  /\ Others(p) /\ Touches(e)
  /\ \A q \in Procs : q # p => q # e /\ (Busy(q) => call[q].enc # e)
  /\ \A l \in DOMAIN loggers : l \in DOMAIN loggers' /\ loggers'[l] = loggers[l]

(* It leaves the texts of loggers and of other goroutines as they were. *)
LEMMA ApartLogger ==
  ASSUME Inv, NEW p \in Procs, NEW e \in Encoders, Apart(p, e),
         NEW l \in DOMAIN loggers, LoggerOK(l)
  PROVE  LoggerOK(l)' /\ enc'[loggers[l].enc] = enc[loggers[l].enc]
<1> DEFINE d == loggers[l].enc
<1>1. d \in Encoders /\ d # e /\ loggers'[l] = loggers[l]
  BY IndexFacts DEF Apart, Touches, OfLogger
<1>2. <<"buf", d>> \in Buffers
  BY <1>1, Names
<1>3. enc'[d] = enc[d] /\ mem'[<<"buf", d>>] = mem[<<"buf", d>>]
  BY <1>1, <1>2 DEF Apart, Touches
<1> QED
  BY <1>1, <1>3 DEF LoggerOK

LEMMA ApartCall ==
  ASSUME Inv, NEW p \in Procs, NEW e \in Encoders, Apart(p, e),
         \A l \in DOMAIN loggers : enc'[loggers[l].enc] = enc[loggers[l].enc],
         NEW q \in Procs, q # p, CallOK(q)
  PROVE  CallOK(q)'
<1> DEFINE c == call[q]
           l == call[q].logger
<1>1. call'[q] = c /\ q # e
  BY DEF Apart, Others
<1>2. CASE c.op = "idle"
  BY <1>1, <1>2 DEF CallOK, CallFits
<1>3. CASE c.op # "idle"
  <2>1. l \in DOMAIN loggers
    BY <1>3 DEF CallOK
  <2>2. l \in DOMAIN loggers' /\ loggers'[l] = loggers[l] /\ enc'[loggers[l].enc] = enc[loggers[l].enc]
    BY <2>1 DEF Apart
  <2>3. mem'[<<"line", q>>] = mem[<<"line", q>>]
    <3>1. <<"line", q>> \in Buffers /\ <<"line", q>>[2] = q
      BY Names
    <3> QED
      BY <1>1, <3>1 DEF Apart, Touches
  <2>4. c.op \in {"with", "entry"} =>
          enc'[c.enc] = enc[c.enc] /\ mem'[<<"buf", c.enc>>] = mem[<<"buf", c.enc>>]
    <3> SUFFICES ASSUME Busy(q)
                 PROVE  enc'[c.enc] = enc[c.enc] /\ mem'[<<"buf", c.enc>>] = mem[<<"buf", c.enc>>]
      BY DEF Busy
    <3>1. c.enc \in Encoders /\ <<"buf", c.enc>> \in Buffers
      BY BusyFacts, Names
    <3> QED
      BY <3>1 DEF Apart, Touches
  <2>5. c.op = "line" => mem'[c.line] = mem[c.line]
    <3> SUFFICES ASSUME c.op = "line" PROVE mem'[c.line] = mem[c.line]
      OBVIOUS
    <3>1. c.line \in {<<"line", q>>, <<"buf", q>>}
      BY LineFacts
    <3>2. <<"line", q>> \in Buffers /\ <<"buf", q>> \in Buffers
      BY Names
    <3>3. \A b \in {<<"line", q>>, <<"buf", q>>} : b \in Buffers /\ b[2] = q
      BY <3>2
    <3> HIDE DEF c
    <3>4. c.line \in Buffers /\ c.line[2] = q
      BY <3>1, <3>3
    <3> QED
      BY <1>1, <3>4 DEF Apart, Touches
  <2> QED
    BY <1>1, <2>1, <2>2, <2>3, <2>4, <2>5 DEF CallOK, CallFits
<1> QED
  BY <1>2, <1>3

(* A method of the encoder is such a step. *)
LEMMA WorksApart ==
  ASSUME Inv, NEW p \in Procs, NEW e \in Encoders, Works(p, e)
  PROVE  Apart(p, e)
<1> SUFFICES ASSUME NEW q \in Procs, q # p PROVE q # e /\ (Busy(q) => call[q].enc # e)
  BY DEF Works, Apart
<1>1. CallInv(p) /\ CallInv(q)
  BY DEF Inv, Calls
<1>2. q # e
  BY <1>1, Names DEF Works, CallInv, Busy
<1>3. ASSUME Busy(q) PROVE call[q].enc # e
  <2>1. CASE call[p].op = "with" /\ call[q].op = "with"
    BY <2>1 DEF Works, Inv, Numbered, Withs
  <2>2. CASE call[p].op = "entry" \/ call[q].op = "entry"
    BY <1>1, <1>3, <2>2, Names DEF CallInv, Busy, Works
  <2> QED
    BY <1>3, <2>1, <2>2 DEF Busy, Works
<1> QED
  BY <1>2, <1>3

(* A method that leaves the text t behind, with n namespaces and the       *)
(* frames open, says meant if the text said what was meant before.         *)
Appends(p, t, n, open, meant) ==
  \A r, base :
    TextSays(r, base, mem[<<"buf", call[p].enc>>], enc[call[p].enc].openNamespaces,
             call[p].open, call[p].meant)
      => TextSays(r, base, t, n, open, meant)

(* A method that appends what it should keeps the invariant. *)
LEMMA WorksOK ==
  ASSUME LInv, NEW p \in Procs, NEW e, e = call[p].enc, Works(p, e),
         enc'[e].config = enc[e].config, call'[p].entry = call[p].entry,
         mem'[<<"line", p>>] = mem[<<"line", p>>],
         ~call'[p].nested /\ ~call'[p].timed =>
           /\ ~call[p].nested /\ ~call[p].timed
           /\ Appends(p, mem'[<<"buf", e>>], enc'[e].openNamespaces,
                      call'[p].open, call'[p].meant)
  PROVE  LInv'
<1> DEFINE c == call[p]
           g == loggers[c.logger]
           d == call'[p]
<1>1. Inv /\ e \in Encoders /\ Busy(p) /\ loggers' = loggers
  BY BusyFacts DEF LInv, Works
<1>2. Inv' /\ Apart(p, e)
  BY <1>1, WorksInv, WorksApart
<1>3. \A l \in DOMAIN loggers :
        LoggerOK(l)' /\ enc'[loggers[l].enc] = enc[loggers[l].enc]
  BY <1>1, <1>2, ApartLogger DEF LInv
<1>4. \A q \in Procs : q # p => CallOK(q)'
  BY <1>1, <1>2, <1>3, ApartCall DEF LInv
<1>5. /\ c.logger \in DOMAIN loggers /\ c.op \in {"with", "entry"}
      /\ BusyFits(c, g, enc[g.enc].config, enc[e], mem[<<"buf", e>>])
      /\ c.op = "entry" /\ g.console => Plain(mem[<<"line", p>>])
  BY <1>1 DEF LInv, CallOK, CallFits, Busy
<1>6. /\ d.op = c.op /\ d.logger = c.logger /\ d.enc = e /\ d.entry = c.entry
      /\ enc'[g.enc] = enc[g.enc]
  BY <1>3, <1>5 DEF Works
<1>7. BusyFits(d, g, enc[g.enc].config, enc'[e], mem'[<<"buf", e>>])
  <2> DEFINE f == enc[g.enc].config
  <2>1. enc'[e].config = f
    BY <1>5 DEF BusyFits
  <2> SUFFICES ASSUME ~d.nested, ~d.timed, NEW s, NEW base, From(d, g, f, s, base)
               PROVE  TextSays(s, base, mem'[<<"buf", e>>], enc'[e].openNamespaces, d.open, d.meant)
    BY <2>1 DEF BusyFits
  <2>2. From(c, g, f, s, base)
    BY <1>6 DEF From
  <2>3. ~c.nested /\ ~c.timed
    OBVIOUS
  <2>4. TextSays(s, base, mem[<<"buf", e>>], enc[e].openNamespaces, c.open, c.meant)
    BY <1>5, <2>2, <2>3 DEF BusyFits
  <2> QED
    BY <2>4 DEF Appends
<1>8. CallOK(p)'
  BY <1>1, <1>5, <1>6, <1>7 DEF CallOK, CallFits
<1> QED
  BY <1>1, <1>2, <1>3, <1>4, <1>8 DEF LInv

(* What a method appends, for the key or the element k. *)
Appended(p, k, t, v) == 
  Appends(p, t, enc[call[p].enc].openNamespaces, call[p].open,
          Append(call[p].meant, <<Place(p, k), v>>))

(* addKey or nothing, in an object or an array. *)
LEMMA LabelFits ==
  ASSUME Inv, NEW p \in Procs, Busy(p), NEW k \in Labels(p)
  PROVE  /\ IsASeq(k) /\ (Frame(p).what = Array => k = Element)
         /\ Frame(p) = Last(call[p].open)
         /\ Labelled(p, k) = LabelledText(Text(p), Frame(p).what, k, Mine(p).spaced)
         /\ Text(p) = mem[<<"buf", call[p].enc>>] /\ Mine(p) = enc[call[p].enc]
<1>1. Object # Array
  BY DEF Object, Array
<1>2. IsASeq(Element)
  BY OneSeq DEF Element
<1>3. ASSUME NEW s \in Keys PROVE IsASeq(s)
  <2>1. s \in Seq(STRING)
    BY EncoderAssumption
  <2> QED
    BY ONLY <2>1, Zenon DEF IsASeq
<1>4. k = Element \/ (Frame(p).what = Object /\ k \in Keys)
  BY DEF Labels
<1>5. enc[call[p].enc].buf = <<"buf", call[p].enc>>
  BY BusyFacts
<1>6. Labelled(p, k) = LabelledText(Text(p), Frame(p).what, k, Mine(p).spaced)
  BY DEF Labelled, LabelledText
<1>7. Frame(p).what = Array => k = Element
  BY <1>1, <1>4
<1>8. IsASeq(k)
  BY <1>2, <1>3, <1>4
<1>9. Text(p) = mem[<<"buf", call[p].enc>>] /\ Mine(p) = enc[call[p].enc]
  BY <1>5 DEF Text, Mine
<1> QED
  BY <1>6, <1>7, <1>8, <1>9 DEF Frame

(* After it a value may come. *)
LEMMA LabelSays ==
  ASSUME Inv, NEW p \in Procs, Busy(p), NEW k \in Labels(p), NEW r, NEW base,
         TextSays(r, base, mem[<<"buf", call[p].enc>>], enc[call[p].enc].openNamespaces,
                  call[p].open, call[p].meant)
  PROVE  /\ ReadyFor(r, base, Separated(Labelled(p, k), Mine(p).spaced),
                     enc[call[p].enc].openNamespaces, call[p].open, call[p].meant, Place(p, k))
         /\ Frame(p).what = Object => Separated(Labelled(p, k), Mine(p).spaced) = Labelled(p, k)
<1> DEFINE u == Labelled(p, k)
           t == Text(p)
           spaced == Mine(p).spaced
           n == enc[call[p].enc].openNamespaces
           frames == call[p].open
           meant == call[p].meant
<1>1. /\ IsASeq(k) /\ (Last(frames).what = Array => k = Element)
      /\ u = LabelledText(t, Last(frames).what, k, spaced)
      /\ TextSays(r, base, t, n, frames, meant) /\ Frame(p) = Last(frames)
  BY LabelFits
<1>2. Place(p, k) = Append(Last(frames).path, AsRead(k))
  BY <1>1 DEF Place
<1> HIDE DEF u, t, spaced, n, frames, meant
<1>3. /\ ReadyFor(r, base, Separated(u, spaced), n, frames, meant,
                  Append(Last(frames).path, AsRead(k)))
      /\ Last(frames).what = Object => Separated(u, spaced) = u
  BY <1>1, LabelReady
<1> QED
  BY <1>1, <1>2, <1>3 DEF u, t, spaced, n, frames, meant

(* What is in the buffers and in hand after a method. *)
LEMMA PutText ==
  ASSUME Inv, NEW p \in Procs, Busy(p), NEW text, Put(p, text)
  PROVE  /\ mem'[<<"buf", call[p].enc>>] = text
         /\ mem'[<<"line", p>>] = mem[<<"line", p>>]
<1>1. /\ mem' = [mem EXCEPT ![<<"buf", call[p].enc>>] = text]
      /\ <<"buf", call[p].enc>> \in Buffers
  BY BusyFacts DEF Put, Mine
<1>2. mem = [b \in Buffers |-> mem[b]] /\ <<"line", p>> \in Buffers
  BY Names DEF Inv, Shape
<1> QED
  BY <1>1, <1>2

LEMMA SaysFields ==
  ASSUME Inv, NEW p \in Procs, Busy(p), NEW k, NEW v, NEW r, r = Says(p, k, v)
  PROVE  /\ CallRecord(r) /\ r.entry = call[p].entry /\ r.open = call[p].open
         /\ r.nested = call[p].nested /\ r.timed = call[p].timed
         /\ r.meant = Append(call[p].meant, <<Place(p, k), v>>)
<1> DEFINE s == call[p]
           m == Append(s.meant, <<Place(p, k), v>>)
<1>1. r = [s EXCEPT !.n = s.n + 1, !.meant = m]
  BY DEF Says
<1>2. CallRecord(s)
  BY BusyFacts
<1> HIDE DEF s, m
<1>3. /\ CallRecord(r) /\ r.entry = s.entry /\ r.open = s.open
      /\ r.nested = s.nested /\ r.timed = s.timed /\ r.meant = m
  BY <1>1, <1>2 DEF CallRecord
<1> QED
  BY <1>3 DEF s, m

(* A method that appends one value. *)
LEMMA AddValueOK ==
  ASSUME LInv, NEW p \in Procs, NEW k, NEW t, NEW v, AddValue(p, k, t, v),
         ~call[p].nested /\ ~call[p].timed => Appended(p, k, t, v)
  PROVE  LInv'
<1> DEFINE e == call[p].enc
           r == Says(p, k, v)
<1>1. Inv /\ Busy(p) /\ Put(p, t) /\ call' = [call EXCEPT ![p] = r] /\ enc' = enc
  BY DEF AddValue, Ready, LInv
<1>2. Works(p, e)
  BY <1>1, AddValueWorks
<1>3. call'[p] = r
  BY <1>1 DEF Inv, Shape
<1>4. mem'[<<"buf", e>>] = t /\ mem'[<<"line", p>>] = mem[<<"line", p>>]
  BY <1>1, PutText
<1>5. /\ r.entry = call[p].entry /\ r.open = call[p].open
      /\ r.nested = call[p].nested /\ r.timed = call[p].timed
      /\ r.meant = Append(call[p].meant, <<Place(p, k), v>>)
  BY <1>1, SaysFields
<1> HIDE DEF r
<1>6. ~r.nested /\ ~r.timed =>
        /\ ~call[p].nested /\ ~call[p].timed
        /\ Appends(p, t, enc[e].openNamespaces, r.open, r.meant)
  BY <1>5 DEF Appended
<1> QED
  BY <1>1, <1>2, <1>3, <1>4, <1>5, <1>6, WorksOK

(* Strings, numbers, floats, times and durations. *)
LEMMA StringAppended ==
  ASSUME Inv, NEW p \in Procs, Busy(p), NEW k \in Labels(p), NEW s, IsASeq(s)
  PROVE  Appended(p, k, WithString(Labelled(p, k), s, Mine(p).spaced), AsRead(s))
BY LabelSays, StringSaid DEF Appended, Appends

LEMMA NumberAppended ==
  ASSUME Inv, NEW p \in Procs, Busy(p), NEW k \in Labels(p)
  PROVE  Appended(p, k, WithNumber(Labelled(p, k), Mine(p).spaced), Number)
BY LabelSays, NumberSaid DEF Appended, Appends

LEMMA FloatAppended ==
  ASSUME Inv, NEW p \in Procs, Busy(p), NEW k \in Labels(p), NEW finite \in BOOLEAN
  PROVE  Appended(p, k, WithFloat(Labelled(p, k), finite, Mine(p).spaced),
                  IF finite THEN Number ELSE NotANumber)
BY LabelSays, FloatSaid DEF Appended, Appends

LEMMA EncodedAppended ==
  ASSUME Inv, NEW p \in Procs, Busy(p), NEW k \in Labels(p),
         NEW values \in Seq(Seq(STRING)), Len(values) <= 1
  PROVE  Appended(p, k, WithEncoded(Labelled(p, k), values, Mine(p).spaced), Said(values))
BY LabelSays, EncodedSaid DEF Appended, Appends

(* An encoder in use is configured as the logger's is. *)
LEMMA FineFields ==
  ASSUME LInv, NEW p \in Procs, Busy(p)
  PROVE  /\ call[p].logger \in DOMAIN loggers
         /\ Mine(p).config = enc[loggers[call[p].logger].enc].config
         /\ Fine(Mine(p).config, loggers[call[p].logger].console)
<1>1. CallOK(p) /\ call[p].op # "idle" /\ call[p].op \in {"with", "entry"}
  BY DEF LInv, Busy
<1>2. /\ call[p].logger \in DOMAIN loggers
      /\ enc[call[p].enc].config = enc[loggers[call[p].logger].enc].config
  BY <1>1 DEF CallOK, CallFits, BusyFits
<1>3. LoggerOK(call[p].logger)
  BY <1>2 DEF LInv
<1> QED
  BY <1>2, <1>3 DEF LoggerOK, LoggerFits, Mine

(* A time field: the console's are not JSON, and are remembered as timed. *)
LEMMA AddTimeOK ==
  ASSUME LInv, NEW p \in Procs, NEW k, AddTime(p, k)
  PROVE  LInv'
<1> DEFINE e == call[p].enc
           time == Mine(p).config.time
           s == Says(p, k, Said(time))
           more == s.timed \/ Len(time) > 1
           r == [s EXCEPT !.timed = more]
           t == WithEncoded(Labelled(p, k), time, Mine(p).spaced)
<1>1. /\ Inv /\ Busy(p) /\ k \in Labels(p) /\ Put(p, t) /\ call' = [call EXCEPT ![p] = r]
      /\ enc' = enc
  BY DEF AddTime, Ready, LInv
<1>2. Works(p, e)
  BY <1>1, AddTimeWorks
<1>3. call'[p] = r
  BY <1>1 DEF Inv, Shape
<1>4. mem'[<<"buf", e>>] = t /\ mem'[<<"line", p>>] = mem[<<"line", p>>]
  BY <1>1, PutText
<1>5. /\ CallRecord(s) /\ s.entry = call[p].entry /\ s.open = call[p].open
      /\ s.nested = call[p].nested /\ s.timed = call[p].timed
      /\ s.meant = Append(call[p].meant, <<Place(p, k), Said(time)>>)
  BY <1>1, SaysFields
<1>6. time \in Seq(Seq(STRING))
  BY <1>1, FineFields DEF Fine
<1>7. ~(s.timed \/ Len(time) > 1) => ~s.timed /\ Len(time) <= 1
  <2>1. Len(time) \in Nat
    BY <1>6
  <2> QED
    BY <2>1
<1>8. ~more => ~s.timed /\ Len(time) <= 1
  BY <1>7
<1> HIDE DEF s, more, time
<1>9. /\ r.entry = s.entry /\ r.open = s.open /\ r.nested = s.nested /\ r.timed = more
      /\ r.meant = s.meant
  BY <1>5 DEF CallRecord
<1> HIDE DEF r
<1>10. ~r.nested /\ ~r.timed =>
         /\ ~call[p].nested /\ ~call[p].timed
         /\ Appends(p, t, enc[e].openNamespaces, r.open, r.meant)
  <2> SUFFICES ASSUME ~r.nested, ~r.timed
               PROVE  /\ ~call[p].nested /\ ~call[p].timed
                      /\ Appends(p, t, enc[e].openNamespaces, r.open, r.meant)
    OBVIOUS
  <2>1. ~call[p].nested /\ ~call[p].timed /\ Len(time) <= 1
    BY <1>5, <1>8, <1>9
  <2>2. Appended(p, k, t, Said(time))
    BY <1>1, <1>6, <2>1, EncodedAppended
  <2> QED
    BY <1>5, <1>9, <2>1, <2>2 DEF Appended
<1> QED
  BY <1>1, <1>2, <1>3, <1>4, <1>5, <1>9, <1>10, WorksOK

(* All other fields of one value. *)
LEMMA AddPlainOK ==
  ASSUME LInv, NEW p \in Procs, NEW k,
         \/ \E s \in Strings : AddString(p, k, s)
         \/ \E finite \in BOOLEAN : AddFloat(p, k, finite)
         \/ AddNumber(p, k) \/ AddDuration(p, k)
  PROVE  LInv'
<1>1. Inv /\ Busy(p) /\ k \in Labels(p)
  BY DEF LInv, AddString, AddFloat, AddNumber, AddDuration, AddValue, Ready
<1>2. ASSUME NEW s \in Strings, AddString(p, k, s) PROVE LInv'
  <2>1. s \in Seq(STRING)
    BY EncoderAssumption
  <2>2. IsASeq(s)
    BY ONLY <2>1, Zenon DEF IsASeq
  <2> QED
    BY <1>1, <1>2, <2>2, StringAppended, AddValueOK DEF AddString
<1>3. ASSUME NEW finite \in BOOLEAN, AddFloat(p, k, finite) PROVE LInv'
  BY <1>1, <1>3, FloatAppended, AddValueOK DEF AddFloat
<1>4. CASE AddNumber(p, k)
  BY <1>1, <1>4, NumberAppended, AddValueOK DEF AddNumber
<1>5. CASE AddDuration(p, k)
  <2> DEFINE duration == Mine(p).config.duration
  <2>1. duration \in Seq(Seq(STRING)) /\ Len(duration) <= 1
    BY <1>1, FineFields DEF Fine
  <2>2. AddValue(p, k, WithEncoded(Labelled(p, k), duration, Mine(p).spaced), Said(duration))
    BY <1>5 DEF AddDuration
  <2> HIDE DEF duration
  <2> QED
    BY <1>1, <2>1, <2>2, EncodedAppended, AddValueOK
<1> QED
  BY <1>2, <1>3, <1>4, <1>5

(* A marshaler is called, and has a frame more. *)
LEMMA BeginMarshalOK ==
  ASSUME LInv, NEW p \in Procs, NEW k, NEW what \in {Object, Array}, BeginMarshal(p, k, what)
  PROVE  LInv'
<1> DEFINE e == call[p].enc
           s == Says(p, k, what)
           f == [what |-> what, path |-> Place(p, k)]
           open == Append(s.open, f)
           r == [s EXCEPT !.open = open]
           u == Separated(Labelled(p, k), Mine(p).spaced)
           t == Append(u, Opening(what))
<1>1. /\ Inv /\ Busy(p) /\ k \in Labels(p) /\ Put(p, t) /\ call' = [call EXCEPT ![p] = r]
      /\ enc' = enc
  BY DEF BeginMarshal, Ready, LInv, Opening
<1>2. Works(p, e)
  BY <1>1, BeginMarshalWorks
<1>3. call'[p] = r
  BY <1>1 DEF Inv, Shape
<1>4. mem'[<<"buf", e>>] = t /\ mem'[<<"line", p>>] = mem[<<"line", p>>]
  BY <1>1, PutText
<1>5. /\ CallRecord(s) /\ s.entry = call[p].entry /\ s.open = call[p].open
      /\ s.nested = call[p].nested /\ s.timed = call[p].timed
      /\ s.meant = Append(call[p].meant, <<Place(p, k), what>>)
  BY <1>1, SaysFields
<1>6. f.what = what /\ f.path = Place(p, k) /\ open = Append(call[p].open, f)
  BY <1>5
<1> HIDE DEF s, open, f
<1>7. /\ r.entry = s.entry /\ r.open = open /\ r.nested = s.nested /\ r.timed = s.timed
      /\ r.meant = s.meant
  BY <1>5 DEF CallRecord
<1> HIDE DEF r, u
<1>8. Appends(p, t, enc[e].openNamespaces, r.open, r.meant)
  <2> DEFINE n == enc[e].openNamespaces
             frames == call[p].open
             meant == call[p].meant
  <2> SUFFICES ASSUME NEW x, NEW base,
                      TextSays(x, base, mem[<<"buf", e>>], n, frames, meant)
               PROVE  TextSays(x, base, t, n, r.open, r.meant)
    BY DEF Appends
  <2>1. ReadyFor(x, base, u, n, frames, meant, Place(p, k))
    BY <1>1, LabelSays DEF u
  <2> HIDE DEF n, frames, meant
  <2>2. TextSays(x, base, Append(u, Opening(what)), n, Append(frames, f),
                 Append(meant, <<Place(p, k), what>>))
    BY <1>6, <2>1, OpenSaid
  <2> QED
    BY <1>5, <1>6, <1>7, <2>2 DEF frames, meant
<1> QED
  BY <1>1, <1>2, <1>3, <1>4, <1>5, <1>7, <1>8, WorksOK

(* The only frame is replaced. *)
LEMMA OneOpen ==
  ASSUME NEW s, OpenOK(s), Len(s) = 1, NEW f
  PROVE  IsASeq(Append(Front(s), f)) /\ Len(Append(Front(s), f)) = 1
         /\ Append(Front(s), f)[1] = f /\ Last(s) = s[1]
<1>1. IsASeq(s)
  BY DEF OpenOK
<1>2. IsASeq(Front(s)) /\ Len(Front(s)) = 0
  BY <1>1, FrontFacts
<1>3. Front(s) = <<>>
  BY <1>2, EmptySequence
<1>4. Append(Front(s), f) = <<f>>
  BY <1>3, AppendEmpty
<1> QED
  BY <1>4, OneSeq DEF Last

(* A namespace: in a nested object it is remembered as nested, and else    *)
(* the frame moves.                                                        *)
LEMMA OpenNamespaceOK ==
  ASSUME LInv, NEW p \in Procs, NEW k, OpenNamespace(p, k)
  PROVE  LInv'
<1> DEFINE e == call[p].enc
           s == Says(p, k, Object)
           f == [what |-> Object, path |-> Place(p, k)]
           open == Append(Front(s.open), f)
           deep == s.nested \/ Nested(p)
           r == [s EXCEPT !.open = open, !.nested = deep]
           u == Labelled(p, k)
           t == Append(u, Opening(Object))
           n == enc[e].openNamespaces
<1>1. /\ Inv /\ Busy(p) /\ k \in Labels(p) /\ Frame(p).what = Object /\ Put(p, t)
      /\ call' = [call EXCEPT ![p] = r] /\ enc' = [enc EXCEPT ![e].openNamespaces = @ + 1]
  BY DEF OpenNamespace, Ready, LInv, Opening
<1>2. Works(p, e)
  BY <1>1, OpenNamespaceWorks
<1>3. call'[p] = r
  BY <1>1 DEF Inv, Shape
<1>4. mem'[<<"buf", e>>] = t /\ mem'[<<"line", p>>] = mem[<<"line", p>>]
  BY <1>1, PutText
<1>5. /\ CallRecord(s) /\ s.entry = call[p].entry /\ s.open = call[p].open
      /\ s.nested = call[p].nested /\ s.timed = call[p].timed
      /\ s.meant = Append(call[p].meant, <<Place(p, k), Object>>)
  BY <1>1, SaysFields
<1>6. /\ f.what = Object /\ f.path = Place(p, k) /\ open = Append(Front(call[p].open), f)
      /\ (~deep => ~s.nested /\ ~Nested(p))
  BY <1>5
<1>7. enc'[e].openNamespaces = n + 1 /\ enc'[e].config = enc[e].config
  <2> DEFINE a == enc[e]
             m == n + 1
  <2>1. e \in Encoders /\ EncoderRecord(a) /\ enc = [d \in Encoders |-> enc[d]]
    BY <1>1, BusyFacts DEF Inv, Shape
  <2>2. enc'[e] = [a EXCEPT !.openNamespaces = m]
    BY <1>1, <2>1
  <2> HIDE DEF a, m
  <2>3. enc'[e].openNamespaces = m /\ enc'[e].config = a.config
    BY <2>1, <2>2 DEF EncoderRecord
  <2> QED
    BY <2>3 DEF a, m
<1> HIDE DEF s, open, f, deep
<1>8. /\ r.entry = s.entry /\ r.open = open /\ r.nested = deep /\ r.timed = s.timed
      /\ r.meant = s.meant
  BY <1>5 DEF CallRecord
<1> HIDE DEF r, u, n
<1>9. ~Nested(p) => Appends(p, t, n + 1, r.open, r.meant)
  <2> DEFINE frames == call[p].open
             meant == call[p].meant
  <2> SUFFICES ASSUME ~Nested(p), NEW x, NEW base,
                      TextSays(x, base, mem[<<"buf", e>>], n, frames, meant)
               PROVE  TextSays(x, base, t, n + 1, r.open, r.meant)
    BY DEF Appends, n
  <2>1. ReadyFor(x, base, u, n, frames, meant, Place(p, k))
    BY <1>1, LabelSays DEF u, n
  <2>2. OpenOK(frames) /\ Len(frames) = 1
    <3>1. OpenOK(frames)
      BY <1>1, BusyFacts
    <3>2. Len(frames) \in Nat /\ Len(frames) >= 1
      BY <3>1, SeqFacts DEF OpenOK
    <3>3. ~ (Len(frames) > 1)
      BY DEF Nested
    <3> DEFINE m == Len(frames)
    <3>4. m \in Nat /\ m >= 1 /\ ~ (m > 1)
      BY <3>2, <3>3
    <3> HIDE DEF m
    <3>5. m = 1
      BY <3>4
    <3> QED
      BY <3>1, <3>5 DEF m
  <2>6. r.open = Append(Front(frames), f)
    BY <1>6, <1>8
  <2> HIDE DEF frames, meant
  <2>3. IsASeq(r.open) /\ Len(r.open) = 1 /\ r.open[1] = f
    <3>1. /\ IsASeq(Append(Front(frames), f)) /\ Len(Append(Front(frames), f)) = 1
          /\ Append(Front(frames), f)[1] = f
      BY <2>2, OneOpen
    <3> QED
      BY <2>6, <3>1
  <2>4. r.open[1].what = Object /\ r.open[1].path = Place(p, k)
    BY <1>6, <2>3
  <2>5. TextSays(x, base, Append(u, Opening(Object)), n + 1, r.open,
                 Append(meant, <<Place(p, k), Object>>))
    BY <2>1, <2>2, <2>3, <2>4, NamespaceSaid
  <2> QED
    BY <1>5, <1>8, <2>5 DEF meant
<1> HIDE DEF t
<1>10. ~r.nested /\ ~r.timed =>
         /\ ~call[p].nested /\ ~call[p].timed
         /\ Appends(p, t, n + 1, r.open, r.meant)
  BY <1>5, <1>6, <1>8, <1>9
<1>11. /\ enc'[e].config = enc[e].config /\ call'[p].entry = call[p].entry
       /\ mem'[<<"line", p>>] = mem[<<"line", p>>]
       /\ ~call'[p].nested /\ ~call'[p].timed =>
            /\ ~call[p].nested /\ ~call[p].timed
            /\ Appends(p, mem'[<<"buf", e>>], enc'[e].openNamespaces,
                       call'[p].open, call'[p].meant)
  BY <1>3, <1>4, <1>5, <1>7, <1>8, <1>10
<1> QED
  BY <1>2, <1>11, WorksOK

(* zap's field for an error of a marshaler, where the call is not nested. *)
LEMMA ErrorAppended ==
  ASSUME NEW r, NEW base, NEW t, NEW n, NEW frames, NEW meant,
         TextSays(r, base, t, n, frames, meant), Len(frames) = 1, NEW spaced,
         NEW place, place = Append(frames[1].path, ErrorKey)
  PROVE  TextSays(r, base, ErrorText(t, spaced), n, frames, Append(meant, <<place, <<"e">>>>))
BY ErrorSaid

(* The first frame. *)
LEMMA HeadFirst == ASSUME NEW s, OpenOK(s) PROVE Head(s) = s[1]
<1>1. PICK S : s \in Seq(S) /\ Len(s) >= 1
  BY DEF OpenOK, IsASeq
<1> QED
  BY <1>1

(* A marshaler returns: its bracket is closed, and zap tells of an error   *)
(* in the outermost one.                                                   *)
LEMMA EndMarshalOK ==
  ASSUME LInv, NEW p \in Procs, NEW failed, EndMarshal(p, failed)
  PROVE  LInv'
<1> DEFINE e == call[p].enc
           c == call[p]
           spaced == Mine(p).spaced
           told == failed /\ Len(c.open) = 2
           end == Append(Text(p), Closing(Frame(p).what))
           t == IF told THEN ErrorText(end, spaced) ELSE end
           meant == IF told THEN Append(c.meant, <<ErrorPlace(p), <<"e">>>>) ELSE c.meant
           front == Front(c.open)
           r == [c EXCEPT !.open = front, !.meant = meant]
           n == enc[e].openNamespaces
<1>1. Inv /\ Busy(p) /\ Nested(p) /\ Put(p, t) /\ enc' = enc
  BY DEF EndMarshal, LInv, Closing
<1>2. call' = [call EXCEPT ![p] = r]
  BY <1>1 DEF EndMarshal, Inv, Shape
<1>3. Works(p, e)
  <2>1. EndMarshal(p, failed)
    OBVIOUS
  <2> HIDE DEF t, r, end, meant, front, told
  <2> QED
    BY <1>1, <2>1, EndMarshalWorks
<1>4. call'[p] = r
  BY <1>1, <1>2 DEF Inv, Shape
<1>5. mem'[<<"buf", e>>] = t /\ mem'[<<"line", p>>] = mem[<<"line", p>>]
  BY <1>1, PutText
<1>6. CallRecord(c) /\ OpenOK(c.open) /\ Text(p) = mem[<<"buf", e>>] /\ Frame(p) = Last(c.open)
  BY <1>1, BusyFacts DEF Text, Mine, Frame
<1>7. Len(c.open) > 1 /\ Len(c.open) \in Nat /\ IsASeq(c.open)
  BY <1>1, <1>6, SeqFacts DEF Nested, OpenOK
<1>8. told => Len(front) = 1 /\ ErrorPlace(p) = Append(front[1].path, ErrorKey)
  <2>1. Len(front) = Len(c.open) - 1 /\ front[1] = c.open[1]
    BY <1>7, FrontSeq
  <2>2. Head(c.open) = c.open[1]
    BY <1>6, HeadFirst
  <2> HIDE DEF front
  <2> QED
    BY <2>1, <2>2 DEF ErrorPlace
<1>9. /\ r.entry = c.entry /\ r.open = front /\ r.nested = c.nested /\ r.timed = c.timed
      /\ r.meant = meant
  <2> HIDE DEF c, front, meant
  <2> QED
    BY <1>6 DEF CallRecord
<1> HIDE DEF r
<1>10. Appends(p, t, n, front, meant)
  <2> SUFFICES ASSUME NEW x, NEW base, TextSays(x, base, mem[<<"buf", e>>], n, c.open, c.meant)
               PROVE  TextSays(x, base, t, n, front, meant)
    BY DEF Appends
  <2>1. TextSays(x, base, end, n, front, c.meant)
    <3> DEFINE u == mem[<<"buf", e>>]
               frames == c.open
               m == c.meant
    <3>1. TextSays(x, base, u, n, frames, m) /\ Len(frames) > 1
      BY <1>7
    <3>2. end = Append(u, Closing(Last(frames).what))
      BY <1>6
    <3> HIDE DEF u, frames, m, n, end
    <3>3. TextSays(x, base, Append(u, Closing(Last(frames).what)), n, Front(frames), m)
      BY <3>1, CloseSaid
    <3> QED
      BY <3>2, <3>3 DEF frames, m
  <2>2. CASE ~told
    BY <2>1, <2>2
  <2>3. CASE told
    <3> DEFINE place == ErrorPlace(p)
               m == c.meant
    <3>1. /\ Len(front) = 1 /\ place = Append(front[1].path, ErrorKey)
          /\ TextSays(x, base, end, n, front, m)
      BY <1>8, <2>1, <2>3
    <3>2. t = ErrorText(end, spaced) /\ meant = Append(m, <<place, <<"e">>>>)
      BY <2>3
    <3> HIDE DEF place, front, end, n, m, t, meant, spaced
    <3>3. TextSays(x, base, ErrorText(end, spaced), n, front, Append(m, <<place, <<"e">>>>))
      BY <3>1, ErrorAppended
    <3> QED
      BY <3>2, <3>3
  <2> QED
    BY <2>2, <2>3
<1> HIDE DEF t, front, meant
<1>11. /\ enc'[e].config = enc[e].config /\ call'[p].entry = call[p].entry
       /\ mem'[<<"line", p>>] = mem[<<"line", p>>]
       /\ ~call'[p].nested /\ ~call'[p].timed =>
            /\ ~call[p].nested /\ ~call[p].timed
            /\ Appends(p, mem'[<<"buf", e>>], enc'[e].openNamespaces,
                       call'[p].open, call'[p].meant)
  BY <1>1, <1>4, <1>5, <1>9, <1>10
<1> QED
  BY <1>3, <1>11, WorksOK

(* AddReflected: encoding/json has encoded, has failed within a marshaler, *)
(* or has failed in a field.                                               *)
ReflectedAt(p, k, e, c) ==
  /\ enc' = [enc EXCEPT ![e].reflectBuf = c]
  /\ \/ /\ mem' = [mem EXCEPT ![c] = <<"#">>, ![<<"buf", e>>] = Reflected(p, k)]
        /\ call' = [call EXCEPT ![p] = Says(p, k, Number)]
     \/ /\ mem' = [mem EXCEPT ![c] = <<>>, ![<<"buf", e>>] = Text(p)]
        /\ call' = [call EXCEPT ![p].n = @ + 1]
     \/ /\ ~Nested(p)
        /\ mem' = [mem EXCEPT ![c] = <<>>,
                              ![<<"buf", e>>] = ErrorText(Text(p), Mine(p).spaced)]
        /\ call' = [call EXCEPT ![p].n = @ + 1,
                      ![p].meant = Append(@, <<ErrorPlace(p), <<"e">>>>)]

(* The three outcomes, in terms of the encoder e and its buffer c. *)
LEMMA ReflectedSteps ==
  ASSUME Inv, NEW p \in Procs, NEW k, AddReflected(p, k),
         NEW e, e = call[p].enc, NEW c, c = <<"reflect", e>>
  PROVE  ReflectedAt(p, k, e, c)
<1>1. Busy(p)
  BY DEF AddReflected, Ready
<1>2. enc[e].buf = <<"buf", e>> /\ enc[e].reflectBuf \in {NoBuffer, c}
  BY <1>1, BusyFacts
<1>3. (IF Mine(p).reflectBuf = NoBuffer THEN <<"reflect", call[p].enc>> ELSE Mine(p).reflectBuf) = c
  BY <1>2 DEF Mine
<1>4. Mine(p).buf = <<"buf", e>>
  BY <1>2 DEF Mine
<1> QED
  BY <1>3, <1>4 DEF AddReflected, ReflectedAt

(* The buffer for reflection is not that of the text. *)
LEMMA TwoPut ==
  ASSUME Inv, NEW p \in Procs, NEW e \in Encoders, NEW t, NEW u,
         mem' = [mem EXCEPT ![<<"reflect", e>>] = t, ![<<"buf", e>>] = u]
  PROVE  /\ mem'[<<"buf", e>>] = u
         /\ mem'[<<"line", p>>] = mem[<<"line", p>>]
<1> DEFINE c == <<"reflect", e>>
           b == <<"buf", e>>
           l == <<"line", p>>
<1>1. c \in Buffers /\ b \in Buffers /\ l \in Buffers
  BY Names
<1>2. c # b /\ l # b /\ l # c
  OBVIOUS
<1>3. mem = [x \in Buffers |-> mem[x]] /\ mem' = [mem EXCEPT ![c] = t, ![b] = u]
  BY DEF Inv, Shape
<1> HIDE DEF c, b, l
<1>4. mem'[b] = u /\ mem'[l] = mem[l]
  BY <1>1, <1>2, <1>3
<1> QED
  BY <1>4 DEF b, l

(* A reflected field, whatever encoding/json does. *)
LEMMA AddReflectedOK ==
  ASSUME LInv, NEW p \in Procs, NEW k, AddReflected(p, k)
  PROVE  LInv'
<1> DEFINE e == call[p].enc
           c == <<"reflect", e>>
           s == call[p]
           n == enc[e].openNamespaces
           Outcome == /\ call'[p].entry = s.entry
                      /\ mem'[<<"line", p>>] = mem[<<"line", p>>]
                      /\ ~call'[p].nested /\ ~call'[p].timed =>
                           /\ ~s.nested /\ ~s.timed
                           /\ Appends(p, mem'[<<"buf", e>>], n, call'[p].open, call'[p].meant)
<1>1. Inv /\ Busy(p) /\ k \in Labels(p)
  BY DEF AddReflected, Ready, LInv
<1>0. ReflectedAt(p, k, e, c)
  BY <1>1, ReflectedSteps
<1>2. Works(p, e)
  BY <1>1, AddReflectedWorks
<1>3. /\ e \in Encoders /\ EncoderRecord(enc[e]) /\ CallRecord(s) /\ OpenOK(s.open)
      /\ Text(p) = mem[<<"buf", e>>]
  BY <1>1, BusyFacts DEF Text, Mine
<1>4. enc'[e].openNamespaces = n /\ enc'[e].config = enc[e].config
  <2> DEFINE a == enc[e]
  <2>0. enc' = [enc EXCEPT ![e].reflectBuf = c]
    BY <1>0 DEF ReflectedAt
  <2>1. enc'[e] = [a EXCEPT !.reflectBuf = c] /\ EncoderRecord(a)
    BY <1>1, <1>3, <2>0 DEF Inv, Shape
  <2> HIDE DEF a, c
  <2>2. enc'[e].openNamespaces = a.openNamespaces /\ enc'[e].config = a.config
    BY <2>1 DEF EncoderRecord
  <2> QED
    BY <2>2 DEF a
<1>5. call = [q \in Procs |-> call[q]]
  BY <1>1 DEF Inv, Shape
<1>6. ASSUME mem' = [mem EXCEPT ![c] = <<"#">>, ![<<"buf", e>>] = Reflected(p, k)],
             call' = [call EXCEPT ![p] = Says(p, k, Number)]
      PROVE  Outcome
  <2> DEFINE r == Says(p, k, Number)
             t == Reflected(p, k)
  <2>1. call'[p] = r
    BY <1>5, <1>6
  <2>2. mem'[<<"buf", e>>] = t /\ mem'[<<"line", p>>] = mem[<<"line", p>>]
    BY <1>1, <1>3, <1>6, TwoPut
  <2>3. /\ r.entry = s.entry /\ r.open = s.open /\ r.nested = s.nested /\ r.timed = s.timed
        /\ r.meant = Append(s.meant, <<Place(p, k), Number>>)
    BY <1>1, SaysFields
  <2>4. t = WithNumber(Labelled(p, k), Mine(p).spaced)
    BY DEF Reflected, WithNumber
  <2>5. Appended(p, k, t, Number)
    BY <1>1, <2>4, NumberAppended
  <2> HIDE DEF r, t
  <2> QED
    BY <2>1, <2>2, <2>3, <2>5 DEF Appended
<1>7. ASSUME mem' = [mem EXCEPT ![c] = <<>>, ![<<"buf", e>>] = Text(p)],
             call' = [call EXCEPT ![p].n = @ + 1]
      PROVE  Outcome
  <2> DEFINE m == s.n + 1
  <2>1. call'[p] = [s EXCEPT !.n = m]
    BY <1>5, <1>7
  <2>2. mem'[<<"buf", e>>] = Text(p) /\ mem'[<<"line", p>>] = mem[<<"line", p>>]
    BY <1>1, <1>3, <1>7, TwoPut
  <2> HIDE DEF s, m
  <2>3. /\ call'[p].entry = s.entry /\ call'[p].open = s.open /\ call'[p].nested = s.nested
        /\ call'[p].timed = s.timed /\ call'[p].meant = s.meant
    BY <1>3, <2>1 DEF CallRecord
  <2>4. Appends(p, mem'[<<"buf", e>>], n, s.open, s.meant)
    BY <1>3, <2>2 DEF Appends, s
  <2> QED
    BY <2>2, <2>3, <2>4
<1>8. ASSUME ~Nested(p),
             mem' = [mem EXCEPT ![c] = <<>>,
                                ![<<"buf", e>>] = ErrorText(Text(p), Mine(p).spaced)],
             call' = [call EXCEPT ![p].n = @ + 1,
                        ![p].meant = Append(@, <<ErrorPlace(p), <<"e">>>>)]
      PROVE  Outcome
  <2> DEFINE m == s.n + 1
             place == ErrorPlace(p)
             meant == Append(s.meant, <<place, <<"e">>>>)
             t == ErrorText(Text(p), Mine(p).spaced)
  <2>1. call'[p] = [s EXCEPT !.n = m, !.meant = meant]
    BY <1>5, <1>8
  <2>2. mem'[<<"buf", e>>] = t /\ mem'[<<"line", p>>] = mem[<<"line", p>>]
    BY <1>1, <1>3, <1>8, TwoPut
  <2>3. Len(s.open) = 1
    <3> DEFINE j == Len(s.open)
    <3>1. j \in Nat /\ j >= 1
      BY <1>3, SeqFacts DEF OpenOK
    <3>2. ~ (j > 1)
      BY <1>8 DEF Nested
    <3> HIDE DEF j
    <3>3. j = 1
      BY <3>1, <3>2
    <3> QED
      BY <3>3 DEF j
  <2>4. place = Append(s.open[1].path, ErrorKey)
    BY <1>3, HeadFirst DEF ErrorPlace
  <2>5. Appends(p, t, n, s.open, meant)
    <3> SUFFICES ASSUME NEW x, NEW base, TextSays(x, base, Text(p), n, s.open, s.meant)
                 PROVE  TextSays(x, base, t, n, s.open, meant)
      BY <1>3 DEF Appends
    <3> HIDE DEF n, s, place
    <3> QED
      BY <2>3, <2>4, ErrorAppended
  <2> HIDE DEF s, m, meant, place, t
  <2>6. /\ call'[p].entry = s.entry /\ call'[p].open = s.open /\ call'[p].nested = s.nested
        /\ call'[p].timed = s.timed /\ call'[p].meant = meant
    BY <1>3, <2>1 DEF CallRecord
  <2> QED
    BY <2>2, <2>5, <2>6
<1>9. Outcome
  <2> HIDE DEF Outcome
  <2> QED
    BY <1>0, <1>6, <1>7, <1>8 DEF ReflectedAt
<1> QED
  BY <1>2, <1>4, <1>9, WorksOK

(* Clone writes to an encoder that nobody has. *)
LEMMA BeginsApart ==
  ASSUME Inv, NEW p \in Procs, NEW c \in Encoders, NEW e \in Encoders, NEW r, Begins(p, c, e, r)
  PROVE  Apart(p, c)
<1>1. Touches(c)
  BY BeginsInv
<1>2. Others(p) /\ loggers' = loggers /\ c \in pool
  BY DEF Begins, Inv, Shape, Others
<1>3. ASSUME NEW q \in Procs, q # p PROVE q # c /\ (Busy(q) => call[q].enc # c)
  <2>1. q # c
    <3>1. CASE c = p
      BY <1>3, <3>1
    <3>2. CASE c = Taken + 1 /\ c <= MaxLoggers
      <4>1. c \in 1 .. MaxLoggers
        BY <3>2, IndexFacts, EncoderAssumption
      <4> QED
        BY <4>1, Names
    <3> QED
      BY <3>1, <3>2 DEF Begins
  <2>2. ~OfCall(c)
    BY <1>2 DEF Inv, Owned
  <2> QED
    BY <2>1, <2>2 DEF OfCall
<1> QED
  BY <1>1, <1>2, <1>3 DEF Apart

(* A clone whose text says what it should keeps the invariant. *)
LEMMA BeginsOK ==
  ASSUME LInv, NEW p \in Procs, NEW c \in Encoders, NEW e \in Encoders, NEW r,
         Begins(p, c, e, r), NEW l \in DOMAIN loggers, e = loggers[l].enc, r.logger = l,
         BusyFits(r, loggers[l], enc[e].config, enc'[c], mem'[<<"buf", c>>]),
         r.op = "entry" /\ loggers[l].console => Plain(mem'[<<"line", p>>])
  PROVE  LInv'
<1>1. Inv
  BY DEF LInv
<1>2. Inv' /\ Apart(p, c)
  BY <1>1, BeginsInv, BeginsApart
<1>3. loggers' = loggers /\ r.enc = c /\ r.op \in {"with", "entry"} /\ call'[p] = r
  BY <1>1 DEF Begins, Inv, Shape
<1>4. \A m \in DOMAIN loggers :
        LoggerOK(m)' /\ enc'[loggers[m].enc] = enc[loggers[m].enc]
  BY <1>1, <1>2, ApartLogger DEF LInv
<1>5. \A q \in Procs : q # p => CallOK(q)'
  BY <1>1, <1>2, <1>4, ApartCall DEF LInv
<1>6. enc'[e] = enc[e]
  BY <1>4
<1>7. CallOK(p)'
  BY <1>3, <1>6 DEF CallOK, CallFits
<1> QED
  BY <1>2, <1>3, <1>4, <1>5, <1>7 DEF LInv

(* What a clone and a goroutine begin with. *)
LEMMA BeginsClone ==
  ASSUME Inv, NEW p \in Procs, NEW c \in Encoders, NEW e \in Encoders, NEW r,
         Begins(p, c, e, r)
  PROVE  /\ enc'[c].config = enc[e].config
         /\ enc'[c].openNamespaces = enc[e].openNamespaces
<1> DEFINE a == enc[c]
           x == enc[e].config
           y == enc[e].spaced
           n == enc[e].openNamespaces
<1>1. EncoderRecord(a) /\ enc'[c] = [a EXCEPT !.config = x, !.spaced = y,
                                             !.openNamespaces = n, !.buf = <<"buf", c>>]
  BY DEF Begins, Clone, Inv, Shape
<1> HIDE DEF a, x, y, n
<1>2. enc'[c].config = x /\ enc'[c].openNamespaces = n
  BY <1>1 DEF EncoderRecord
<1> QED
  BY <1>2 DEF x, n

LEMMA StartedFields ==
  ASSUME NEW op, NEW l, NEW e, NEW line, NEW entry, NEW r, r = Started(op, l, e, line, entry)
  PROVE  /\ r.op = op /\ r.logger = l /\ r.enc = e /\ r.line = line /\ r.entry = entry
         /\ r.open = <<[what |-> Object, path |-> loggers[l].path]>>
         /\ r.meant = loggers[l].meant /\ r.nested = loggers[l].nested
         /\ r.timed = loggers[l].timed
BY DEF Started

(* The encoder of a logger has its buffer. *)
LEMMA LoggerBuf ==
  ASSUME LInv, NEW l \in DOMAIN loggers, NEW e, e = loggers[l].enc
  PROVE  /\ e \in Encoders /\ enc[e].buf = <<"buf", e>>
         /\ LoggerFits(loggers[l], enc[e], mem[<<"buf", e>>])
<1>1. Inv /\ LoggerOK(l)
  BY DEF LInv
<1>2. e \in Encoders /\ OfLogger(e)
  BY <1>1, IndexFacts DEF OfLogger
<1> QED
  BY <1>1, <1>2 DEF Inv, Owned, LoggerOK

(* With, and an entry of the console, begin with the logger's context. *)
LEMMA ContextStarts ==
  ASSUME NEW r, NEW g, NEW s, NEW x, NEW t, LoggerFits(g, s, t),
         NEW op, op = "with" \/ g.console, r.op = op,
         r.open = <<[what |-> Object, path |-> g.path]>>,
         r.meant = g.meant, r.nested = g.nested, r.timed = g.timed,
         x.config = s.config, x.openNamespaces = s.openNamespaces
  PROVE  BusyFits(r, g, s.config, x, t)
<1>1. \A start, base : From(r, g, s.config, start, base) => InObject(start, base)
  BY DEF From
<1> DEFINE open == <<[what |-> Object, path |-> g.path]>>
<1>2. ~g.nested /\ ~g.timed => ContextSays(t, s.openNamespaces, open, g.meant)
  BY DEF LoggerFits
<1> HIDE DEF open
<1>3. r.open = open
  BY DEF open
<1> QED
  BY <1>1, <1>2, <1>3 DEF BusyFits, ContextSays

(* Logger.With begins. *)
LEMMA BeginWithOK ==
  ASSUME LInv, NEW p \in Procs, NEW l \in DOMAIN loggers, BeginWith(p, l)
  PROVE  LInv'
<1> DEFINE c == Taken + 1
           e == loggers[l].enc
           r == Started("with", l, c, NoBuffer, {})
           t == mem[<<"buf", e>>]
<1>1. /\ Inv /\ e \in Encoders /\ enc[e].buf = <<"buf", e>>
      /\ LoggerFits(loggers[l], enc[e], t)
  BY LoggerBuf DEF LInv
<1>2. /\ c \in Encoders /\ Begins(p, c, e, r)
      /\ mem' = [mem EXCEPT ![<<"buf", c>>] = mem[enc[e].buf]]
  BY <1>1, BeginWithBegins
<1>3. /\ r.op = "with" /\ r.logger = l
      /\ r.open = <<[what |-> Object, path |-> loggers[l].path]>>
      /\ r.meant = loggers[l].meant /\ r.nested = loggers[l].nested
      /\ r.timed = loggers[l].timed
  BY StartedFields
<1> HIDE DEF c, r
<1>4. mem'[<<"buf", c>>] = t
  <2>1. <<"buf", c>> \in Buffers
    BY <1>2, Names
  <2> QED
    BY <1>1, <1>2, <2>1 DEF Inv, Shape
<1>5. enc'[c].config = enc[e].config /\ enc'[c].openNamespaces = enc[e].openNamespaces
  BY <1>1, <1>2, BeginsClone
<1>6. BusyFits(r, loggers[l], enc[e].config, enc'[c], t)
  <2> DEFINE g == loggers[l]
             s == enc[e]
             x == enc'[c]
  <2>1. /\ LoggerFits(g, s, t) /\ r.op = "with"
        /\ r.open = <<[what |-> Object, path |-> g.path]>>
        /\ r.meant = g.meant /\ r.nested = g.nested /\ r.timed = g.timed
        /\ x.config = s.config /\ x.openNamespaces = s.openNamespaces
    BY <1>1, <1>3, <1>5
  <2> HIDE DEF g, s, x, t
  <2>2. BusyFits(r, g, s.config, x, t)
    BY <2>1, ContextStarts
  <2> QED
    BY <2>2 DEF g, s, x
<1> QED
  BY <1>1, <1>2, <1>3, <1>4, <1>6, BeginsOK

(* An entry in JSON begins with the metadata and the logger's context. *)
LEMMA JSONStarts ==
  ASSUME NEW r, NEW g, NEW s, NEW x, NEW t, LoggerFits(g, s, t),
         ~g.console, r.op = "entry",
         r.open = <<[what |-> Object, path |-> g.path]>>,
         r.meant = g.meant, r.nested = g.nested, r.timed = g.timed,
         x.config = s.config, x.openNamespaces = s.openNamespaces,
         NEW spaced, NEW text,
         text = IF t = <<>> THEN HeaderJSON(s.config, r.entry, spaced)
                ELSE Separated(HeaderJSON(s.config, r.entry, spaced), spaced) \o t
  PROVE  BusyFits(r, g, s.config, x, text)
<1> DEFINE open == <<[what |-> Object, path |-> g.path]>>
           config == s.config
           n == s.openNamespaces
           h == HeaderJSON(config, r.entry, spaced)
           H == <<RootPath>>
           said == MeantHeader(config, r.entry)
<1>1. ~g.nested /\ ~g.timed => ContextSays(t, n, open, g.meant)
  BY DEF LoggerFits
<1>2. TextSays(Start, Begun, h, 0, H, said)
  <2>1. config.time \in Seq(Seq(STRING)) /\ Len(config.time) <= 1
    BY DEF LoggerFits, Fine
  <2> HIDE DEF config, h, H, said
  <2> QED
    BY <2>1, HeaderSaid DEF h, H, said
<1>3. h # <<>>
  <2> HIDE DEF h, H, said
  <2> QED
    BY <1>2, NotEmpty
<1>4. Len(H) = 1
  BY OneSeq
<1>5. text = IF t = <<>> THEN h ELSE Separated(h, spaced) \o t
  OBVIOUS
<1>6. r.open = open /\ x.config = config /\ x.openNamespaces = n
  OBVIOUS
<1>7. \A start, base : From(r, g, config, start, base) => start = Start /\ base = Begun \o said
  BY DEF From
<1> HIDE DEF open, h, H, said, n, config
<1>8. ~g.nested /\ ~g.timed => TextSays(Start, Begun \o said, text, n, open, g.meant)
  <2> SUFFICES ASSUME ~g.nested, ~g.timed
               PROVE  TextSays(Start, Begun \o said, text, n, open, g.meant)
    OBVIOUS
  <2> DEFINE meant == g.meant
  <2>1. ContextSays(t, n, open, meant)
    BY <1>1
  <2> HIDE DEF meant
  <2>2. TextSays(Start, Begun \o said, IF t = <<>> THEN h ELSE Separated(h, spaced) \o t,
                 n, open, meant)
    BY <1>2, <1>3, <1>4, <2>1, Combined
  <2> QED
    BY <1>5, <2>2 DEF meant
<1> QED
  BY <1>6, <1>7, <1>8 DEF BusyFits, config

(* An entry in JSON begins. *)
LEMMA BeginJSONOK ==
  ASSUME LInv, NEW p \in Procs, NEW l \in DOMAIN loggers, NEW entry, BeginJSON(p, l, entry)
  PROVE  LInv'
<1> DEFINE e == loggers[l].enc
           r == Started("entry", l, p, NoBuffer, entry)
           t == mem[<<"buf", e>>]
           spaced == enc[e].spaced
           text == IF t = <<>> THEN HeaderJSON(enc[e].config, entry, spaced)
                   ELSE Separated(HeaderJSON(enc[e].config, entry, spaced), spaced) \o t
<1>1. /\ Inv /\ e \in Encoders /\ enc[e].buf = <<"buf", e>>
      /\ LoggerFits(loggers[l], enc[e], t)
  BY LoggerBuf DEF LInv
<1>2. p \in Encoders /\ Begins(p, p, e, r)
  BY <1>1, BeginJSONBegins
<1>3. /\ r.op = "entry" /\ r.logger = l /\ r.entry = entry
      /\ r.open = <<[what |-> Object, path |-> loggers[l].path]>>
      /\ r.meant = loggers[l].meant /\ r.nested = loggers[l].nested
      /\ r.timed = loggers[l].timed
  BY StartedFields
<1>4. mem' = [mem EXCEPT ![<<"buf", p>>] = text] /\ ~loggers[l].console
  BY <1>1 DEF BeginJSON, Take
<1>5. mem'[<<"buf", p>>] = text
  <2>1. <<"buf", p>> \in Buffers
    BY <1>2, Names
  <2> HIDE DEF text
  <2> QED
    BY <1>1, <1>4, <2>1 DEF Inv, Shape
<1> HIDE DEF r
<1>6. enc'[p].config = enc[e].config /\ enc'[p].openNamespaces = enc[e].openNamespaces
  BY <1>1, <1>2, BeginsClone
<1>7. BusyFits(r, loggers[l], enc[e].config, enc'[p], text)
  <2> DEFINE g == loggers[l]
             s == enc[e]
             x == enc'[p]
  <2>1. /\ LoggerFits(g, s, t) /\ r.op = "entry" /\ ~g.console
        /\ r.open = <<[what |-> Object, path |-> g.path]>>
        /\ r.meant = g.meant /\ r.nested = g.nested /\ r.timed = g.timed
        /\ x.config = s.config /\ x.openNamespaces = s.openNamespaces
    BY <1>1, <1>3, <1>4, <1>6
  <2>2. text = IF t = <<>> THEN HeaderJSON(s.config, r.entry, spaced)
               ELSE Separated(HeaderJSON(s.config, r.entry, spaced), spaced) \o t
    BY <1>3
  <2> HIDE DEF g, s, x, t, spaced, text
  <2>3. BusyFits(r, g, s.config, x, text)
    BY <2>1, <2>2, JSONStarts
  <2> QED
    BY <2>3 DEF g, s, x
<1> HIDE DEF text
<1> QED
  BY <1>1, <1>2, <1>3, <1>4, <1>5, <1>7, BeginsOK

(* An entry of the console begins. *)
LEMMA BeginConsoleOK ==
  ASSUME LInv, NEW p \in Procs, NEW l \in DOMAIN loggers, NEW entry, BeginConsole(p, l, entry)
  PROVE  LInv'
<1> DEFINE e == loggers[l].enc
           line == <<"line", p>>
           b == <<"buf", p>>
           r == Started("entry", l, p, line, entry)
           t == mem[<<"buf", e>>]
           h == HeaderConsole(enc[e].config, entry)
<1>1. /\ Inv /\ e \in Encoders /\ enc[e].buf = <<"buf", e>>
      /\ LoggerFits(loggers[l], enc[e], t)
  BY LoggerBuf DEF LInv
<1>2. p \in Encoders /\ Begins(p, p, e, r)
  BY <1>1, BeginConsoleBegins
<1>3. /\ r.op = "entry" /\ r.logger = l
      /\ r.open = <<[what |-> Object, path |-> loggers[l].path]>>
      /\ r.meant = loggers[l].meant /\ r.nested = loggers[l].nested
      /\ r.timed = loggers[l].timed
  BY StartedFields
<1>4. mem' = [mem EXCEPT ![line] = h, ![b] = t] /\ loggers[l].console
  BY <1>1 DEF BeginConsole
<1>5. mem'[b] = t /\ mem'[line] = h
  <2>1. b \in Buffers /\ line \in Buffers /\ b # line
    BY <1>2, Names
  <2>2. mem = [x \in Buffers |-> mem[x]]
    BY <1>1 DEF Inv, Shape
  <2> HIDE DEF h, t, b, line
  <2> QED
    BY <1>4, <2>1, <2>2
<1>6. Plain(h)
  <2> DEFINE config == enc[e].config
  <2>1. config.time \in Seq(Seq(STRING)) /\ \A j \in 1 .. Len(config.time) : Plain(config.time[j])
    BY <1>1, <1>4 DEF LoggerFits, Fine
  <2> HIDE DEF config
  <2>2. IsASeq(config.time)
    BY ONLY <2>1, Zenon DEF IsASeq
  <2> QED
    BY <2>1, <2>2, HeaderPlain DEF config
<1> HIDE DEF r, h
<1>7. enc'[p].config = enc[e].config /\ enc'[p].openNamespaces = enc[e].openNamespaces
  BY <1>1, <1>2, BeginsClone
<1>8. BusyFits(r, loggers[l], enc[e].config, enc'[p], t)
  <2> DEFINE g == loggers[l]
             s == enc[e]
             x == enc'[p]
  <2>1. /\ LoggerFits(g, s, t) /\ r.op = "entry" /\ g.console
        /\ r.open = <<[what |-> Object, path |-> g.path]>>
        /\ r.meant = g.meant /\ r.nested = g.nested /\ r.timed = g.timed
        /\ x.config = s.config /\ x.openNamespaces = s.openNamespaces
    BY <1>1, <1>3, <1>4, <1>7
  <2> HIDE DEF g, s, x, t
  <2>2. BusyFits(r, g, s.config, x, t)
    BY <2>1, ContextStarts
  <2> QED
    BY <2>2 DEF g, s, x
<1> QED
  BY <1>1, <1>2, <1>3, <1>4, <1>5, <1>6, <1>8, BeginsOK

(* Only what a frame is, and where, counts. *)
LEMMA SameFrame ==
  ASSUME NEW F, NEW n, NEW open, NEW path, FramesFit(n, F, open, path), Len(F) = 1,
         NEW G, IsASeq(G), Len(G) = 1, G[1].what = F[1].what, G[1].path = F[1].path
  PROVE  FramesFit(n, G, open, path)
BY DEF FramesFit

LEMMA SameFrames ==
  ASSUME NEW c, NEW n, NEW F, NEW meant, ContextSays(c, n, F, meant), Len(F) = 1, F[1].what = Object,
         NEW G, IsASeq(G), Len(G) = 1, G[1].what = Object, G[1].path = F[1].path
  PROVE  ContextSays(c, n, G, meant)
<1> SUFFICES ASSUME NEW r, NEW base, InObject(r, base) PROVE TextSays(r, base, c, n, G, meant)
  BY DEF ContextSays
<1>1. TextSays(r, base, c, n, F, meant)
  BY DEF ContextSays
<1>2. PICK need, open, path, str :
        /\ Reads(r, c, St(need, "text", open, path, str, base \o meant))
        /\ FramesFit(n, F, open, path)
        /\ NeedFits(c, Last(F).what, need)
  BY <1>1 DEF TextSays
<1>3. FramesFit(n, G, open, path)
  BY <1>2, SameFrame
<1>4. Last(F).what = Object /\ Last(G).what = Object
  BY DEF Last
<1> QED
  BY <1>1, <1>2, <1>3, <1>4 DEF TextSays

(* The clone becomes the encoder of a new logger. *)
LEMMA EndWithOK ==
  ASSUME LInv, NEW p \in Procs, EndWith(p)
  PROVE  LInv'
<1> DEFINE s == call[p]
           c == s.enc
           g == loggers[s.logger]
           path == Last(s.open).path
           x == [console |-> g.console, enc |-> c, path |-> path, meant |-> s.meant,
                 nested |-> s.nested, timed |-> s.timed, n |-> s.n]
           t == mem[<<"buf", c>>]
<1>0. PICK L : L = Len(loggers) + 1
  OBVIOUS
<1>1. /\ Inv /\ s.op = "with" /\ Busy(p) /\ ~Nested(p)
      /\ loggers' = Append(loggers, x)
      /\ call' = [call EXCEPT ![p] = Idle] /\ UNCHANGED <<enc, pool, mem, free>>
  BY DEF EndWith, LInv, Busy, Frame
<1>2. Inv'
  BY <1>1, EndWithInv
<1>3. /\ c \in Encoders /\ enc[c].buf = <<"buf", c>> /\ OpenOK(s.open) /\ Len(s.open) = 1
  <2>1. c \in Encoders /\ enc[c].buf = <<"buf", c>> /\ OpenOK(s.open)
    BY <1>1, BusyFacts
  <2> DEFINE j == Len(s.open)
  <2>2. j \in Nat /\ j >= 1 /\ ~ (j > 1)
    BY <1>1, <2>1, SeqFacts DEF OpenOK, Nested
  <2> HIDE DEF j
  <2>3. j = 1
    BY <2>2
  <2> QED
    BY <2>1, <2>3 DEF j
<1>4. /\ s.logger \in DOMAIN loggers
      /\ BusyFits(s, g, enc[g.enc].config, enc[c], t)
      /\ Fine(enc[c].config, g.console)
  BY <1>1, FineFields DEF LInv, CallOK, CallFits, Mine
<1>5. /\ x.console = g.console /\ x.enc = c /\ x.path = path /\ x.meant = s.meant
      /\ x.nested = s.nested /\ x.timed = s.timed
  OBVIOUS
<1> HIDE DEF x
<1>6. LoggerFits(x, enc[c], t)
  <2> DEFINE G == <<[what |-> Object, path |-> path]>>
             n == enc[c].openNamespaces
             F == s.open
             m == s.meant
  <2> SUFFICES ASSUME ~s.nested, ~s.timed PROVE ContextSays(t, n, G, m)
    BY <1>4, <1>5 DEF LoggerFits
  <2>1. ContextSays(t, n, F, m)
    <3>1. \A start, base : InObject(start, base) => From(s, g, enc[g.enc].config, start, base)
      BY <1>1 DEF From
    <3> QED
      BY <1>4, <3>1 DEF BusyFits, ContextSays
  <2>2. IsASeq(G) /\ Len(G) = 1 /\ G[1].what = Object /\ G[1].path = path
    BY OneSeq
  <2>3. F[1].what = Object /\ F[1].path = path /\ Len(F) = 1
    BY <1>3 DEF OpenOK, Last
  <2> HIDE DEF G, n, F, m, t, path
  <2> QED
    BY <2>1, <2>2, <2>3, SameFrames
<1>7. /\ DOMAIN loggers' = 1 .. L /\ loggers'[L] = x /\ L \in DOMAIN loggers'
      /\ DOMAIN loggers = 1 .. Len(loggers) /\ Len(loggers) \in Nat
      /\ \A l \in DOMAIN loggers : l \in DOMAIN loggers' /\ loggers'[l] = loggers[l]
  <2>1. IsASeq(loggers)
    BY <1>1 DEF Inv, Shape
  <2> QED
    BY <1>0, <1>1, <2>1, AppendSeq
<1>8. call'[p] = Idle /\ Others(p)
  BY <1>1 DEF Inv, Shape, Others
<1>9. Apart(p, p) /\ p \in Encoders
  <2>1. p \in Encoders /\ ~OfLogger(p)
    BY <1>1, IndexFacts, Names
  <2>2. Touches(p)
    BY <1>1, <2>1 DEF Touches
  <2>3. \A q \in Procs : q # p /\ Busy(q) => call[q].enc # p
    BY <1>1, Names DEF Inv, Calls, CallInv, Busy
  <2> QED
    BY <1>7, <1>8, <2>1, <2>2, <2>3 DEF Apart
<1>10. \A l \in DOMAIN loggers :
         LoggerOK(l)' /\ enc'[loggers[l].enc] = enc[loggers[l].enc]
  BY <1>1, <1>9, ApartLogger DEF LInv
<1>11. \A q \in Procs : q # p => CallOK(q)'
  BY <1>1, <1>9, <1>10, ApartCall DEF LInv
<1>12. CallOK(p)'
  BY <1>8 DEF CallOK, CallFits, Idle
<1>13. LoggerOK(L)'
  BY <1>1, <1>5, <1>6, <1>7 DEF LoggerOK
<1>14. \A l \in DOMAIN loggers' : LoggerOK(l)'
  <2>1. \A l \in 1 .. L : l \in 1 .. Len(loggers) \/ l = L
    BY <1>0, <1>7
  <2> QED
    BY <1>7, <1>10, <1>13, <2>1
<1> QED
  BY <1>2, <1>11, <1>12, <1>14 DEF LInv

(* What a goroutine does at the end of an entry is not for others. *)
LEMMA LastApart ==
  ASSUME Inv, NEW p \in Procs, call[p].op \in {"entry", "line"}, Touches(p), Others(p),
         loggers' = loggers
  PROVE  Apart(p, p)
<1>1. \A q \in Procs : q # p /\ Busy(q) => call[q].enc # p
  BY Names DEF Inv, Calls, CallInv, Busy
<1> QED
  BY <1>1 DEF Apart

(* It keeps the invariant if the goroutine's own part is kept. *)
LEMMA LastOK ==
  ASSUME LInv, NEW p \in Procs, Apart(p, p), loggers' = loggers, Inv', CallOK(p)'
  PROVE  LInv'
<1>1. Inv /\ p \in Encoders
  BY Names DEF LInv
<1>2. \A l \in DOMAIN loggers :
        LoggerOK(l)' /\ enc'[loggers[l].enc] = enc[loggers[l].enc]
  BY <1>1, ApartLogger DEF LInv
<1>3. \A q \in Procs : q # p => CallOK(q)'
  BY <1>1, <1>2, ApartCall DEF LInv
<1> QED
  BY <1>2, <1>3 DEF LInv

(* zap's core writes the line and frees its buffer. *)
LEMMA WriteLineOK ==
  ASSUME LInv, NEW p \in Procs, WriteLine(p)
  PROVE  LInv'
<1>1. Inv' /\ Touches(p) /\ Inv
  BY WriteLineInv DEF LInv
<1>2. call'[p] = Idle /\ Others(p) /\ loggers' = loggers /\ call[p].op = "line"
  BY <1>1 DEF WriteLine, Inv, Shape, Others
<1>3. Apart(p, p)
  BY <1>1, <1>2, LastApart
<1>4. CallOK(p)'
  BY <1>2 DEF CallOK, CallFits, Idle
<1> QED
  BY <1>1, <1>2, <1>3, <1>4, LastOK

(* A line that says what it should keeps the invariant. *)
LEMMA EntryEndsOK ==
  ASSUME LInv, NEW p \in Procs, EndJSON(p) \/ EndConsole(p),
         call'[p].logger = call[p].logger,
         NEW g, g = loggers[call[p].logger],
         LineSays(call'[p], g, enc[g.enc].config, mem'[call'[p].line])
  PROVE  LInv'
<1>1. Inv
  BY DEF LInv
<1>2. PICK G, r : Ends(p, G, r)
  BY <1>1, EndEntryEnds
<1>3. Inv' /\ Touches(p)
  BY <1>1, <1>2, EndsInv
<1>4. /\ call[p].op = "entry" /\ call'[p].op = "line" /\ Others(p) /\ loggers' = loggers
  BY <1>1, <1>2 DEF Ends, Inv, Shape, Others
<1>5. Apart(p, p)
  BY <1>1, <1>3, <1>4, LastApart
<1>6. call[p].logger \in DOMAIN loggers
  BY <1>1, <1>4 DEF Inv, Calls, CallInv
<1>7. enc'[g.enc] = enc[g.enc]
  BY <1>1, <1>5, <1>6, ApartLogger, Names DEF LInv
<1>8. CallOK(p)'
  BY <1>4, <1>6, <1>7 DEF CallOK, CallFits
<1> QED
  BY <1>3, <1>4, <1>5, <1>8, LastOK

(* What a goroutine has in hand at the end of an entry. *)
LEMMA EntryFacts ==
  ASSUME LInv, NEW p \in Procs, call[p].op = "entry", ~Nested(p)
  PROVE  /\ call[p].enc = p /\ Text(p) = mem[<<"buf", p>>] /\ Mine(p) = enc[p]
         /\ enc[p].buf = <<"buf", p>> /\ enc[p].reflectBuf \in {NoBuffer, <<"reflect", p>>}
         /\ Len(call[p].open) = 1 /\ CallRecord(call[p]) /\ call = [q \in Procs |-> call[q]]
         /\ mem = [b \in Buffers |-> mem[b]]
         /\ BusyFits(call[p], loggers[call[p].logger],
                     enc[loggers[call[p].logger].enc].config, enc[p], mem[<<"buf", p>>])
         /\ Fine(enc[p].config, loggers[call[p].logger].console)
         /\ enc[p].config = enc[loggers[call[p].logger].enc].config
         /\ loggers[call[p].logger].console => Plain(mem[<<"line", p>>]) /\ call[p].line = <<"line", p>>
<1> DEFINE g == loggers[call[p].logger]
           f == enc[g.enc].config
<1>1. Inv /\ Busy(p) /\ CallOK(p)
  BY DEF LInv, Busy
<1>2. /\ call[p].enc = p
      /\ g.console => call[p].line = <<"line", p>>
  BY <1>1 DEF Inv, Calls, CallInv
<1>3. /\ enc[p].buf = <<"buf", p>> /\ enc[p].reflectBuf \in {NoBuffer, <<"reflect", p>>}
      /\ CallRecord(call[p]) /\ OpenOK(call[p].open)
  BY <1>1, <1>2, BusyFacts
<1>4. Len(call[p].open) = 1
  <2> DEFINE j == Len(call[p].open)
  <2>1. j \in Nat /\ j >= 1 /\ ~ (j > 1)
    BY <1>3, SeqFacts DEF OpenOK, Nested
  <2> HIDE DEF j
  <2>2. j = 1
    BY <2>1
  <2> QED
    BY <2>2 DEF j
<1>5. /\ BusyFits(call[p], g, f, enc[p], mem[<<"buf", p>>])
      /\ g.console => Plain(mem[<<"line", p>>])
  BY <1>1, <1>2 DEF CallOK, CallFits
<1>6. Fine(f, g.console) /\ enc[p].config = f
  BY <1>1, <1>2, FineFields DEF Mine
<1>7. Text(p) = mem[<<"buf", p>>] /\ Mine(p) = enc[p]
  BY <1>2, <1>3 DEF Text, Mine
<1> QED
  BY <1>1, <1>2, <1>3, <1>4, <1>5, <1>6, <1>7 DEF Inv, Shape

(* A line of JSON, and one of the console, say what was meant. *)
LEMMA JSONLineSays ==
  ASSUME NEW c, NEW g, ~g.console, c.op = "entry", NEW f, NEW s, NEW t, BusyFits(c, g, f, s, t),
         Fine(f, g.console), Len(c.open) = 1, NEW spaced,
         NEW line, line = Append(TextOfLine(t, s.openNamespaces, f, c.entry, spaced), "newline"),
         NEW d, d.meant = c.meant, d.entry = c.entry, d.nested = c.nested, d.timed = c.timed
  PROVE  LineSays(d, g, f, line)
<1> DEFINE h == MeantHeader(f, c.entry)
           stack == MeantMeta(f, c.entry, "stack")
           base == Begun \o h
           meant == c.meant
           part == TextOfLine(t, s.openNamespaces, f, c.entry, spaced)
           rest == MeantOf(meant, f, c.entry)
<1> SUFFICES ASSUME ~c.timed, ~c.nested
             PROVE  /\ ReadJson(Front(line)).need = "end"
                    /\ ReadJson(Front(line)).seen = Begun \o (h \o meant \o stack)
  BY DEF LineSays, ContextReads
<1>1. TextSays(Start, base, t, s.openNamespaces, c.open, meant)
  BY DEF BusyFits, From
<1>2. f.time \in Seq(Seq(STRING)) /\ Len(f.time) <= 1
  BY DEF Fine
<1>3. JsonSays(part, base, rest)
  <2> DEFINE n == s.openNamespaces
             frames == c.open
             entry == c.entry
  <2>1. TextSays(Start, base, t, n, frames, meant) /\ Len(frames) = 1
    BY <1>1
  <2> HIDE DEF n, frames, entry, meant, base
  <2>2. JsonSays(TextOfLine(t, n, f, entry, spaced), base, MeantOf(meant, f, entry))
    BY <1>2, <2>1, JsonLine
  <2> QED
    BY <2>2 DEF n, entry
<1>4. IsASeq(h) /\ IsASeq(meant) /\ IsASeq(stack) /\ IsASeq(Begun)
  <2>1. IsASeq(stack)
    BY MeantMetaSeq
  <2>2. IsASeq(meant)
    BY <1>1 DEF TextSays
  <2>3. IsASeq(Begun)
    BY OneSeq DEF Begun
  <2>4. IsASeq(h)
    <3>1. TextSays(Start, Begun, HeaderJSON(f, c.entry, spaced), 0, <<RootPath>>, h)
      <4> HIDE DEF h
      <4> QED
        BY <1>2, HeaderSaid DEF h
    <3> QED
      BY <3>1 DEF TextSays
  <2> QED
    BY <2>1, <2>2, <2>3, <2>4
<1>5. base \o rest = Begun \o (h \o meant \o stack)
  <2>1. rest = meant \o stack
    BY DEF MeantOf
  <2> HIDE DEF h, meant, stack, rest
  <2>2. IsASeq(rest)
    BY <1>4, <2>1, ConcatSeq
  <2>3. (Begun \o h) \o rest = Begun \o (h \o rest)
    <3> DEFINE b == Begun
    <3>1. IsASeq(b) /\ IsASeq(h) /\ IsASeq(rest)
      BY <1>4, <2>2
    <3> HIDE DEF b
    <3>2. (b \o h) \o rest = b \o (h \o rest)
      BY ONLY <3>1, ConcatTwice
    <3> QED
      BY <3>2 DEF b
  <2>4. (h \o meant) \o stack = h \o (meant \o stack)
    BY <1>4, ConcatTwice
  <2> QED
    BY <2>1, <2>3, <2>4
<1> HIDE DEF part, rest, base
<1>6. Front(line) = part
  BY <1>3, FrontAppend DEF JsonSays, part
<1> QED
  BY <1>3, <1>5, <1>6 DEF JsonSays

LEMMA ConsoleLineSays ==
  ASSUME NEW c, NEW g, g.console, c.op = "entry", NEW f, NEW s, NEW t, BusyFits(c, g, f, s, t),
         Len(c.open) = 1, NEW h, Plain(h), NEW stack, StackOfConsole(stack),
         NEW line, line = LineOfConsole(h, t, s.openNamespaces, stack),
         NEW d, d.meant = c.meant, d.nested = c.nested, d.timed = c.timed
  PROVE  LineSays(d, g, f, line)
<1> SUFFICES ASSUME ~c.timed, ~c.nested, c.meant # <<>>
             PROVE  ContextReads(ConsolePart(line), c.meant)
  BY DEF LineSays
<1> DEFINE n == s.openNamespaces
           frames == c.open
           meant == c.meant
<1>1. ContextSays(t, n, frames, meant) /\ Len(frames) = 1 /\ meant # <<>>
  BY DEF BusyFits, From, ContextSays
<1>2. line = LineOfConsole(h, t, n, stack)
  OBVIOUS
<1> HIDE DEF n, frames, meant
<1>3. ContextReads(ConsolePart(LineOfConsole(h, t, n, stack)), meant)
  BY <1>1, ConsoleLine
<1> QED
  BY <1>2, <1>3 DEF meant

(* LineJSON in terms of WithMeta. *)
LEMMA LineIsText ==
  ASSUME NEW p
  PROVE  LineJSON(p) = TextOfLine(Text(p), Mine(p).openNamespaces, Mine(p).config,
                                  call[p].entry, Mine(p).spaced)
<1> DEFINE text == NamespacesClosed(Text(p), Mine(p).openNamespaces)
           config == Mine(p).config
           spaced == Mine(p).spaced
           entry == call[p].entry
           stack == WithString(Keyed(text, <<"stack">>, spaced), Meta, spaced)
<1>1. LineJSON(p) = Append(IF Has(config, entry, "stack") THEN stack ELSE text, "}")
  BY DEF LineJSON
<1>2. Closing(Object) = "}"
  BY DEF Closing
<1>3. "stack" # "ts"
  OBVIOUS
<1> HIDE DEF text, config, spaced, entry
<1>4. WithMeta(text, config, entry, "stack", spaced)
        = IF Has(config, entry, "stack") THEN stack ELSE text
  BY <1>3 DEF WithMeta
<1> HIDE DEF stack
<1>5. LineJSON(p) = Append(WithMeta(text, config, entry, "stack", spaced), Closing(Object))
  BY <1>1, <1>2, <1>4, Zenon
<1> QED
  BY <1>5 DEF TextOfLine, text, config, spaced, entry

(* What is in a buffer that is not put back. *)
LEMMA NotEmptied ==
  ASSUME NEW m, NEW bs, NEW b \in Buffers, b \notin bs
  PROVE  Emptied(m, bs)[b] = m[b]
BY DEF Emptied

(* EncodeEntry ends, in JSON. *)
LEMMA EndJSONOK ==
  ASSUME LInv, NEW p \in Procs, EndJSON(p)
  PROVE  LInv'
<1> DEFINE c == call[p]
           g == loggers[c.logger]
           f == enc[g.enc].config
           t == mem[<<"buf", p>>]
           b == <<"buf", p>>
           d == call'[p]
           text == Append(LineJSON(p), "newline")
<1>1. c.op = "entry" /\ ~Nested(p) /\ ~g.console
  BY DEF EndJSON
<1>2. /\ c.enc = p /\ Text(p) = t /\ Mine(p) = enc[p]
      /\ enc[p].buf = b /\ enc[p].reflectBuf \in {NoBuffer, <<"reflect", p>>}
      /\ Len(c.open) = 1 /\ CallRecord(c) /\ call = [q \in Procs |-> call[q]]
      /\ mem = [x \in Buffers |-> mem[x]]
      /\ BusyFits(c, g, f, enc[p], t) /\ Fine(f, g.console) /\ enc[p].config = f
  BY <1>1, EntryFacts
<1>3. /\ mem' = Emptied([mem EXCEPT ![b] = text], FreedBy(p))
      /\ call' = [call EXCEPT ![p].op = "line", ![p].line = b]
  BY <1>2 DEF EndJSON
<1>4. b \in Buffers /\ b # <<"reflect", p>>
  BY Names
<1>5. mem'[b] = text
  <2>1. b \notin FreedBy(p)
    BY <1>2, <1>4 DEF FreedBy
  <2> HIDE DEF text
  <2>2. Emptied([mem EXCEPT ![b] = text], FreedBy(p))[b] = [mem EXCEPT ![b] = text][b]
    BY <1>4, <2>1, NotEmptied
  <2>3. [mem EXCEPT ![b] = text][b] = text
    BY <1>2, <1>4
  <2> QED
    BY <1>3, <2>2, <2>3
<1>6. /\ d.meant = c.meant /\ d.entry = c.entry /\ d.nested = c.nested /\ d.timed = c.timed
      /\ d.logger = c.logger /\ d.line = b
  <2> DEFINE s == call[p]
  <2>1. d = [[s EXCEPT !.op = "line"] EXCEPT !.line = b]
    BY <1>2, <1>3
  <2>2. CallRecord(s)
    BY <1>2
  <2> HIDE DEF s, b, d
  <2>3. /\ d.meant = s.meant /\ d.entry = s.entry /\ d.nested = s.nested /\ d.timed = s.timed
        /\ d.logger = s.logger /\ d.line = b
    BY <2>1, <2>2 DEF CallRecord
  <2> QED
    BY <2>3 DEF s
<1>7. text = Append(TextOfLine(t, enc[p].openNamespaces, f, c.entry, enc[p].spaced), "newline")
  BY <1>2, LineIsText
<1>8. LineSays(d, g, f, text)
  <2> DEFINE s == enc[p]
             spaced == enc[p].spaced
  <2>1. text = Append(TextOfLine(t, s.openNamespaces, f, c.entry, spaced), "newline")
    BY <1>7
  <2>2. BusyFits(c, g, f, s, t) /\ ~g.console /\ c.op = "entry"
    BY <1>1, <1>2
  <2>3. Fine(f, g.console) /\ Len(c.open) = 1
    BY <1>2
  <2>4. d.meant = c.meant /\ d.entry = c.entry /\ d.nested = c.nested /\ d.timed = c.timed
    BY <1>6
  <2> HIDE DEF s, spaced, text, t, f, g, c, d
  <2> QED
    BY ONLY <2>1, <2>2, <2>3, <2>4, JSONLineSays
<1>9. LineSays(call'[p], g, f, mem'[call'[p].line])
  BY <1>5, <1>6, <1>8
<1> QED
  BY <1>6, <1>9, EntryEndsOK

(* EncodeEntry ends, on the console. *)
LEMMA EndConsoleOK ==
  ASSUME LInv, NEW p \in Procs, EndConsole(p)
  PROVE  LInv'
<1> DEFINE c == call[p]
           g == loggers[c.logger]
           f == enc[g.enc].config
           t == mem[<<"buf", p>>]
           b == <<"line", p>>
           d == call'[p]
           h == mem[b]
           stack == IF Has(Mine(p).config, call[p].entry, "stack")
                    THEN <<"newline", "v">> ELSE <<>>
           G == {enc[p].buf, enc[p].reflectBuf} \ {NoBuffer}
           text == WithContext(h, NamespacesClosed(Text(p), Mine(p).openNamespaces))
                     \o stack \o <<"newline">>
<1>1. c.op = "entry" /\ ~Nested(p) /\ g.console
  BY DEF EndConsole
<1>2. /\ c.enc = p /\ Text(p) = t /\ Mine(p) = enc[p]
      /\ enc[p].buf = <<"buf", p>> /\ enc[p].reflectBuf \in {NoBuffer, <<"reflect", p>>}
      /\ Len(c.open) = 1 /\ CallRecord(c) /\ call = [q \in Procs |-> call[q]]
      /\ mem = [x \in Buffers |-> mem[x]]
      /\ BusyFits(c, g, f, enc[p], t) /\ Plain(h) /\ c.line = b
  BY <1>1, EntryFacts
<1>3. /\ mem' = Emptied([mem EXCEPT ![b] = text], G)
      /\ call' = [call EXCEPT ![p].op = "line"]
  BY <1>2 DEF EndConsole
<1>4. b \in Buffers /\ b # <<"reflect", p>> /\ b # <<"buf", p>>
  BY Names
<1>5. mem'[b] = text
  <2>1. b \notin G
    BY <1>2, <1>4
  <2> HIDE DEF text, G
  <2>2. Emptied([mem EXCEPT ![b] = text], G)[b] = [mem EXCEPT ![b] = text][b]
    BY <1>4, <2>1, NotEmptied
  <2>3. [mem EXCEPT ![b] = text][b] = text
    BY <1>2, <1>4
  <2> QED
    BY <1>3, <2>2, <2>3
<1>6. /\ d.meant = c.meant /\ d.nested = c.nested /\ d.timed = c.timed
      /\ d.logger = c.logger /\ d.line = b
  <2> DEFINE s == call[p]
  <2>1. d = [s EXCEPT !.op = "line"]
    BY <1>2, <1>3
  <2>2. CallRecord(s) /\ s.line = b
    BY <1>2
  <2> HIDE DEF s, b, d
  <2>3. /\ d.meant = s.meant /\ d.nested = s.nested /\ d.timed = s.timed
        /\ d.logger = s.logger /\ d.line = b
    BY <2>1, <2>2 DEF CallRecord
  <2> QED
    BY <2>3 DEF s
<1>7. StackOfConsole(stack)
  BY DEF StackOfConsole
<1> HIDE DEF stack
<1>8. text = LineOfConsole(h, t, enc[p].openNamespaces, stack)
  BY <1>2 DEF LineOfConsole
<1>9. LineSays(d, g, f, text)
  <2> DEFINE s == enc[p]
  <2>1. text = LineOfConsole(h, t, s.openNamespaces, stack)
    BY <1>8
  <2>2. BusyFits(c, g, f, s, t) /\ g.console /\ c.op = "entry" /\ Plain(h)
    BY <1>1, <1>2
  <2>3. Len(c.open) = 1 /\ StackOfConsole(stack)
    BY <1>2, <1>7
  <2>4. d.meant = c.meant /\ d.nested = c.nested /\ d.timed = c.timed
    BY <1>6
  <2> HIDE DEF s, text, t, f, g, c, d, h
  <2> QED
    BY ONLY <2>1, <2>2, <2>3, <2>4, ConsoleLineSays
<1>10. LineSays(call'[p], g, f, mem'[call'[p].line])
  BY <1>5, <1>6, <1>9
<1> QED
  BY <1>6, <1>10, EntryEndsOK

(* A logger begins with no context. *)
LEMMA NoContext == ContextSays(<<>>, 0, <<RootPath>>, <<>>)
<1> DEFINE E == <<>>
           G == <<RootPath>>
<1>1. IsASeq(E)
  BY EmptySequence
<1>2. RootFrame(G) /\ Last(G).what = Object /\ Len(G) = 1
  <2>1. RootPath.what = Object /\ RootPath.path = <<>>
    BY DEF RootPath
  <2>2. IsASeq(G) /\ Len(G) = 1 /\ G[1] = RootPath
    BY OneSeq
  <2>3. RootFrame(G)
    <3> HIDE DEF G
    <3> QED
      BY <2>1, <2>2 DEF RootFrame
  <2> HIDE DEF G
  <2>4. Last(G) = G[1]
    BY <2>3, RootFits
  <2> QED
    BY <2>1, <2>2, <2>3, <2>4
<1> HIDE DEF G, E
<1>3. ASSUME NEW r, NEW base, InObject(r, base) PROVE TextSays(r, base, E, 0, G, E)
  <2>1. PICK need, x, str :
          need \in {"key", "firstKey"} /\ r = St(need, "text", <<Object>>, <<x>>, str, base)
    BY <1>3 DEF InObject
  <2>2. IsASeq(base) /\ base \o E = base
    BY <1>3, ConcatNone DEF InObject, E
  <2>3. Reads(r, E, r)
    BY ReadsEmpty DEF E
  <2>4. FramesFit(0, G, <<Object>>, <<x>>)
    BY <1>2, RootFits
  <2>5. NeedFits(E, Last(G).what, need)
    BY <1>2, <2>1 DEF NeedFits, E
  <2> QED
    BY <1>1, <1>2, <2>1, <2>2, <2>3, <2>4, <2>5 DEF TextSays
<1> QED
  BY <1>3 DEF ContextSays, E, G

(* The configured encoders of times and durations are fine if they append  *)
(* one value.                                                              *)
LEMMA RootFine ==
  ASSUME OneValue, NEW i \in DOMAIN Roots, NEW f, NEW keys,
         f = [keys |-> keys, time |-> Roots[i].time, duration |-> Roots[i].duration]
  PROVE  Fine(f, Roots[i].console)
<1> DEFINE time == Roots[i].time
<1>1. /\ time \in Seq(Seq(STRING)) /\ Roots[i].duration \in Seq(Seq(STRING))
      /\ Roots[i].console \in BOOLEAN
  <2> DEFINE R == [console : BOOLEAN, keys : SUBSET STRING,
                   time : Seq(Seq(STRING)), duration : Seq(Seq(STRING))]
  <2>1. Roots \in Seq(R)
    BY EncoderAssumption
  <2> HIDE DEF R
  <2>2. Roots[i] \in R
    BY <2>1
  <2> QED
    BY <2>2 DEF R
<1>2. Len(Roots[i].duration) <= 1 /\ (~Roots[i].console => Len(time) <= 1)
  BY DEF OneValue
<1>3. ASSUME Roots[i].console, NEW j \in 1 .. Len(time) PROVE Plain(time[j])
  <2> DEFINE s == time[j]
  <2>1. j \in DOMAIN time /\ s \in Seq(STRING)
    BY <1>1
  <2>2. IsASeq(s)
    <3> HIDE DEF s
    <3> QED
      BY ONLY <2>1, Zenon DEF IsASeq
  <2>3. "{" \notin Range(s)
    BY <1>3, <2>1, Zenon DEF OneValue
  <2>4. LBrace \notin Range(s)
    BY <2>3, Zenon DEF LBrace
  <2> HIDE DEF s
  <2>5. \A k \in 1 .. Len(s) : s[k] # LBrace
    BY <2>1, <2>4 DEF Range
  <2>6. Plain(s)
    BY <2>2, <2>5 DEF Plain
  <2> QED
    BY <2>6 DEF s
<1> DEFINE duration == Roots[i].duration
           console == Roots[i].console
<1>4. f.time = time /\ f.duration = duration
  OBVIOUS
<1>5. /\ time \in Seq(Seq(STRING)) /\ duration \in Seq(Seq(STRING)) /\ Len(duration) <= 1
      /\ ~console => Len(time) <= 1
      /\ console => \A j \in 1 .. Len(time) : Plain(time[j])
  BY <1>1, <1>2, <1>3
<1> HIDE DEF console, duration, time
<1>6. Fine(f, console)
  BY <1>4, <1>5, Zenon DEF Fine
<1> QED
  BY <1>6 DEF console

(* The loggers there are at first. *)
LEMMA InitLInv == OneValue /\ Init => LInv
<1> SUFFICES ASSUME OneValue, Init PROVE LInv
  OBVIOUS
<1>1. Inv
  BY InitInv
<1>2. DOMAIN Roots = 1 .. Len(Roots) /\ DOMAIN Roots \subseteq Encoders
  BY EncoderAssumption DEF Encoders
<1>3. DOMAIN loggers = DOMAIN Roots
  BY DEF Init
<1>4. ASSUME NEW l \in DOMAIN loggers PROVE LoggerOK(l)
  <2> DEFINE g == loggers[l]
             r == enc[l]
             t == mem[<<"buf", l>>]
  <2>1. /\ g.console = Roots[l].console /\ g.enc = l /\ g.path = <<>> /\ g.meant = <<>>
    BY <1>3 DEF Init
  <2>2. r = NewConsoleOrJSON(l)
    BY <1>2, <1>3 DEF Init
  <2>3. /\ r.config = [keys |-> Roots[l].keys, time |-> Roots[l].time,
                        duration |-> Roots[l].duration]
        /\ r.openNamespaces = 0
    BY <2>2 DEF NewConsoleOrJSON, NewEncoder
  <2>4. t = <<>>
    <3>1. <<"buf", l>> \in Buffers
      BY <1>2, <1>3, Names
    <3> QED
      BY <3>1 DEF Init
  <2> HIDE DEF g, r, t
  <2>5. Fine(r.config, g.console)
    BY <1>3, <2>1, <2>3, RootFine
  <2>6. ContextSays(t, r.openNamespaces, <<[what |-> Object, path |-> g.path]>>, g.meant)
    BY <2>1, <2>3, <2>4, NoContext DEF RootPath
  <2>7. LoggerFits(g, r, t)
    BY <2>5, <2>6 DEF LoggerFits
  <2> QED
    BY <2>1, <2>7 DEF LoggerOK, g, r, t
<1>5. ASSUME NEW p \in Procs PROVE CallOK(p)
  <2>1. call[p].op = "idle"
    BY DEF Init, Idle
  <2> QED
    BY <2>1 DEF CallOK, CallFits
<1> QED
  BY <1>1, <1>4, <1>5 DEF LInv

(* Every method of the encoder. *)
LEMMA MethodOK ==
  ASSUME LInv, NEW p \in Procs, Method(p)
  PROVE  LInv'
<1>1. PICK k \in Labels(p) :
        \/ \E s \in Strings : AddString(p, k, s)
        \/ \E finite \in BOOLEAN : AddFloat(p, k, finite)
        \/ AddNumber(p, k) \/ AddDuration(p, k) \/ AddTime(p, k)
        \/ AddReflected(p, k) \/ OpenNamespace(p, k)
        \/ \E what \in {Object, Array} : BeginMarshal(p, k, what)
  BY DEF Method
<1>2. CASE \/ \E s \in Strings : AddString(p, k, s)
           \/ \E finite \in BOOLEAN : AddFloat(p, k, finite)
           \/ AddNumber(p, k) \/ AddDuration(p, k)
  BY <1>2, AddPlainOK
<1>3. CASE AddTime(p, k)
  BY <1>3, AddTimeOK
<1>4. CASE AddReflected(p, k)
  BY <1>4, AddReflectedOK
<1>5. CASE OpenNamespace(p, k)
  BY <1>5, OpenNamespaceOK
<1>6. ASSUME NEW what \in {Object, Array}, BeginMarshal(p, k, what) PROVE LInv'
  BY <1>6, BeginMarshalOK
<1> QED
  BY <1>1, <1>2, <1>3, <1>4, <1>5, <1>6

(* Every step. *)
LEMMA StepLInv == LInv /\ [Next]_vars => LInv'
<1> SUFFICES ASSUME LInv, [Next]_vars PROVE LInv'
  OBVIOUS
<1>1. CASE UNCHANGED vars
  <2>1. Inv'
    <3>1. Inv /\ [Next]_vars
      BY DEF LInv
    <3> QED
      BY <3>1, StepInv
  <2>2. \A l \in DOMAIN loggers : LoggerOK(l)'
    BY <1>1 DEF LInv, LoggerOK, vars
  <2>3. \A p \in Procs : CallOK(p)'
    BY <1>1 DEF LInv, CallOK, vars
  <2>4. loggers' = loggers
    BY <1>1 DEF vars
  <2> QED
    BY <2>1, <2>2, <2>3, <2>4 DEF LInv
<1>2. CASE Next
  <2>1. PICK p \in Procs :
          \/ \E l \in DOMAIN loggers :
               BeginWith(p, l) \/ \E entry \in Entries : BeginJSON(p, l, entry)
                                                      \/ BeginConsole(p, l, entry)
          \/ Method(p)
          \/ \E failed \in BOOLEAN : EndMarshal(p, failed)
          \/ EndWith(p) \/ EndJSON(p) \/ EndConsole(p) \/ WriteLine(p)
    BY <1>2 DEF Next, WithinBounds, Method
  <2>2. ASSUME NEW l \in DOMAIN loggers, BeginWith(p, l) PROVE LInv'
    BY <2>2, BeginWithOK
  <2>3. ASSUME NEW l \in DOMAIN loggers, NEW entry \in Entries, BeginJSON(p, l, entry)
        PROVE  LInv'
    BY <2>3, BeginJSONOK
  <2>4. ASSUME NEW l \in DOMAIN loggers, NEW entry \in Entries, BeginConsole(p, l, entry)
        PROVE  LInv'
    BY <2>4, BeginConsoleOK
  <2>5. CASE Method(p)
    BY <2>5, MethodOK
  <2>6. ASSUME NEW failed \in BOOLEAN, EndMarshal(p, failed) PROVE LInv'
    BY <2>6, EndMarshalOK
  <2>7. CASE EndWith(p)
    BY <2>7, EndWithOK
  <2>8. CASE EndJSON(p)
    BY <2>8, EndJSONOK
  <2>9. CASE EndConsole(p)
    BY <2>9, EndConsoleOK
  <2>10. CASE WriteLine(p)
    BY <2>10, WriteLineOK
  <2> QED
    BY <2>1, <2>2, <2>3, <2>4, <2>5, <2>6, <2>7, <2>8, <2>9, <2>10
<1> QED
  BY <1>1, <1>2

(* What the invariant says of lines. *)
LEMMA LInvLines == LInv => LinesSayWhatWasMeant
<1> SUFFICES ASSUME LInv, NEW p \in Procs, call[p].op = "line", Structured(p),
                    ~call[p].timed, ~call[p].nested
             PROVE  /\ ReadJson(StructuredPart(p)).need = "end"
                    /\ ReadJson(StructuredPart(p)).seen = <<<<<<>>, Object>>>> \o MeantOnLine(p)
  BY DEF LinesSayWhatWasMeant
<1> DEFINE c == call[p]
           g == loggers[c.logger]
           f == enc[g.enc].config
           line == mem[c.line]
           part == StructuredPart(p)
           meant == MeantOnLine(p)
<1>1. LineSays(c, g, f, line)
  BY DEF LInv, CallOK, CallFits
<1>2. ~g.console \/ c.meant # <<>>
  BY DEF Structured
<1>3. part = IF g.console THEN ConsolePart(line) ELSE Front(line)
  BY DEF StructuredPart, ConsolePart
<1>4. meant = IF g.console THEN c.meant
              ELSE MeantHeader(f, c.entry) \o c.meant \o MeantMeta(f, c.entry, "stack")
  BY DEF MeantOnLine
<1> HIDE DEF part, meant, line, f, g
<1>5. ContextReads(part, meant)
  BY <1>1, <1>2, <1>3, <1>4 DEF LineSays
<1> QED
  BY <1>5 DEF ContextReads, Begun, part, meant

(* Lines are JSON and say what was logged, whatever the goroutines log     *)
(* through the loggers they share, however deep marshalers nest and        *)
(* whatever fails in them: every field once, in order, with its value and  *)
(* where it was meant to be.  The functions that encode times and          *)
(* durations must append one value, and the console's no bracket.          *)
THEOREM LinesAreRight == OneValue /\ Spec => []LinesSayWhatWasMeant
<1>1. OneValue /\ Init => LInv
  BY InitLInv
<1>2. LInv /\ [Next]_vars => LInv'
  BY StepLInv
<1>3. LInv => LinesSayWhatWasMeant
  BY LInvLines
<1> QED
  BY <1>1, <1>2, <1>3, PTL DEF Spec
=============================================================================
