------------------------------ MODULE Encoder ------------------------------
(***************************************************************************)
(* encoder: the JSON and the console encoder of the logs.                  *)
(*                                                                         *)
(* Goroutines share loggers.  Logger.With clones the encoder of a logger   *)
(* and adds fields to the clone; logging an entry clones it too, adds the  *)
(* fields of the entry and turns all into a line, which zap's core writes  *)
(* and frees.  A field is a sequence of calls of the encoder's Add and     *)
(* Append methods, made by zap.Field or by the MarshalLogObject and        *)
(* MarshalLogArray of a user's type; every call is a step here, and other  *)
(* goroutines work in between.                                             *)
(*                                                                         *)
(* Buffers are named, since they are pooled and could be shared; a text is *)
(* a sequence of the units of JsonReader.  path, meant, nested and timed   *)
(* are history: what the user has asked for, and in which way.             *)
(***************************************************************************)
EXTENDS JsonReader, FiniteSets

CONSTANTS
  Procs,       \* goroutines
  Roots,       \* the loggers there are: their encoders' configurations
  Keys,        \* keys of fields
  Strings,     \* values of fields that are strings
  Entries,     \* what an entry has of "name", "caller" and "stack"
  NoBuffer,
  MaxLoggers,  \* bound: loggers, Roots included
  MaxContext,  \* bound: calls of encoder methods in one With
  MaxOps       \* bound: calls of encoder methods in the loggers and in progress

(* The encoders and buffers in existence.  Which one Get returns makes no  *)
(* difference, they are alike: they are named for who may need them.       *)
Encoders == Procs \cup 1 .. MaxLoggers
Buffers == {"buf", "line", "reflect"} \X Encoders

ASSUME EncoderAssumption ==
  /\ Roots \in Seq([console : BOOLEAN, keys : SUBSET STRING,
                    time : Seq(Seq(STRING)), duration : Seq(Seq(STRING))])
  /\ MaxLoggers \in Nat /\ Len(Roots) <= MaxLoggers
  /\ IsFiniteSet(Procs) /\ Procs \cap 1 .. MaxLoggers = {}
  /\ NoBuffer \notin Buffers
  /\ Keys \subseteq Seq(STRING) /\ Strings \subseteq Seq(STRING)

VARIABLES
  enc,      \* every jsonEncoder
  pool,     \* jsonEncoders that are in _jsonPool or that New will make
  mem,      \* the bytes of every buffer
  free,     \* buffers that are in _bufferpool or that it will make
  loggers,  \* the loggers: an encoder each
  call      \* what each goroutine is doing

vars == <<enc, pool, mem, free, loggers, call>>

-----------------------------------------------------------------------------
(* The jsonEncoder and its pool. *)

(* The elements that have a key, and the values that EncodeTime and        *)
(* EncodeDuration append.                                                  *)
Config == [keys |-> {}, time |-> <<>>, duration |-> <<>>]

(* A jsonEncoder as New makes it. *)
NewEncoder ==
  [config |-> Config, buf |-> NoBuffer, spaced |-> FALSE, openNamespaces |-> 0,
   reflectBuf |-> NoBuffer]

NewConsoleOrJSON(i) ==
  [NewEncoder EXCEPT !.config = [keys |-> Roots[i].keys, time |-> Roots[i].time,
                                 duration |-> Roots[i].duration],
                     !.buf = <<"buf", i>>, !.spaced = Roots[i].console]

(* Mutant: the clone keeps the buffer of the original. *)
CloneShared(c, e, b) ==
  [enc[c] EXCEPT !.config = enc[e].config, !.spaced = enc[e].spaced,
                 !.openNamespaces = enc[e].openNamespaces, !.buf = enc[e].buf]

(* clone: a pooled jsonEncoder c with the buffer b and the state of e. *)
Clone(c, e, b) ==
  [enc[c] EXCEPT !.config = enc[e].config, !.spaced = enc[e].spaced,
                 !.openNamespaces = enc[e].openNamespaces, !.buf = b]

(* Mutant: the buffer for reflection is freed and kept. *)
ResetKeepingReflect(e) == [NewEncoder EXCEPT !.reflectBuf = enc[e].reflectBuf]

(* putJSONEncoder(e): what becomes of e, and the buffer it frees. *)
Reset(e) == NewEncoder

(* Mutant: the buffer for reflection is freed though there is none. *)
FreedByUnchecked(e) == {enc[e].reflectBuf}

FreedBy(e) == {enc[e].reflectBuf} \ {NoBuffer}

(* A buffer that is put back is emptied here; the code does it in Get. *)
Emptied(m, bs) == [b \in Buffers |-> IF b \in bs THEN <<>> ELSE m[b]]

-----------------------------------------------------------------------------
(* The text a jsonEncoder appends to its buffer. *)

(* addElementSeparator *)
Separated(text, spaced) ==
  IF text = <<>> \/ Last(text) \in {"{", "[", ":", ",", " "}
  THEN text
  ELSE text \o IF spaced THEN <<",", " ">> ELSE <<",">>

(* tryAddRuneSelf and tryAddRuneError, for one character. *)
Escaped(u) ==
  CASE u \in {"q", "bs"} -> <<"bs", u>>
    [] u = "newline"     -> <<"bs", "n">>
    [] u = "control"     -> <<"bs", "u00">>
    [] u = "invalid"     -> <<"bs", "ufffd">>
    [] OTHER             -> <<u>>

(* safeAddString between its quotes. *)
Quoted(s) ==
  <<"q">> \o FlattenSeq([i \in DOMAIN s |-> Escaped(s[i])]) \o <<"q">>

(* addKey *)
Keyed(text, key, spaced) ==
  Separated(text, spaced) \o Quoted(key) \o IF spaced THEN <<":", " ">> ELSE <<":">>

(* AppendString *)
WithString(text, s, spaced) == Separated(text, spaced) \o Quoted(s)

(* AppendInt64, AppendUint64 and AppendBool. *)
Number == <<"#">>
WithNumber(text, spaced) == Append(Separated(text, spaced), "#")

(* appendFloat: JSON has no number for what is not finite. *)
NotANumber == <<"NaN">>
WithFloat(text, finite, spaced) ==
  IF finite THEN WithNumber(text, spaced) ELSE WithString(text, NotANumber, spaced)

(* AppendTime and AppendDuration: what the configured encoder appends, or a *)
(* number if the buffer has not grown.                                      *)
WithEncoded(text, values, spaced) ==
  LET with(t, v) == IF v = Number THEN WithNumber(t, spaced)
                                  ELSE WithString(t, v, spaced)
  IN  IF values = <<>> THEN WithNumber(text, spaced) ELSE FoldLeft(with, text, values)

(* closeOpenNamespaces *)
NamespacesClosed(text, n) == text \o [i \in 1 .. n |-> "}"]

-----------------------------------------------------------------------------
(* What a goroutine has in hand. *)

Idle ==
  [op |-> "idle", logger |-> 0, enc |-> 0, line |-> NoBuffer, entry |-> {},
   open |-> <<>>, meant |-> <<>>, nested |-> FALSE, timed |-> FALSE, n |-> 0]

Started(op, l, e, line, entry) ==
  [op |-> op, logger |-> l, enc |-> e, line |-> line, entry |-> entry,
   open |-> <<[what |-> Object, path |-> loggers[l].path]>>,
   meant |-> loggers[l].meant, nested |-> loggers[l].nested,
   timed |-> loggers[l].timed, n |-> 0]

Init ==
  /\ enc = [e \in Encoders |-> IF e \in DOMAIN Roots THEN NewConsoleOrJSON(e)
                                                     ELSE NewEncoder]
  /\ pool = Encoders \ DOMAIN Roots
  /\ mem = [b \in Buffers |-> <<>>]
  /\ free = Buffers \ ({"buf"} \X DOMAIN Roots)
  /\ loggers = [i \in DOMAIN Roots |->
                  [console |-> Roots[i].console, enc |-> i, path |-> <<>>,
                   meant |-> <<>>, nested |-> FALSE, timed |-> FALSE, n |-> 0]]
  /\ call = [p \in Procs |-> Idle]

Busy(p)   == call[p].op \in {"with", "entry"}
Mine(p)   == enc[call[p].enc]
Text(p)   == mem[Mine(p).buf]
Frame(p)  == Last(call[p].open)
Nested(p) == Len(call[p].open) > 1

OpsUsed == MapThenSumSet(LAMBDA p : call[p].n, Procs)
             + MapThenSumSet(LAMBDA l : loggers[l].n, DOMAIN loggers)

-----------------------------------------------------------------------------
(* Methods of the encoder: calls of a field, or of a marshaler within it. *)

(* AddX writes a key first, AppendX does not; in arrays there are no keys. *)
Labels(p) == IF Frame(p).what = Object THEN Keys ELSE {Element}

Labelled(p, k) ==
  IF Frame(p).what = Object THEN Keyed(Text(p), k, Mine(p).spaced) ELSE Text(p)

(* A string reads as it was, but for bytes that are not UTF-8. *)
AsRead(s) == [i \in DOMAIN s |-> IF s[i] = "invalid" THEN "replacement" ELSE s[i]]

Place(p, k) == Append(Frame(p).path, AsRead(k))

(* The call of the next method, which the user means to say v at k. *)
Ready(p, k) == Busy(p) /\ k \in Labels(p)

Says(p, k, v) ==
  [call[p] EXCEPT !.n = @ + 1, !.meant = Append(@, <<Place(p, k), v>>)]

Put(p, text) == mem' = [mem EXCEPT ![Mine(p).buf] = text]

(* A method that appends one value: the text is then t, and it reads as v. *)
AddValue(p, k, t, v) ==
  /\ Ready(p, k)
  /\ Put(p, t)
  /\ call' = [call EXCEPT ![p] = Says(p, k, v)]
  /\ UNCHANGED <<enc, pool, free, loggers>>

AddString(p, k, s) ==
  AddValue(p, k, WithString(Labelled(p, k), s, Mine(p).spaced), AsRead(s))

AddNumber(p, k) ==
  AddValue(p, k, WithNumber(Labelled(p, k), Mine(p).spaced), Number)

AddFloat(p, k, finite) ==
  AddValue(p, k, WithFloat(Labelled(p, k), finite, Mine(p).spaced),
           IF finite THEN Number ELSE NotANumber)

(* What a time or a duration reads as. *)
Said(values) == IF values = <<>> THEN Number ELSE AsRead(Head(values))

AddDuration(p, k) ==
  LET duration == Mine(p).config.duration
  IN  AddValue(p, k, WithEncoded(Labelled(p, k), duration, Mine(p).spaced),
               Said(duration))

AddTime(p, k) ==
  LET time == Mine(p).config.time
  IN  /\ Ready(p, k)
      /\ Put(p, WithEncoded(Labelled(p, k), time, Mine(p).spaced))
      /\ call' = [call EXCEPT ![p] = [Says(p, k, Said(time)) EXCEPT
                                         !.timed = @ \/ Len(time) > 1]]
      /\ UNCHANGED <<enc, pool, free, loggers>>

(* zap.Field.AddTo adds a field when its marshaler or encoding/json fails; *)
(* an error inside a marshaler is the marshaler's business.                *)
ErrorKey == <<"Error">>
ErrorText(text, spaced) == WithString(Keyed(text, ErrorKey, spaced), <<"e">>, spaced)
ErrorPlace(p) == Append(Head(call[p].open).path, ErrorKey)

Reflected(p, k) == Append(Separated(Labelled(p, k), Mine(p).spaced), "#")

AddReflected(p, k) ==
  LET r == IF Mine(p).reflectBuf = NoBuffer THEN <<"reflect", call[p].enc>>
                                            ELSE Mine(p).reflectBuf
  IN  /\ Ready(p, k)
      /\ free' = free \ {r}
      /\ enc' = [enc EXCEPT ![call[p].enc].reflectBuf = r]
      /\ \/ /\ mem' = [mem EXCEPT ![r] = <<"#">>, ![Mine(p).buf] = Reflected(p, k)]
            /\ call' = [call EXCEPT ![p] = Says(p, k, Number)]
         \/ /\ Nested(p)
            /\ mem' = [mem EXCEPT ![r] = <<>>, ![Mine(p).buf] = Text(p)]
            /\ call' = [call EXCEPT ![p].n = @ + 1]
         \/ /\ ~Nested(p)
            /\ mem' = [mem EXCEPT ![r] = <<>>, ![Mine(p).buf] =
                          ErrorText(Text(p), Mine(p).spaced)]
            /\ call' = [call EXCEPT ![p].n = @ + 1,
                          ![p].meant = Append(@, <<ErrorPlace(p), <<"e">>>>)]
      /\ UNCHANGED <<pool, loggers>>

OpenNamespace(p, k) ==
  /\ Ready(p, k) /\ Frame(p).what = Object
  /\ Put(p, Append(Labelled(p, k), "{"))
  /\ enc' = [enc EXCEPT ![call[p].enc].openNamespaces = @ + 1]
  /\ call' = [call EXCEPT ![p] = [Says(p, k, Object) EXCEPT
                 !.open = Append(Front(@), [what |-> Object, path |-> Place(p, k)]),
                 !.nested = @ \/ Nested(p)]]
  /\ UNCHANGED <<pool, free, loggers>>

(* AppendObject and AppendArray up to the call of the marshaler ... *)
BeginMarshal(p, k, what) ==
  /\ Ready(p, k)
  /\ Put(p, Append(Separated(Labelled(p, k), Mine(p).spaced),
                   IF what = Object THEN "{" ELSE "["))
  /\ call' = [call EXCEPT ![p] = [Says(p, k, what) EXCEPT
                 !.open = Append(@, [what |-> what, path |-> Place(p, k)])]]
  /\ UNCHANGED <<enc, pool, free, loggers>>

(* ... and from its return on: the bracket is closed whether it failed or not. *)
EndMarshal(p, failed) ==
  LET text == Append(Text(p), IF Frame(p).what = Object THEN "}" ELSE "]")
      told == failed /\ Len(call[p].open) = 2
  IN  /\ Busy(p) /\ Nested(p)
      /\ Put(p, IF told THEN ErrorText(text, Mine(p).spaced) ELSE text)
      /\ call' = [call EXCEPT ![p].open = Front(@),
                     ![p].meant = IF told THEN Append(@, <<ErrorPlace(p), <<"e">>>>)
                                          ELSE @]
      /\ UNCHANGED <<enc, pool, free, loggers>>

-----------------------------------------------------------------------------
(* Logger.With: Clone, the fields, and a new logger. *)

Take(c, e, b, text) ==
  /\ c \in pool /\ b \in free
  /\ enc' = [enc EXCEPT ![c] = Clone(c, e, b)]
  /\ mem' = [mem EXCEPT ![b] = text]
  /\ pool' = pool \ {c}

BeginWith(p, l) ==
  LET c == 1 + Len(loggers) + Cardinality({q \in Procs : call[q].op = "with"})
      b == <<"buf", c>>
      e == loggers[l].enc
  IN  /\ call[p].op = "idle" /\ c <= MaxLoggers
      /\ Take(c, e, b, mem[enc[e].buf])
      /\ free' = free \ {b}
      /\ call' = [call EXCEPT ![p] = Started("with", l, c, NoBuffer, {})]
      /\ UNCHANGED loggers

EndWith(p) ==
  /\ call[p].op = "with" /\ ~Nested(p)
  /\ loggers' = Append(loggers,
       [console |-> loggers[call[p].logger].console, enc |-> call[p].enc,
        path |-> Frame(p).path, meant |-> call[p].meant,
        nested |-> call[p].nested, timed |-> call[p].timed, n |-> call[p].n])
  /\ call' = [call EXCEPT ![p] = Idle]
  /\ UNCHANGED <<enc, pool, mem, free>>

-----------------------------------------------------------------------------
(* EncodeEntry: the metadata, the context and the fields, the end. *)

(* What the entry and the configuration let a line have. *)
Has(config, entry, k) ==
  k \in config.keys /\ (k \in {"name", "caller", "stack"} => k \in entry)

Part(config, entry, k, part) == IF Has(config, entry, k) THEN part ELSE <<>>

(* Any metadata but the time is a string. *)
Meta == <<"v">>

WithMeta(text, config, entry, k, spaced) ==
  LET key == Keyed(text, <<k>>, spaced)
  IN  IF ~Has(config, entry, k) THEN text
      ELSE IF k = "ts" THEN WithEncoded(key, config.time, spaced)
      ELSE WithString(key, Meta, spaced)

HeaderJSON(config, entry, spaced) ==
  LET level  == WithMeta(<<"{">>, config, entry, "level", spaced)
      ts     == WithMeta(level, config, entry, "ts", spaced)
      name   == WithMeta(ts, config, entry, "name", spaced)
      caller == WithMeta(name, config, entry, "caller", spaced)
  IN  WithMeta(caller, config, entry, "msg", spaced)

BeginJSON(p, l, entry) ==
  LET b == <<"buf", p>>
      e == loggers[l].enc
      header == HeaderJSON(enc[e].config, entry, enc[e].spaced)
      context == mem[enc[e].buf]
  IN  /\ call[p].op = "idle" /\ ~loggers[l].console
      /\ Take(p, e, b, IF context = <<>> THEN header
                       ELSE Separated(header, enc[e].spaced) \o context)
      /\ free' = free \ {b}
      /\ call' = [call EXCEPT ![p] = Started("entry", l, p, NoBuffer, entry)]
      /\ UNCHANGED loggers

(* Mutant: the stack goes into the innermost namespace. *)
RestInside(p) ==
  LET stack == WithString(Keyed(Text(p), <<"stack">>, Mine(p).spaced), Meta, Mine(p).spaced)
      text == IF Has(Mine(p).config, call[p].entry, "stack") THEN stack ELSE Text(p)
  IN  Append(NamespacesClosed(text, Mine(p).openNamespaces), "}")

(* The namespaces are closed, then comes the stack, then the object ends. *)
LineJSON(p) ==
  LET text == NamespacesClosed(Text(p), Mine(p).openNamespaces)
      stack == WithString(Keyed(text, <<"stack">>, Mine(p).spaced), Meta, Mine(p).spaced)
  IN  Append(IF Has(Mine(p).config, call[p].entry, "stack") THEN stack ELSE text, "}")

EndJSON(p) ==
  LET e == call[p].enc
      b == enc[e].buf
  IN  /\ call[p].op = "entry" /\ ~Nested(p) /\ ~loggers[call[p].logger].console
      /\ mem' = Emptied([mem EXCEPT ![b] = Append(LineJSON(p), "newline")], FreedBy(e))
      /\ free' = free \cup FreedBy(e)
      /\ enc' = [enc EXCEPT ![e] = Reset(e)]
      /\ pool' = pool \cup {e}
      /\ call' = [call EXCEPT ![p].op = "line", ![p].line = b]
      /\ UNCHANGED loggers

Spaced(line) == IF line = <<>> THEN line ELSE Append(line, " ")

(* MyCallerEncode: the file, the line, a space, and the function. *)
CallerElements == <<Meta, <<":">>, Number, <<" ">>, Meta, <<"()">>>>

(* What level, time, name and caller append to the pooled slice, printed   *)
(* one after another.                                                      *)
Elements(config, entry) ==
  Part(config, entry, "level", Meta)
    \o Part(config, entry, "ts", FlattenSeq(config.time))
    \o Part(config, entry, "name", Meta)
    \o Part(config, entry, "caller", FlattenSeq(CallerElements))

(* The console prints the elements, a space and the message. *)
HeaderConsole(config, entry) ==
  LET elems == Elements(config, entry)
  IN  IF Has(config, entry, "msg") THEN Append(Spaced(elems), "v") ELSE elems

BeginConsole(p, l, entry) ==
  LET line == <<"line", p>>
      b == <<"buf", p>>
      e == loggers[l].enc
  IN  /\ call[p].op = "idle" /\ loggers[l].console
      /\ p \in pool /\ {line, b} \subseteq free
      /\ enc' = [enc EXCEPT ![p] = Clone(p, e, b)]
      /\ mem' = [mem EXCEPT ![line] = HeaderConsole(enc[e].config, entry),
                            ![b] = mem[enc[e].buf]]
      /\ pool' = pool \ {p}
      /\ free' = free \ {line, b}
      /\ call' = [call EXCEPT ![p] = Started("entry", l, p, line, entry)]
      /\ UNCHANGED loggers

WithContext(line, context) ==
  IF context = <<>> THEN line ELSE Spaced(line) \o <<"{">> \o context \o <<"}">>

(* The context is never put back: with its buffer for reflection it is     *)
(* garbage, and New makes such an encoder, the buffer pool such a buffer,  *)
(* again.                                                                  *)
EndConsole(p) ==
  LET e == call[p].enc
      line == WithContext(mem[call[p].line],
                          NamespacesClosed(Text(p), Mine(p).openNamespaces))
      stack == IF Has(Mine(p).config, call[p].entry, "stack")
               THEN <<"newline", "v">> ELSE <<>>
      garbage == {enc[e].buf, enc[e].reflectBuf} \ {NoBuffer}
  IN  /\ call[p].op = "entry" /\ ~Nested(p) /\ loggers[call[p].logger].console
      /\ mem' = Emptied([mem EXCEPT ![call[p].line] = line \o stack \o <<"newline">>],
                        garbage)
      /\ free' = free \cup garbage
      /\ enc' = [enc EXCEPT ![e] = NewEncoder]
      /\ pool' = pool \cup {e}
      /\ call' = [call EXCEPT ![p].op = "line"]
      /\ UNCHANGED loggers

(* zap's core writes the line and frees its buffer. *)
WriteLine(p) ==
  /\ call[p].op = "line"
  /\ free' = free \cup {call[p].line}
  /\ mem' = Emptied(mem, {call[p].line})
  /\ call' = [call EXCEPT ![p] = Idle]
  /\ UNCHANGED <<enc, pool, loggers>>

(* The bounds on what the user asks for. *)
WithinBounds(p) ==
  /\ Busy(p) /\ OpsUsed < MaxOps
  /\ call[p].op = "with" => call[p].n < MaxContext

Next ==
  \E p \in Procs :
    \/ \E l \in DOMAIN loggers :
         BeginWith(p, l) \/ \E entry \in Entries : BeginJSON(p, l, entry)
                                                \/ BeginConsole(p, l, entry)
    \/ WithinBounds(p) /\ \E k \in Labels(p) :
         \/ \E s \in Strings : AddString(p, k, s)
         \/ \E finite \in BOOLEAN : AddFloat(p, k, finite)
         \/ AddNumber(p, k) \/ AddDuration(p, k) \/ AddTime(p, k)
         \/ AddReflected(p, k) \/ OpenNamespace(p, k)
         \/ \E what \in {Object, Array} : BeginMarshal(p, k, what)
    \/ \E failed \in BOOLEAN : EndMarshal(p, failed)
    \/ EndWith(p) \/ EndJSON(p) \/ EndConsole(p) \/ WriteLine(p)

Spec == Init /\ [][Next]_vars

-----------------------------------------------------------------------------
(* Type correctness: encoders and buffers are what they should be, and an  *)
(* encoder in the pool is as New makes it.                                 *)
TypeOK ==
  /\ pool \subseteq Encoders /\ free \subseteq Buffers
  /\ \A e \in Encoders :
       /\ enc[e].buf \in Buffers \cup {NoBuffer} /\ enc[e].reflectBuf \in Buffers \cup {NoBuffer}
       /\ enc[e].openNamespaces \in Nat
  /\ \A e \in pool : enc[e] = NewEncoder
  /\ Len(loggers) \in Len(Roots) .. MaxLoggers
  /\ \A p \in Procs : Busy(p) => Head(call[p].open).what = Object

(* Encoders in use: by a logger, or by a goroutine. *)
Users ==
  {<<"logger", l>> : l \in DOMAIN loggers} \cup {<<"call", p>> : p \in {q \in Procs : Busy(q)}}

EncoderOf(u) == IF u[1] = "logger" THEN loggers[u[2]].enc ELSE call[u[2]].enc

(* Buffers in use, each with what uses it. *)
Uses ==
  {<<u, "buf", enc[EncoderOf(u)].buf>> : u \in Users}
    \cup {<<u, "reflect", enc[EncoderOf(u)].reflectBuf>> : u \in
            {w \in Users : enc[EncoderOf(w)].reflectBuf # NoBuffer}}
    \cup {<<<<"call", p>>, "line", call[p].line>> : p \in {q \in Procs : call[q].line # NoBuffer}}

(* Nothing pooled is in use, and nothing in use has two users: what        *)
(* putJSONEncoder, writeContext and zap's core give back is given back     *)
(* once, and by its only user.                                             *)
Exclusive ==
  /\ \A u \in Users : EncoderOf(u) \notin pool
  /\ \A u, w \in Users : EncoderOf(u) = EncoderOf(w) => u = w
  /\ \A a \in Uses : a[3] \notin free
  /\ \A a, b \in Uses : a[3] = b[3] => a = b

(* The fields of a logger stay what they were when With returned, whatever *)
(* entries and other loggers are made of it meanwhile: EncodeEntry and     *)
(* Clone write to a copy only.                                             *)
ContextsKept ==
  [][\A l \in DOMAIN loggers :
       LET e == loggers[l].enc
       IN  enc'[e] = enc[e] /\ mem'[enc[e].buf] = mem[enc[e].buf]]_vars

(* The structured part of a line: all of it, or the console's context. *)
StructuredPart(p) ==
  LET line == mem[call[p].line]
  IN  IF loggers[call[p].logger].console
      THEN SubSeq(line, SelectInSeq(line, LAMBDA u : u = "{"),
                        SelectLastInSeq(line, LAMBDA u : u = "}"))
      ELSE Front(line)

Structured(p) == ~loggers[call[p].logger].console \/ call[p].meant # <<>>

MeantMeta(config, entry, k) ==
  Part(config, entry, k, <<<< <<<<k>>>>, IF k = "ts" THEN Said(config.time) ELSE Meta>>>>)

MeantHeader(config, entry) ==
  MeantMeta(config, entry, "level") \o MeantMeta(config, entry, "ts")
    \o MeantMeta(config, entry, "name") \o MeantMeta(config, entry, "caller")
    \o MeantMeta(config, entry, "msg")

MeantOnLine(p) ==
  LET root == loggers[call[p].logger]
      config == enc[root.enc].config
      entry == call[p].entry
  IN  IF root.console THEN call[p].meant
      ELSE MeantHeader(config, entry) \o call[p].meant \o MeantMeta(config, entry, "stack")

(* What is asked of the functions that encode times and durations: to      *)
(* append one value.  The console may be given one that appends more, as   *)
(* in logger.go: then times are for its header only, and must not look     *)
(* like the brackets of the context.                                       *)
OneValue ==
  \A i \in DOMAIN Roots :
    /\ Len(Roots[i].duration) <= 1
    /\ ~Roots[i].console => Len(Roots[i].time) <= 1
    /\ Roots[i].console =>
         \A j \in DOMAIN Roots[i].time : \A u \in {"{", "}"} :
           u \notin Range(Roots[i].time[j])

(* A line, or the context in it, is JSON and says what was logged          *)
(* ("leaves the structured context as JSON", NewConsoleEncoder): every     *)
(* field of the logger and of the entry once, in order, with its value, in *)
(* the namespaces that were open when it was added; level, time, name,     *)
(* caller, message and stack outside of them.  This holds whatever fails   *)
(* in a marshaler, and whatever is logged meanwhile.  Excepted are the two *)
(* things the encoders get wrong: a namespace opened in a nested object,   *)
(* whose bracket closes the namespace instead of the object, and a time    *)
(* field on the console, since its EncodeTime appends several strings.     *)
LinesSayWhatWasMeant ==
  \A p \in Procs :
    call[p].op = "line" /\ Structured(p) /\ ~call[p].timed /\ ~call[p].nested
      => LET r == ReadJson(StructuredPart(p))
         IN  r.need = "end" /\ r.seen = <<<<<<>>, Object>>>> \o MeantOnLine(p)
=============================================================================
