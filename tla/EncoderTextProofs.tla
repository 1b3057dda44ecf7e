-------------------------- MODULE EncoderTextProofs --------------------------
(***************************************************************************)
(* What the texts of Encoder read as: for each function that appends to a  *)
(* buffer, that the reader of JsonReader takes what is appended, and has   *)
(* seen what was meant.  All of it is about texts of any length, and there *)
(* are no variables in it.                                                 *)
(***************************************************************************)
EXTENDS Encoder, FiniteSetTheorems, TLAPS

(* Sequences, of whatever they may be.                                     *)
IsASeq(s) == \E S : s \in Seq(S)

LEMMA AppendSeq ==
  ASSUME NEW s, IsASeq(s), NEW x
  PROVE  /\ IsASeq(Append(s, x)) /\ Len(s) \in Nat /\ Len(Append(s, x)) = Len(s) + 1
         /\ Append(s, x)[Len(s) + 1] = x
         /\ \A i \in 1 .. Len(s) : Append(s, x)[i] = s[i]
         /\ DOMAIN s = 1 .. Len(s) /\ DOMAIN Append(s, x) = 1 .. Len(s) + 1
<1>1. PICK S : s \in Seq(S)
  BY DEF IsASeq
<1>2. s \in Seq(S \cup {x})
  BY <1>1
<1>3. Append(s, x) \in Seq(S \cup {x})
  BY <1>2
<1> QED
  BY <1>2, <1>3 DEF IsASeq

LEMMA FrontSeq ==
  ASSUME NEW s, IsASeq(s), Len(s) > 1
  PROVE  IsASeq(Front(s)) /\ Len(Front(s)) = Len(s) - 1 /\ Front(s)[1] = s[1]
<1>1. PICK S : s \in Seq(S)
  BY DEF IsASeq
<1>2. Front(s) \in Seq(S) /\ Len(Front(s)) = Len(s) - 1 /\ Front(s)[1] = s[1]
  BY <1>1 DEF Front
<1> QED
  BY <1>2 DEF IsASeq

LEMMA FunctionSeq ==
  ASSUME NEW n \in Nat, NEW s, s = [i \in 1 .. n |-> s[i]]
  PROVE  IsASeq(s) /\ Len(s) = n
<1> DEFINE S == {s[i] : i \in 1 .. n}
<1>1. \A i \in 1 .. n : s[i] \in S
  OBVIOUS
<1> HIDE DEF S
<1>2. s \in [1 .. n -> S]
  BY <1>1
<1>3. s \in Seq(S) /\ Len(s) = n
  BY <1>2
<1> QED
  BY <1>3 DEF IsASeq

(* Induction over the numbers, for a set of them instead of a predicate. *)
LEMMA Induction ==
  ASSUME NEW T, 0 \in T, \A n \in Nat : n \in T => n + 1 \in T
  PROVE  \A n \in Nat : n \in T
<1> SUFFICES ASSUME NEW n \in Nat, n \notin T PROVE FALSE
  OBVIOUS
<1> DEFINE A == {i \in 0 .. n : i \in T}
           B == A \ {0}
           f == [i \in A |-> i + 1]
<1>1. IsFiniteSet(A) /\ 0 \in A
  <2>1. IsFiniteSet(0 .. n) /\ A \subseteq 0 .. n
    BY FS_Interval
  <2> QED
    BY <2>1, FS_Subset
<1>2. IsFiniteSet(B) /\ Cardinality(B) = Cardinality(A) - 1 /\ Cardinality(A) \in Nat
  BY <1>1, FS_RemoveElement, FS_CardinalityType
<1>3. f \in [A -> B]
  <2>1. ASSUME NEW i \in A PROVE i + 1 \in B
    BY <2>1
  <2> QED
    BY <2>1
<1>4. Cardinality(B) < Cardinality(A)
  BY <1>2
<1>5. \A x, y \in A : f[x] = f[y] => x = y
  OBVIOUS
<1> HIDE DEF A, B, f
<1>6. \E x, y \in A : x # y /\ f[x] = f[y]
  BY <1>1, <1>2, <1>3, <1>4, FS_PigeonHole
<1> QED
  BY <1>5, <1>6

(* What the length and the domain of a sequence are. *)
LEMMA SeqFacts ==
  ASSUME NEW s, IsASeq(s)
  PROVE  Len(s) \in Nat /\ DOMAIN s = 1 .. Len(s) /\ s = [i \in 1 .. Len(s) |-> s[i]]
BY DEF IsASeq

(* Where the elements of two sequences are when they are joined. *)
LEMMA ConcatSeq ==
  ASSUME NEW s, IsASeq(s), NEW t, IsASeq(t)
  PROVE  /\ IsASeq(s \o t) /\ Len(s \o t) = Len(s) + Len(t)
         /\ \A i \in 1 .. Len(s) : (s \o t)[i] = s[i]
         /\ \A i \in 1 .. Len(t) : (s \o t)[Len(s) + i] = t[i]
<1>1. PICK S : s \in Seq(S)
  BY DEF IsASeq
<1>2. PICK T : t \in Seq(T)
  BY DEF IsASeq
<1> DEFINE U == S \cup T
<1>3. s \in Seq(U) /\ t \in Seq(U)
  BY <1>1, <1>2
<1> HIDE DEF U
<1> QED
  BY <1>3 DEF IsASeq

(* Sequences of the same elements are the same. *)
LEMMA SameSeq ==
  ASSUME NEW s, IsASeq(s), NEW t, IsASeq(t), Len(s) = Len(t),
         \A i \in 1 .. Len(s) : s[i] = t[i]
  PROVE  s = t
<1>1. /\ s = [i \in 1 .. Len(s) |-> s[i]] /\ t = [i \in 1 .. Len(t) |-> t[i]]
  BY SeqFacts
<1> DEFINE n == Len(s)
           f == [i \in 1 .. n |-> s[i]]
           h == [i \in 1 .. n |-> t[i]]
<1>2. f = h /\ n = Len(t)
  OBVIOUS
<1>3. s = f /\ t = h
  BY <1>1
<1> QED
  BY <1>2, <1>3

(* g reads the text t from the state r. *)
Trace(g, r, t) ==
  /\ g[0] = r
  /\ \A i \in 1 .. Len(t) : g[i] = ReadUnit(g[i - 1], t[i])

(* Reading t from the state r leads to the state s. *)
Reads(r, t, s) == IsASeq(t) /\ \E g : Trace(g, r, t) /\ g[Len(t)] = s

(* Nothing changes when nothing is read, and two texts are read one after  *)
(* the other.                                                              *)
LEMMA ReadsEmpty == \A r : Reads(r, <<>>, r)
<1> SUFFICES ASSUME NEW r PROVE Reads(r, <<>>, r)
  OBVIOUS
<1>1. IsASeq(<<>>) /\ Len(<<>>) = 0
  <2>1. <<>> \in Seq({})
    OBVIOUS
  <2> QED
    BY <2>1 DEF IsASeq
<1> DEFINE g == [i \in {0} |-> r]
<1>2. Trace(g, r, <<>>) /\ g[0] = r
  BY <1>1 DEF Trace
<1> QED
  BY <1>1, <1>2 DEF Reads

LEMMA ReadsThen ==
  ASSUME NEW r, NEW t, NEW s, Reads(r, t, s), NEW u, NEW x, Reads(s, u, x)
  PROVE  Reads(r, t \o u, x)
<1>1. PICK g : Trace(g, r, t) /\ g[Len(t)] = s
  BY DEF Reads
<1>2. PICK h : Trace(h, s, u) /\ h[Len(u)] = x
  BY DEF Reads
<1> DEFINE m == Len(t)
           n == Len(u)
           w == t \o u
           k == [i \in 0 .. m + n |-> IF i <= m THEN g[i] ELSE h[i - m]]
<1>3. /\ m \in Nat /\ n \in Nat /\ IsASeq(w) /\ Len(w) = m + n
      /\ \A i \in 1 .. m : w[i] = t[i]
      /\ \A i \in 1 .. n : w[m + i] = u[i]
  <2>1. IsASeq(t) /\ IsASeq(u)
    BY DEF Reads
  <2>2. IsASeq(w) /\ Len(w) = Len(t) + Len(u) /\ Len(t) \in Nat /\ Len(u) \in Nat
    BY <2>1, ConcatSeq, SeqFacts
  <2> QED
    BY <2>1, <2>2, ConcatSeq
<1>4. ASSUME NEW i \in 1 .. m + n PROVE k[i] = ReadUnit(k[i - 1], w[i])
  <2>1. CASE i <= m
    <3>1. k[i] = g[i] /\ k[i - 1] = g[i - 1] /\ w[i] = t[i] /\ i \in 1 .. m
      BY <1>3, <2>1
    <3> QED
      BY <1>1, <3>1 DEF Trace
  <2>2. CASE i > m
    <3> DEFINE j == i - m
    <3>1. j \in 1 .. n /\ i = m + j
      BY <1>3, <2>2
    <3>2. k[i] = h[j] /\ w[i] = u[j]
      BY <1>3, <3>1
    <3>3. k[i - 1] = h[j - 1]
      <4>1. CASE j = 1
        BY <1>1, <1>2, <1>3, <3>1, <4>1 DEF Trace
      <4>2. CASE j > 1
        BY <1>3, <3>1, <4>2
      <4> QED
        BY <1>3, <3>1, <4>1, <4>2
    <3>4. h[j] = ReadUnit(h[j - 1], u[j])
      BY <1>2, <3>1 DEF Trace
    <3> QED
      BY <3>2, <3>3, <3>4
  <2> QED
    BY <1>3, <2>1, <2>2
<1>5. k[0] = r
  BY <1>1, <1>3 DEF Trace
<1>6. k[m + n] = x
  <2>1. CASE n = 0
    BY <1>1, <1>2, <1>3, <2>1 DEF Trace
  <2>2. CASE n > 0
    BY <1>2, <1>3, <2>2
  <2> QED
    BY <1>3, <2>1, <2>2
<1> HIDE DEF k, w, m, n
<1>7. Trace(k, r, w) /\ k[Len(w)] = x
  BY <1>3, <1>4, <1>5, <1>6 DEF Trace
<1> QED
  BY <1>3, <1>7 DEF Reads, w

LEMMA ReadsOne == \A r, u : Reads(r, <<u>>, ReadUnit(r, u))
<1> SUFFICES ASSUME NEW r, NEW u PROVE Reads(r, <<u>>, ReadUnit(r, u))
  OBVIOUS
<1> DEFINE t == <<u>>
           g == [i \in 0 .. 1 |-> IF i = 0 THEN r ELSE ReadUnit(r, u)]
<1>1. t \in Seq({u}) /\ Len(t) = 1 /\ t[1] = u
  OBVIOUS
<1>2. g[0] = r /\ g[1] = ReadUnit(r, u)
  OBVIOUS
<1> HIDE DEF t, g
<1>3. \A i \in 1 .. Len(t) : g[i] = ReadUnit(g[i - 1], t[i])
  BY <1>1, <1>2
<1>4. IsASeq(t) /\ Trace(g, r, t) /\ g[Len(t)] = ReadUnit(r, u)
  BY <1>1, <1>2, <1>3 DEF IsASeq, Trace
<1>5. Reads(r, t, ReadUnit(r, u))
  BY <1>4 DEF Reads
<1> QED
  BY <1>5 DEF t

(* Only one state can be reached, and ReadJson finds it. *)
LEMMA ReadsUnique ==
  ASSUME NEW t, IsASeq(t), NEW r, NEW g, Trace(g, r, t), NEW h, Trace(h, r, t)
  PROVE  \A i \in 0 .. Len(t) : g[i] = h[i]
<1> DEFINE T == {i \in Nat : i <= Len(t) => g[i] = h[i]}
<1>0. Len(t) \in Nat
  BY SeqFacts
<1>1. 0 \in T
  BY DEF Trace
<1>2. ASSUME NEW n \in Nat, n \in T PROVE n + 1 \in T
  <2> SUFFICES ASSUME n + 1 <= Len(t) PROVE g[n + 1] = h[n + 1]
    OBVIOUS
  <2>1. n + 1 \in 1 .. Len(t) /\ (n + 1) - 1 = n /\ g[n] = h[n]
    BY <1>0, <1>2
  <2> QED
    BY <2>1 DEF Trace
<1> HIDE DEF T
<1>3. \A n \in Nat : n \in T
  BY <1>1, <1>2, Induction
<1> QED
  BY <1>0, <1>3 DEF T

(* ReadJson, a fold, is in the state that a trace ends in. *)
LEMMA ReadJsonReads ==
  ASSUME NEW t, NEW s, Reads(Start, t, s)
  PROVE  ReadJson(t) = s
<1>1. PICK g : Trace(g, Start, t) /\ g[Len(t)] = s
  BY DEF Reads
<1>2. Len(t) \in Nat /\ IsASeq(t)
  BY SeqFacts DEF Reads
<1> DEFINE D == 0 .. Len(t)
           Step(f) == [i \in D |-> IF i = 0 THEN Start ELSE ReadUnit(f[i - 1], t[i])]
           read == CHOOSE f : f = Step(f)
           h == [i \in D |-> g[i]]
<1>3. h = Step(h)
  <2>1. ASSUME NEW i \in D PROVE h[i] = IF i = 0 THEN Start ELSE ReadUnit(h[i - 1], t[i])
    <3>1. CASE i = 0
      BY <1>1, <1>2, <3>1 DEF Trace
    <3>2. CASE i # 0
      <4>1. i \in 1 .. Len(t) /\ i - 1 \in D
        BY <1>2, <3>2
      <4> QED
        BY <1>1, <4>1 DEF Trace
    <3> QED
      BY <3>1, <3>2
  <2> QED
    BY <2>1
<1>4. read = Step(read)
  <2> HIDE DEF h
  <2> QED
    BY <1>3
<1>5. ReadJson(t) = read[Len(t)]
  BY DEF ReadJson
<1> HIDE DEF read
<1>6. Trace(read, Start, t)
  <2>1. read[0] = Start
    BY <1>2, <1>4
  <2>2. ASSUME NEW i \in 1 .. Len(t) PROVE read[i] = ReadUnit(read[i - 1], t[i])
    BY <1>2, <1>4
  <2> QED
    BY <2>1, <2>2 DEF Trace
<1>7. read[Len(t)] = g[Len(t)]
  BY <1>1, <1>2, <1>6, ReadsUnique
<1> QED
  BY <1>1, <1>5, <1>7

(* A state of the reader. *)
St(need, in, open, path, str, seen) ==
  [need |-> need, in |-> in, open |-> open, path |-> path, str |-> str, seen |-> seen]

(* What each unit does to the reader: quotes, the colon, the space, the    *)
(* comma, a number, and what stands in a string.                           *)
LEMMA ReadQuote ==
  ASSUME NEW need \in {"value", "first", "key", "firstKey"},
         NEW open, NEW path, NEW str, NEW seen
  PROVE  ReadUnit(St(need, "text", open, path, str, seen), "q")
           = St(need, "string", open, path, <<>>, seen)
BY DEF ReadUnit, ReadText, St

LEMMA ReadEndOfKey ==
  ASSUME NEW need \in {"key", "firstKey"},
         NEW open, NEW path, NEW str, NEW seen
  PROVE  ReadUnit(St(need, "string", open, path, str, seen), "q")
           = St("colon", "text", open, Append(Front(path), str), str, seen)
<1> DEFINE r == St(need, "string", open, path, str, seen)
<1>1. /\ r.need = need /\ r.in = "string" /\ r.path = path /\ r.str = str
      /\ need # "wrong"
  BY DEF St
<1>2. ReadUnit(r, "q") = EndString(r)
  <2> HIDE DEF r
  <2> QED
    BY <1>1 DEF ReadUnit, ReadInString, Raw
<1>3. EndString(r)
        = [r EXCEPT !.path = Append(Front(@), r.str), !.need = "colon", !.in = "text"]
  BY <1>1 DEF EndString
<1> DEFINE x == Append(Front(path), str)
<1>4. EndString(r) = [r EXCEPT !.path = x, !.need = "colon", !.in = "text"]
  BY <1>1, <1>3
<1> HIDE DEF x
<1>5. EndString(r) = St("colon", "text", open, x, str, seen)
  BY <1>4 DEF St
<1> HIDE DEF r
<1> QED
  BY <1>2, <1>4, <1>5 DEF r, x

LEMMA ReadEndOfString ==
  ASSUME NEW need \in {"value", "first"}, NEW open, open # <<>>,
         NEW path, NEW str, NEW seen
  PROVE  ReadUnit(St(need, "string", open, path, str, seen), "q")
           = St("next", "text", open, path, str, Append(seen, <<path, str>>))
<1> DEFINE r == St(need, "string", open, path, str, seen)
           s == St(need, "text", open, path, str, seen)
<1>1. r.need = need /\ r.in = "string" /\ r.str = str /\ need # "wrong"
  BY DEF St
<1>2. ReadUnit(r, "q") = EndString(r)
  <2> HIDE DEF r
  <2> QED
    BY <1>1 DEF ReadUnit, ReadInString, Raw
<1>3. EndString(r) = Leaf([r EXCEPT !.in = "text"], r.str)
  BY <1>1 DEF EndString
<1>4. [r EXCEPT !.in = "text"] = s
  BY DEF St
<1> DEFINE y == Append(seen, <<path, str>>)
<1>5. s.path = path /\ s.seen = seen /\ s.open = open
  BY DEF St
<1>6. Leaf(s, str) = [s EXCEPT !.seen = y, !.need = "next"]
  BY <1>5 DEF Leaf, AfterValue
<1> HIDE DEF y
<1>7. Leaf(s, str) = St("next", "text", open, path, str, y)
  BY <1>6 DEF St
<1> HIDE DEF r, s
<1> QED
  BY <1>1, <1>2, <1>3, <1>4, <1>7 DEF r, y

LEMMA ReadColon ==
  ASSUME NEW open, NEW path, NEW str, NEW seen
  PROVE  ReadUnit(St("colon", "text", open, path, str, seen), ":")
           = St("value", "text", open, path, str, seen)
BY DEF ReadUnit, ReadText, St

LEMMA ReadSpace ==
  ASSUME NEW need, need # "wrong", NEW open, NEW path, NEW str, NEW seen
  PROVE  ReadUnit(St(need, "text", open, path, str, seen), " ")
           = St(need, "text", open, path, str, seen)
BY DEF ReadUnit, ReadText, St

LEMMA ReadComma ==
  ASSUME NEW open, open # <<>>, NEW path, NEW str, NEW seen
  PROVE  ReadUnit(St("next", "text", open, path, str, seen), ",")
           = St(IF Last(open) = Object THEN "key" ELSE "value",
                "text", open, path, str, seen)
BY DEF ReadUnit, ReadText, Within, St

LEMMA ReadNumber ==
  ASSUME NEW need \in {"value", "first"}, NEW open, open # <<>>,
         NEW path, NEW str, NEW seen
  PROVE  ReadUnit(St(need, "text", open, path, str, seen), "#")
           = St("next", "text", open, path, str, Append(seen, <<path, Number>>))
BY DEF ReadUnit, ReadText, Leaf, AfterValue, Number, St

(* What one unit of a string reads as. *)
UnitRead(u) == IF u = "invalid" THEN "replacement" ELSE u

LEMMA ReadInside ==
  ASSUME NEW need, need # "wrong", NEW open, NEW path, NEW str, NEW seen
  PROVE  /\ ReadUnit(St(need, "string", open, path, str, seen), "bs")
              = St(need, "escape", open, path, str, seen)
         /\ \A u : u \notin {"q", "bs", "newline", "control", "invalid"} =>
              ReadUnit(St(need, "string", open, path, str, seen), u)
                = St(need, "string", open, path, Append(str, u), seen)
BY DEF ReadUnit, ReadInString, Raw, St

LEMMA ReadEscaped ==
  ASSUME NEW need, need # "wrong", NEW open, NEW path, NEW str, NEW seen,
         NEW u \in {"q", "bs", "n", "u00", "ufffd"}
  PROVE  ReadUnit(St(need, "escape", open, path, str, seen), u)
           = St(need, "string", open, path, Append(str, Escapes[u]), seen)
BY DEF ReadUnit, ReadEscape, Escapes, St

(* Sequences of one element, of none, and with one element more. *)
LEMMA OneSeq ==
  ASSUME NEW u
  PROVE  IsASeq(<<u>>) /\ Len(<<u>>) = 1 /\ <<u>>[1] = u /\ Last(<<u>>) = u
<1> DEFINE t == <<u>>
<1>1. t \in Seq({u}) /\ Len(t) = 1 /\ t[1] = u
  OBVIOUS
<1> HIDE DEF t
<1>2. IsASeq(t) /\ Last(t) = u
  BY <1>1 DEF IsASeq, Last
<1> QED
  BY <1>1, <1>2 DEF t

LEMMA EmptySequence ==
  /\ IsASeq(<<>>) /\ Len(<<>>) = 0
  /\ \A s : IsASeq(s) => (Len(s) = 0 <=> s = <<>>)
<1>1. <<>> \in Seq({}) /\ Len(<<>>) = 0
  OBVIOUS
<1>2. IsASeq(<<>>)
  BY <1>1 DEF IsASeq
<1> QED
  BY <1>1, <1>2, SameSeq

LEMMA AppendConcat ==
  ASSUME NEW t, IsASeq(t), NEW u
  PROVE  Append(t, u) = t \o <<u>>
<1> DEFINE v == <<u>>
           a == Append(t, u)
           c == t \o v
<1>1. IsASeq(v) /\ Len(v) = 1 /\ v[1] = u
  BY OneSeq
<1> HIDE DEF v
<1>2. /\ IsASeq(c) /\ Len(c) = Len(t) + 1 /\ c[Len(t) + 1] = u
      /\ \A i \in 1 .. Len(t) : c[i] = t[i]
  <2>1. /\ IsASeq(c) /\ Len(c) = Len(t) + Len(v)
        /\ \A i \in 1 .. Len(t) : c[i] = t[i]
        /\ \A i \in 1 .. Len(v) : c[Len(t) + i] = v[i]
    <3>1. IsASeq(v)
      BY <1>1
    <3> QED
      BY <3>1, ConcatSeq
  <2> HIDE DEF c
  <2> QED
    BY <1>1, <2>1
<1>3. /\ IsASeq(a) /\ Len(t) \in Nat /\ Len(a) = Len(t) + 1 /\ a[Len(t) + 1] = u
      /\ \A i \in 1 .. Len(t) : a[i] = t[i]
  BY AppendSeq
<1> HIDE DEF a, c
<1>4. \A i \in 1 .. Len(a) : a[i] = c[i]
  <2> SUFFICES ASSUME NEW i \in 1 .. Len(a) PROVE a[i] = c[i]
    OBVIOUS
  <2>1. i \in 1 .. Len(t) \/ i = Len(t) + 1
    BY <1>3
  <2> QED
    BY <1>2, <1>3, <2>1
<1>5. a = c
  BY <1>2, <1>3, <1>4, SameSeq
<1> QED
  BY <1>5 DEF a, c, v

LEMMA LastConcat ==
  ASSUME NEW s, IsASeq(s), NEW t, IsASeq(t), Len(t) >= 1
  PROVE  Last(s \o t) = Last(t) /\ s \o t # <<>> /\ Len(s \o t) >= 1
<1> DEFINE c == s \o t
           m == Len(s)
           n == Len(t)
<1>1. /\ IsASeq(c) /\ Len(c) = m + n /\ m \in Nat /\ n \in Nat
      /\ \A i \in 1 .. n : c[m + i] = t[i]
  <2>1. m \in Nat /\ n \in Nat
    BY SeqFacts
  <2>2. /\ IsASeq(c) /\ Len(c) = Len(s) + Len(t)
        /\ \A i \in 1 .. Len(t) : c[Len(s) + i] = t[i]
    BY ConcatSeq
  <2> QED
    BY <2>1, <2>2
<1>2. c[m + n] = t[n]
  BY <1>1
<1> QED
  BY <1>1, <1>2, EmptySequence DEF Last

LEMMA FrontAppend ==
  ASSUME NEW s, IsASeq(s), NEW x
  PROVE  Front(Append(s, x)) = s /\ Last(Append(s, x)) = x /\ Append(s, x) # <<>>
<1>1. PICK S : s \in Seq(S)
  BY DEF IsASeq
<1> DEFINE U == S \cup {x}
<1>2. s \in Seq(U) /\ x \in U
  BY <1>1
<1> HIDE DEF U
<1>3. /\ Append(s, x) \in Seq(U) /\ Len(Append(s, x)) = Len(s) + 1 /\ Len(s) \in Nat
      /\ Append(s, x)[Len(s) + 1] = x
      /\ \A i \in 1 .. Len(s) : Append(s, x)[i] = s[i]
  BY <1>2
<1> DEFINE a == Append(s, x)
           f == SubSeq(a, 1, Len(a) - 1)
<1>4. f \in Seq(U) /\ Len(f) = Len(s) /\ \A i \in 1 .. Len(s) : f[i] = a[i]
  <2> HIDE DEF a
  <2> QED
    BY <1>3 DEF a
<1> HIDE DEF f
<1>5. f = s
  BY <1>2, <1>3, <1>4, SameSeq DEF IsASeq
<1>6. a # <<>>
  BY <1>3, EmptySequence
<1> QED
  BY <1>3, <1>5, <1>6 DEF f, Front, Last

(* A unit more is read. *)
LEMMA ReadsAppend ==
  ASSUME NEW r, NEW t, NEW s, Reads(r, t, s), NEW u
  PROVE  Reads(r, Append(t, u), ReadUnit(s, u))
<1>1. IsASeq(t)
  BY DEF Reads
<1>2. Reads(r, t \o <<u>>, ReadUnit(s, u))
  BY ReadsOne, ReadsThen
<1> QED
  BY <1>1, <1>2, AppendConcat

LEMMA ConcatTwice ==
  ASSUME NEW s, IsASeq(s), NEW t, IsASeq(t), NEW u, IsASeq(u)
  PROVE  (s \o t) \o u = s \o (t \o u)
<1>1. PICK S : s \in Seq(S)
  BY DEF IsASeq
<1>2. PICK T : t \in Seq(T)
  BY DEF IsASeq
<1>3. PICK V : u \in Seq(V)
  BY DEF IsASeq
<1> DEFINE U == S \cup T \cup V
<1>4. s \in Seq(U) /\ t \in Seq(U) /\ u \in Seq(U)
  BY <1>1, <1>2, <1>3
<1> HIDE DEF U
<1> DEFINE a == (s \o t) \o u
           b == s \o (t \o u)
<1>5. a \in Seq(U) /\ b \in Seq(U) /\ Len(a) = Len(b) /\ \A i \in 1 .. Len(a) : a[i] = b[i]
  BY <1>4
<1> HIDE DEF a, b
<1>6. a = b
  BY <1>5, SameSeq DEF IsASeq
<1> QED
  BY <1>6 DEF a, b

-----------------------------------------------------------------------------
(* The function that FlattenSeq computes with exists. *)
LEMMA Flattened ==
  ASSUME NEW w, IsASeq(w), Len(w) >= 1
  PROVE  \E f : /\ f[1] = w[1] /\ FlattenSeq(w) = f[Len(w)]
                /\ \A i \in 2 .. Len(w) : f[i] = f[i - 1] \o w[i]
<1> DEFINE n == Len(w)
           Step(g, i) == IF i = 1 THEN w[i] ELSE g[i - 1] \o w[i]
           T == {m \in Nat : \E g : \A i \in 1 .. m : g[i] = Step(g, i)}
<1>0. n \in Nat /\ n >= 1
  BY SeqFacts
<1>1. 0 \in T
  OBVIOUS
<1>2. ASSUME NEW m \in Nat, m \in T PROVE m + 1 \in T
  <2>1. PICK g : \A i \in 1 .. m : g[i] = Step(g, i)
    BY <1>2
  <2> DEFINE h == [i \in 1 .. m + 1 |-> IF i <= m THEN g[i] ELSE Step(g, i)]
  <2>2. ASSUME NEW i \in 1 .. m + 1 PROVE h[i] = Step(h, i)
    <3>1. h[i] = Step(g, i)
      BY <2>1
    <3>2. i # 1 => h[i - 1] = g[i - 1]
      OBVIOUS
    <3> QED
      BY <3>1, <3>2
  <2> HIDE DEF h
  <2> QED
    BY <2>2
<1> HIDE DEF T
<1>3. n \in T
  BY <1>0, <1>1, <1>2, Induction
<1>4. PICK g : \A i \in 1 .. n : g[i] = Step(g, i)
  BY <1>3 DEF T
<1> DEFINE Whole(f) == [i \in 1 .. n |-> IF i = 1 THEN w[i] ELSE f[i - 1] \o w[i]]
           k == [i \in 1 .. n |-> g[i]]
           flatten == CHOOSE f : f = Whole(f)
<1>5. k = Whole(k)
  <2>1. ASSUME NEW i \in 1 .. n PROVE k[i] = IF i = 1 THEN w[i] ELSE k[i - 1] \o w[i]
    BY <1>0, <1>4
  <2> QED
    BY <2>1
<1>6. flatten = Whole(flatten)
  <2> HIDE DEF k
  <2> QED
    BY <1>5
<1>7. FlattenSeq(w) = flatten[n]
  BY <1>0 DEF FlattenSeq
<1> HIDE DEF flatten
<1>8. /\ flatten[1] = w[1]
      /\ \A i \in 2 .. n : flatten[i] = flatten[i - 1] \o w[i]
  <2>1. \A i \in 1 .. n : flatten[i] = IF i = 1 THEN w[i] ELSE flatten[i - 1] \o w[i]
    BY <1>6
  <2> HIDE DEF n
  <2>2. 1 \in 1 .. n /\ \A i \in 2 .. n : i \in 1 .. n /\ i # 1
    BY <1>0
  <2> QED
    BY <2>1, <2>2
<1> QED
  BY <1>7, <1>8

(* Sequences of two elements. *)
LEMMA TwoSeq ==
  ASSUME NEW u, NEW v
  PROVE  IsASeq(<<u, v>>) /\ Len(<<u, v>>) = 2 /\ Append(<<u>>, v) = <<u, v>>
         /\ Last(<<u, v>>) = v
<1> DEFINE a == <<u>>
           t == <<u, v>>
           c == Append(a, v)
<1>1. t \in Seq({u, v}) /\ Len(t) = 2 /\ t[1] = u /\ t[2] = v
  OBVIOUS
<1>2. IsASeq(a) /\ Len(a) = 1 /\ a[1] = u
  BY OneSeq
<1> HIDE DEF a, t
<1>3. IsASeq(t)
  BY <1>1 DEF IsASeq
<1>4. IsASeq(c) /\ Len(c) = 2 /\ c[1] = u /\ c[2] = v
  <2>1. IsASeq(a)
    BY <1>2
  <2>2. /\ IsASeq(c) /\ Len(c) = Len(a) + 1 /\ c[Len(a) + 1] = v
        /\ \A i \in 1 .. Len(a) : c[i] = a[i]
    BY <2>1, AppendSeq
  <2> HIDE DEF c
  <2> QED
    BY <1>2, <2>2
<1> HIDE DEF c
<1>5. c = t
  <2>1. \A i \in 1 .. 2 : i = 1 \/ i = 2
    OBVIOUS
  <2> QED
    BY <1>1, <1>3, <1>4, <2>1, SameSeq
<1> QED
  BY <1>1, <1>3, <1>5 DEF a, c, t, Last

(* Escaped writes what reads as the unit was, but for bytes that are not   *)
(* UTF-8: in a string, the reader is in the string again after it.         *)
LEMMA ReadsEscaped ==
  ASSUME NEW need, need # "wrong", NEW open, NEW path, NEW str, NEW seen, NEW u
  PROVE  Reads(St(need, "string", open, path, str, seen), Escaped(u),
               St(need, "string", open, path, Append(str, UnitRead(u)), seen))
<1> DEFINE r == St(need, "string", open, path, str, seen)
           e == St(need, "escape", open, path, str, seen)
           s(v) == St(need, "string", open, path, Append(str, v), seen)
<1>1. ASSUME NEW v \in {"q", "bs", "n", "u00", "ufffd"}
      PROVE  Reads(r, <<"bs", v>>, s(Escapes[v]))
  <2>1. Reads(r, <<"bs">>, e)
    <3>1. ReadUnit(r, "bs") = e
      BY ReadInside
    <3> HIDE DEF r, e
    <3> QED
      BY <3>1, ReadsOne
  <2>2. Reads(r, Append(<<"bs">>, v), ReadUnit(e, v))
    BY <2>1, ReadsAppend
  <2>3. Append(<<"bs">>, v) = <<"bs", v>>
    BY TwoSeq
  <2>4. ReadUnit(e, v) = s(Escapes[v])
    BY ReadEscaped
  <2> HIDE DEF r, e, s
  <2> QED
    BY <2>2, <2>3, <2>4
<1>2. ASSUME u \notin {"q", "bs", "newline", "control", "invalid"}
      PROVE  Reads(r, <<u>>, s(u))
  <2>1. ReadUnit(r, u) = s(u)
    BY <1>2, ReadInside
  <2> HIDE DEF r, s
  <2> QED
    BY <2>1, ReadsOne
<1>3. /\ Escapes["q"] = "q" /\ Escapes["bs"] = "bs" /\ Escapes["n"] = "newline"
      /\ Escapes["u00"] = "control" /\ Escapes["ufffd"] = "replacement"
  BY DEF Escapes
<1> SUFFICES Reads(r, Escaped(u), s(UnitRead(u)))
  OBVIOUS
<1> HIDE DEF r, s
<1>4. CASE u \in {"q", "bs"}
  <2>1. Escaped(u) = <<"bs", u>> /\ UnitRead(u) = u /\ Escapes[u] = u
    BY <1>3, <1>4 DEF Escaped, UnitRead
  <2> QED
    BY <1>1, <1>4, <2>1
<1>5. CASE u = "newline"
  <2>1. Escaped(u) = <<"bs", "n">> /\ UnitRead(u) = Escapes["n"]
    BY <1>3, <1>5 DEF Escaped, UnitRead
  <2> QED
    BY <1>1, <2>1
<1>6. CASE u = "control"
  <2>1. Escaped(u) = <<"bs", "u00">> /\ UnitRead(u) = Escapes["u00"]
    BY <1>3, <1>6 DEF Escaped, UnitRead
  <2> QED
    BY <1>1, <2>1
<1>7. CASE u = "invalid"
  <2>1. Escaped(u) = <<"bs", "ufffd">> /\ UnitRead(u) = Escapes["ufffd"]
    BY <1>3, <1>7 DEF Escaped, UnitRead
  <2> QED
    BY <1>1, <2>1
<1>8. CASE u \notin {"q", "bs", "newline", "control", "invalid"}
  <2>1. Escaped(u) = <<u>> /\ UnitRead(u) = u
    BY <1>8 DEF Escaped, UnitRead
  <2> QED
    BY <1>2, <1>8, <2>1
<1> QED
  BY <1>4, <1>5, <1>6, <1>7, <1>8

(* safeAddString, without the quotes, writes what reads as the string;     *)
(* this is an induction over the string.                                   *)
Inside(s) == FlattenSeq([i \in DOMAIN s |-> Escaped(s[i])])

(* AsRead, of each unit. *)
LEMMA AsReadSeq ==
  ASSUME NEW s, IsASeq(s)
  PROVE  IsASeq(AsRead(s)) /\ AsRead(s) = [i \in 1 .. Len(s) |-> UnitRead(s[i])]
<1>1. Len(s) \in Nat /\ DOMAIN s = 1 .. Len(s)
  BY SeqFacts
<1>2. AsRead(s) = [i \in 1 .. Len(s) |-> UnitRead(s[i])]
  BY <1>1 DEF AsRead, UnitRead
<1>3. AsRead(s) = [i \in 1 .. Len(s) |-> AsRead(s)[i]]
  BY <1>2
<1> QED
  BY <1>1, <1>2, <1>3, FunctionSeq

LEMMA ReadsInside ==
  ASSUME NEW need, need # "wrong", NEW open, NEW path, NEW seen, NEW s, IsASeq(s)
  PROVE  Reads(St(need, "string", open, path, <<>>, seen), Inside(s),
               St(need, "string", open, path, AsRead(s), seen))
<1> DEFINE w == [i \in DOMAIN s |-> Escaped(s[i])]
           n == Len(s)
           x(str) == St(need, "string", open, path, str, seen)
           prefix(i) == [j \in 1 .. i |-> UnitRead(s[j])]
<1>1. n \in Nat /\ DOMAIN s = 1 .. n
  BY SeqFacts
<1>2. IsASeq(w) /\ Len(w) = n /\ \A i \in 1 .. n : w[i] = Escaped(s[i])
  <2>1. w = [i \in 1 .. n |-> w[i]]
    BY <1>1
  <2> QED
    BY <1>1, <2>1, FunctionSeq
<1>3. AsRead(s) = prefix(n)
  BY AsReadSeq
<1>4. \A i \in Nat : IsASeq(prefix(i)) /\ Len(prefix(i)) = i
  BY FunctionSeq
<1>5. prefix(0) = <<>>
  BY <1>4, EmptySequence
<1>6. ASSUME NEW i \in Nat PROVE Append(prefix(i), UnitRead(s[i + 1])) = prefix(i + 1)
  <2> DEFINE a == prefix(i)
             b == prefix(i + 1)
             v == UnitRead(s[i + 1])
             c == Append(a, v)
  <2>1. /\ IsASeq(b) /\ Len(b) = i + 1 /\ b[i + 1] = v
        /\ \A j \in 1 .. i : b[j] = a[j]
    BY <1>4
  <2>2. IsASeq(a) /\ Len(a) = i
    BY <1>4
  <2> HIDE DEF a, b, v, c
  <2>3. IsASeq(c) /\ Len(c) = i + 1 /\ c[i + 1] = v /\ \A j \in 1 .. i : c[j] = a[j]
    BY <2>2, AppendSeq DEF c
  <2>4. \A j \in 1 .. i + 1 : j \in 1 .. i \/ j = i + 1
    OBVIOUS
  <2>5. c = b
    BY <2>1, <2>3, <2>4, SameSeq
  <2> QED
    BY <2>5 DEF a, b, v, c
<1>7. ASSUME NEW str, NEW u
      PROVE  Reads(x(str), Escaped(u), x(Append(str, UnitRead(u))))
  BY ReadsEscaped
<1> HIDE DEF x, prefix, w
<1> SUFFICES Reads(x(<<>>), Inside(s), x(AsRead(s)))
  BY DEF x
<1>8. CASE n = 0
  <2>1. s = <<>> /\ w = <<>>
    BY <1>2, <1>8, EmptySequence
  <2>2. Inside(s) = <<>>
    BY <1>2, <1>8, <2>1 DEF Inside, FlattenSeq, w
  <2> QED
    BY <1>3, <1>5, <1>8, <2>2, ReadsEmpty
<1>9. CASE n >= 1
  <2>1. PICK f : /\ f[1] = w[1] /\ FlattenSeq(w) = f[n]
                 /\ \A i \in 2 .. n : f[i] = f[i - 1] \o w[i]
    <3>1. IsASeq(w) /\ Len(w) = n /\ Len(w) >= 1
      BY <1>2, <1>9
    <3>2. \E f : /\ f[1] = w[1] /\ FlattenSeq(w) = f[Len(w)]
                 /\ \A i \in 2 .. Len(w) : f[i] = f[i - 1] \o w[i]
      BY <3>1, Flattened
    <3> QED
      BY <3>1, <3>2
  <2> DEFINE T == {i \in Nat : i + 1 <= n => Reads(x(<<>>), f[i + 1], x(prefix(i + 1)))}
  <2>2. 0 \in T
    <3>1. Reads(x(<<>>), Escaped(s[1]), x(Append(<<>>, UnitRead(s[1]))))
      BY <1>7
    <3>2. f[1] = Escaped(s[1])
      BY <1>1, <1>2, <1>9, <2>1
    <3>3. Append(prefix(0), UnitRead(s[0 + 1])) = prefix(0 + 1)
      BY <1>6
    <3> QED
      BY <1>5, <3>1, <3>2, <3>3
  <2>3. ASSUME NEW i \in Nat, i \in T PROVE i + 1 \in T
    <3> SUFFICES ASSUME i + 2 <= n PROVE Reads(x(<<>>), f[i + 2], x(prefix(i + 2)))
      OBVIOUS
    <3>1. Reads(x(<<>>), f[i + 1], x(prefix(i + 1)))
      BY <1>1, <2>3
    <3>2. f[i + 2] = f[i + 1] \o Escaped(s[i + 2])
      <4>1. i + 2 \in 2 .. n /\ (i + 2) - 1 = i + 1 /\ i + 2 \in 1 .. n
        BY <1>1
      <4> QED
        BY <1>2, <2>1, <4>1
    <3>3. x(Append(prefix(i + 1), UnitRead(s[i + 2]))) = x(prefix(i + 2))
      <4>1. i + 1 \in Nat /\ (i + 1) + 1 = i + 2
        OBVIOUS
      <4> QED
        BY <1>6, <4>1
    <3>4. Reads(x(prefix(i + 1)), Escaped(s[i + 2]), x(prefix(i + 2)))
      BY <1>7, <3>3
    <3> QED
      BY <3>1, <3>2, <3>4, ReadsThen
  <2> HIDE DEF T
  <2>4. \A i \in Nat : i \in T
    BY <2>2, <2>3, Induction
  <2>5. n - 1 \in Nat /\ (n - 1) + 1 = n
    BY <1>1, <1>9
  <2>6. Reads(x(<<>>), f[n], x(prefix(n)))
    <3>1. n - 1 \in T
      BY <2>4, <2>5
    <3>2. (n - 1) + 1 <= n => Reads(x(<<>>), f[(n - 1) + 1], x(prefix((n - 1) + 1)))
      BY <3>1 DEF T
    <3>3. n <= n
      BY <1>1
    <3> HIDE DEF n
    <3> QED
      BY <2>5, <3>2, <3>3
  <2>7. Inside(s) = f[n]
    BY <2>1 DEF Inside, w
  <2> QED
    BY <1>3, <2>6, <2>7
<1> QED
  BY <1>1, <1>8, <1>9

(* Quoted: a key if the reader needs one, a string where it needs a value. *)
LEMMA QuotedSeq ==
  ASSUME NEW r, NEW s, NEW x, NEW y, IsASeq(s),
         ReadUnit(r, "q") = x, Reads(x, Inside(s), y)
  PROVE  /\ Reads(r, Quoted(s), ReadUnit(y, "q"))
         /\ IsASeq(Quoted(s)) /\ Len(Quoted(s)) >= 1 /\ Last(Quoted(s)) = "q"
<1> DEFINE a == <<"q">> \o Inside(s)
<1>1. Quoted(s) = a \o <<"q">>
  BY DEF Quoted, Inside
<1>2. Reads(r, <<"q">>, x)
  BY ReadsOne
<1>3. Reads(r, a, y)
  BY <1>2, ReadsThen
<1>4. Reads(y, <<"q">>, ReadUnit(y, "q"))
  BY ReadsOne
<1> HIDE DEF a
<1>5. Reads(r, a \o <<"q">>, ReadUnit(y, "q"))
  BY <1>3, <1>4, ReadsThen
<1>6. IsASeq(a)
  BY <1>3 DEF Reads
<1>7. /\ IsASeq(a \o <<"q">>) /\ Len(a \o <<"q">>) >= 1
      /\ Last(a \o <<"q">>) = "q"
  <2> DEFINE b == <<"q">>
  <2>1. IsASeq(b) /\ Len(b) = 1 /\ Last(b) = "q"
    BY OneSeq
  <2> HIDE DEF b
  <2>2. IsASeq(a \o b) /\ Last(a \o b) = "q" /\ Len(a \o b) >= 1
    <3>1. IsASeq(b) /\ Len(b) >= 1
      BY <2>1
    <3>2. IsASeq(a \o b)
      BY <1>6, <3>1, ConcatSeq
    <3>3. Last(a \o b) = Last(b) /\ Len(a \o b) >= 1
      BY <1>6, <3>1, LastConcat
    <3> QED
      BY <2>1, <3>2, <3>3
  <2> QED
    BY <2>2 DEF b
<1> QED
  BY <1>1, <1>5, <1>7

LEMMA ReadsKey ==
  ASSUME NEW need \in {"key", "firstKey"}, NEW open, NEW path, NEW str, NEW seen,
         NEW s, IsASeq(s)
  PROVE  /\ Reads(St(need, "text", open, path, str, seen), Quoted(s),
                  St("colon", "text", open, Append(Front(path), AsRead(s)), AsRead(s), seen))
         /\ IsASeq(Quoted(s)) /\ Len(Quoted(s)) >= 1 /\ Last(Quoted(s)) = "q"
<1> DEFINE r == St(need, "text", open, path, str, seen)
           x == St(need, "string", open, path, <<>>, seen)
           y == St(need, "string", open, path, AsRead(s), seen)
           z == St("colon", "text", open, Append(Front(path), AsRead(s)), AsRead(s), seen)
<1>1. ReadUnit(r, "q") = x
  BY ReadQuote
<1>2. Reads(x, Inside(s), y)
  <2>1. need # "wrong"
    OBVIOUS
  <2> QED
    BY <2>1, ReadsInside
<1>3. ReadUnit(y, "q") = z
  BY ReadEndOfKey
<1> HIDE DEF r, x, y, z
<1>4. /\ Reads(r, Quoted(s), z)
      /\ IsASeq(Quoted(s)) /\ Len(Quoted(s)) >= 1 /\ Last(Quoted(s)) = "q"
  BY <1>1, <1>2, <1>3, QuotedSeq
<1> QED
  BY <1>4 DEF r, z

LEMMA ReadsString ==
  ASSUME NEW need \in {"value", "first"}, NEW open, open # <<>>,
         NEW path, NEW str, NEW seen, NEW s, IsASeq(s)
  PROVE  /\ Reads(St(need, "text", open, path, str, seen), Quoted(s),
                  St("next", "text", open, path, AsRead(s), Append(seen, <<path, AsRead(s)>>)))
         /\ IsASeq(Quoted(s)) /\ Len(Quoted(s)) >= 1 /\ Last(Quoted(s)) = "q"
<1> DEFINE r == St(need, "text", open, path, str, seen)
           x == St(need, "string", open, path, <<>>, seen)
           y == St(need, "string", open, path, AsRead(s), seen)
           z == St("next", "text", open, path, AsRead(s), Append(seen, <<path, AsRead(s)>>))
<1>1. ReadUnit(r, "q") = x
  BY ReadQuote
<1>2. Reads(x, Inside(s), y)
  <2>1. need # "wrong"
    OBVIOUS
  <2> QED
    BY <2>1, ReadsInside
<1>3. ReadUnit(y, "q") = z
  BY ReadEndOfString
<1> HIDE DEF r, x, y, z
<1>4. /\ Reads(r, Quoted(s), z)
      /\ IsASeq(Quoted(s)) /\ Len(Quoted(s)) >= 1 /\ Last(Quoted(s)) = "q"
  BY <1>1, <1>2, <1>3, QuotedSeq
<1> QED
  BY <1>4 DEF r, z

-----------------------------------------------------------------------------
(* What the reader needs after the text t, within an object or an array. *)
NeedFits(t, what, need) ==
  /\ t = <<>> => what = Object /\ need \in {"key", "firstKey"}
  /\ t # <<>> /\ Last(t) \in {"{", "["} =>
       need = IF what = Object THEN "firstKey" ELSE "first"
  /\ t # <<>> /\ Last(t) \notin {"{", "["} =>
       need = "next" /\ Last(t) \notin {":", ",", " "}

(* addElementSeparator writes a comma where the reader needs one, and only *)
(* there.                                                                  *)
LEMMA ReadsSeparated ==
  ASSUME NEW r, NEW t, NEW need, NEW open, open # <<>>, NEW path, NEW str, NEW seen,
         Reads(r, t, St(need, "text", open, path, str, seen)),
         NeedFits(t, Last(open), need), NEW spaced
  PROVE  \E want :
           /\ Reads(r, Separated(t, spaced), St(want, "text", open, path, str, seen))
           /\ Last(open) = Object => want \in {"key", "firstKey"}
           /\ Last(open) # Object => want \in {"value", "first"}
<1> DEFINE s(n) == St(n, "text", open, path, str, seen)
<1>1. CASE t = <<>> \/ Last(t) \in {"{", "["}
  <2>1. Separated(t, spaced) = t
    BY <1>1 DEF Separated
  <2>2. Reads(r, Separated(t, spaced), s(need))
    BY <2>1
  <2>3. /\ Last(open) = Object => need \in {"key", "firstKey"}
        /\ Last(open) # Object => need \in {"value", "first"}
    BY <1>1 DEF NeedFits
  <2> QED
    BY <2>2, <2>3
<1>2. CASE t # <<>> /\ Last(t) \notin {"{", "["}
  <2> DEFINE want == IF Last(open) = Object THEN "key" ELSE "value"
  <2>1. need = "next" /\ Last(t) \notin {"{", "[", ":", ",", " "}
    BY <1>2 DEF NeedFits
  <2>2. ReadUnit(s("next"), ",") = s(want)
    BY ReadComma
  <2>3. ReadUnit(s(want), " ") = s(want)
    <3>1. want # "wrong"
      OBVIOUS
    <3> HIDE DEF want
    <3> QED
      BY <3>1, ReadSpace
  <2>4. Reads(r, t, s("next"))
    BY <2>1
  <2> HIDE DEF s, want
  <2>5. Reads(s("next"), <<",">>, s(want))
    BY <2>2, ReadsOne
  <2>6. Reads(s("next"), <<",", " ">>, s(want))
    <3>1. Reads(s("next"), Append(<<",">>, " "), s(want))
      BY <2>3, <2>5, ReadsAppend
    <3>2. Append(<<",">>, " ") = <<",", " ">>
      BY TwoSeq
    <3> QED
      BY <3>1, <3>2
  <2>7. Reads(r, Separated(t, spaced), s(want))
    <3>1. Separated(t, spaced) = t \o IF spaced THEN <<",", " ">> ELSE <<",">>
      BY <1>2, <2>1 DEF Separated
    <3>2. CASE spaced
      BY <2>4, <2>6, <3>1, <3>2, ReadsThen
    <3>3. CASE ~spaced
      BY <2>4, <2>5, <3>1, <3>3, ReadsThen
    <3> QED
      BY <3>2, <3>3
  <2> QED
    BY <2>7 DEF s, want
<1> QED
  BY <1>1, <1>2

(* addKey. *)
LEMMA ReadsKeyed ==
  ASSUME NEW r, NEW t, NEW need, NEW open, open # <<>>, NEW path, NEW str, NEW seen,
         Reads(r, t, St(need, "text", open, path, str, seen)),
         NeedFits(t, Last(open), need), Last(open) = Object,
         NEW spaced, NEW key, IsASeq(key)
  PROVE  /\ Reads(r, Keyed(t, key, spaced),
                  St("value", "text", open, Append(Front(path), AsRead(key)), AsRead(key), seen))
         /\ Last(Keyed(t, key, spaced)) \in {":", " "}
<1> DEFINE there == Append(Front(path), AsRead(key))
           s(n) == St(n, "text", open, there, AsRead(key), seen)
           u == Separated(t, spaced)
           c == u \o Quoted(key)
<1>1. PICK want \in {"key", "firstKey"} : Reads(r, u, St(want, "text", open, path, str, seen))
  BY ReadsSeparated
<1>2. Reads(St(want, "text", open, path, str, seen), Quoted(key), s("colon"))
  BY ReadsKey
<1>3. Reads(r, c, s("colon"))
  BY <1>1, <1>2, ReadsThen
<1>4. ReadUnit(s("colon"), ":") = s("value") /\ ReadUnit(s("value"), " ") = s("value")
  <2>1. ReadUnit(s("colon"), ":") = s("value")
    BY ReadColon
  <2>2. "value" # "wrong"
    OBVIOUS
  <2>3. ReadUnit(s("value"), " ") = s("value")
    BY <2>2, ReadSpace
  <2> QED
    BY <2>1, <2>3
<1> HIDE DEF s
<1>5. Reads(s("colon"), <<":">>, s("value"))
  BY <1>4, ReadsOne
<1>6. Reads(s("colon"), <<":", " ">>, s("value"))
  <2>1. Reads(s("colon"), Append(<<":">>, " "), s("value"))
    BY <1>4, <1>5, ReadsAppend
  <2>2. Append(<<":">>, " ") = <<":", " ">>
    BY TwoSeq
  <2> QED
    BY <2>1, <2>2
<1>7. Keyed(t, key, spaced) = c \o IF spaced THEN <<":", " ">> ELSE <<":">>
  BY DEF Keyed
<1>8. IsASeq(c)
  BY <1>3 DEF Reads
<1> HIDE DEF c
<1>9. CASE spaced
  <2> DEFINE e == <<":", " ">>
  <2>0. IsASeq(e) /\ Len(e) = 2
    BY TwoSeq
  <2>1. Last(e) = " "
    BY TwoSeq
  <2>2. Reads(s("colon"), e, s("value")) /\ Keyed(t, key, spaced) = c \o e
    BY <1>6, <1>7, <1>9
  <2> HIDE DEF e
  <2>3. Reads(r, Keyed(t, key, spaced), s("value"))
    BY <1>3, <2>2, ReadsThen
  <2>4. Last(Keyed(t, key, spaced)) = " "
    <3>1. IsASeq(e) /\ Len(e) >= 1
      BY <2>0
    <3>2. Last(c \o e) = Last(e)
      BY <1>8, <3>1, LastConcat
    <3> QED
      BY <2>1, <2>2, <3>2
  <2> QED
    BY <2>3, <2>4 DEF s
<1>10. CASE ~spaced
  <2> DEFINE e == <<":">>
  <2>1. IsASeq(e) /\ Len(e) = 1 /\ Last(e) = ":"
    BY OneSeq
  <2>2. Reads(s("colon"), e, s("value")) /\ Keyed(t, key, spaced) = c \o e
    BY <1>5, <1>7, <1>10
  <2> HIDE DEF e
  <2>3. Reads(r, Keyed(t, key, spaced), s("value"))
    BY <1>3, <2>2, ReadsThen
  <2>4. Last(Keyed(t, key, spaced)) = ":"
    <3>1. IsASeq(e) /\ Len(e) >= 1
      BY <2>1
    <3>2. Last(c \o e) = Last(e)
      BY <1>8, <3>1, LastConcat
    <3> QED
      BY <2>1, <2>2, <3>2
  <2> QED
    BY <2>3, <2>4 DEF s
<1> QED
  BY <1>9, <1>10

(* The brackets that are open, and where in them the reader is: n          *)
(* namespaces in the first frame, and then a bracket for each other frame. *)
FramesFit(n, frames, open, path) ==
  /\ n \in Nat /\ IsASeq(frames) /\ Len(frames) >= 1
  /\ IsASeq(open) /\ Len(open) = n + Len(frames)
  /\ IsASeq(path) /\ Len(path) = n + Len(frames)
  /\ \A j \in 1 .. n + 1 : open[j] = Object
  /\ \A i \in 1 .. Len(frames) :
       /\ frames[i].what \in {Object, Array} /\ open[n + i] = frames[i].what
       /\ frames[i].what = Array => path[n + i] = Element
       /\ IsASeq(frames[i].path) /\ Len(frames[i].path) = n + i - 1
       /\ \A j \in 1 .. n + i - 1 : frames[i].path[j] = path[j]

(* What the frames say of the innermost bracket. *)
LEMMA FramesFacts ==
  ASSUME NEW n, NEW frames, NEW open, NEW path, FramesFit(n, frames, open, path)
  PROVE  /\ n \in Nat /\ Len(frames) \in Nat /\ Len(frames) >= 1
         /\ open # <<>> /\ Last(open) = Last(frames).what
         /\ Last(frames).what \in {Object, Array}
         /\ IsASeq(Last(frames).path)
<1> DEFINE m == Len(frames)
<1>1. m \in Nat /\ n \in Nat /\ m >= 1 /\ Len(open) = n + m /\ m \in 1 .. m
  BY SeqFacts DEF FramesFit
<1>2. open # <<>>
  BY <1>1, EmptySequence
<1>3. open[n + m] = frames[m].what /\ frames[m].what \in {Object, Array} /\ IsASeq(frames[m].path)
  BY <1>1 DEF FramesFit
<1>4. Last(open) = open[n + m] /\ Last(frames) = frames[m]
  BY <1>1 DEF Last
<1> QED
  BY <1>1, <1>2, <1>3, <1>4

(* A sequence without its last element. *)
LEMMA FrontFacts ==
  ASSUME NEW s, IsASeq(s), Len(s) >= 1
  PROVE  /\ IsASeq(Front(s)) /\ Len(Front(s)) = Len(s) - 1
         /\ \A i \in 1 .. Len(s) - 1 : Front(s)[i] = s[i]
<1>1. PICK S : s \in Seq(S)
  BY DEF IsASeq
<1> DEFINE f == SubSeq(s, 1, Len(s) - 1)
<1>2. f \in Seq(S) /\ Len(f) = Len(s) - 1 /\ \A i \in 1 .. Len(s) - 1 : f[i] = s[i]
  <2> DEFINE m == Len(s) - 1
             g == SubSeq(s, 1, m)
  <2>1. m \in Nat /\ Len(s) = m + 1 /\ \A i \in 1 .. m : s[i] \in S
    BY <1>1
  <2> HIDE DEF m
  <2>2. g = [i \in 1 .. m |-> s[i]]
    BY <2>1
  <2>3. g \in [1 .. m -> S]
    <3> HIDE DEF g
    <3> QED
      BY <2>1, <2>2
  <2>4. g \in Seq(S) /\ Len(g) = m
    <3> HIDE DEF g
    <3> QED
      BY <2>1, <2>3
  <2>5. \A i \in 1 .. m : g[i] = s[i]
    BY <2>2
  <2> QED
    BY <2>4, <2>5 DEF m
<1> HIDE DEF f
<1> QED
  BY <1>2 DEF Front, f, IsASeq

(* A key moves the reader on in the innermost object. *)
LEMMA FramesKey ==
  ASSUME NEW n, NEW frames, NEW open, NEW path, FramesFit(n, frames, open, path),
         Last(frames).what = Object, NEW k
  PROVE  /\ FramesFit(n, frames, open, Append(Front(path), k))
         /\ Append(Front(path), k) = Append(Last(frames).path, k)
<1> DEFINE m == Len(frames)
           f == Front(path)
           x == Append(f, k)
           g == frames[m].path
<1>1. m \in Nat /\ n \in Nat /\ m >= 1 /\ m \in 1 .. m /\ IsASeq(path) /\ Len(path) = n + m
  BY SeqFacts DEF FramesFit
<1>2. IsASeq(f) /\ Len(f) = n + m - 1 /\ \A i \in 1 .. n + m - 1 : f[i] = path[i]
  <2>1. Len(path) >= 1
    BY <1>1
  <2>2. /\ IsASeq(f) /\ Len(f) = Len(path) - 1
        /\ \A i \in 1 .. Len(path) - 1 : f[i] = path[i]
    BY <1>1, <2>1, FrontFacts
  <2> HIDE DEF m, f
  <2> QED
    BY <1>1, <2>2
<1> HIDE DEF f
<1>3. /\ IsASeq(x) /\ Len(x) = Len(f) + 1
      /\ \A i \in 1 .. Len(f) : x[i] = f[i]
  BY <1>2, AppendSeq
<1> HIDE DEF x
<1>4. /\ Len(x) = n + m /\ \A i \in 1 .. n + m - 1 : x[i] = path[i]
  <2> HIDE DEF m
  <2> QED
    BY <1>1, <1>2, <1>3
<1>5. ASSUME NEW i \in 1 .. m
      PROVE  /\ frames[i].what \in {Object, Array} /\ open[n + i] = frames[i].what
             /\ frames[i].what = Array => x[n + i] = Element
             /\ IsASeq(frames[i].path) /\ Len(frames[i].path) = n + i - 1
             /\ \A j \in 1 .. n + i - 1 : frames[i].path[j] = x[j]
  <2>1. /\ frames[i].what \in {Object, Array} /\ open[n + i] = frames[i].what
        /\ frames[i].what = Array => path[n + i] = Element
        /\ IsASeq(frames[i].path) /\ Len(frames[i].path) = n + i - 1
        /\ \A j \in 1 .. n + i - 1 : frames[i].path[j] = path[j]
    BY DEF FramesFit
  <2>2. \A j \in 1 .. n + i - 1 : j \in 1 .. n + m - 1
    BY <1>1
  <2>3. frames[i].what = Array => x[n + i] = Element
    <3> SUFFICES ASSUME frames[i].what = Array PROVE x[n + i] = Element
      OBVIOUS
    <3>1. i # m
      <4>1. frames[m].what = Object
        BY DEF Last
      <4>2. Object # Array
        BY DEF Object, Array
      <4> QED
        BY <4>1, <4>2
    <3>2. n + i \in 1 .. n + m - 1
      BY <1>1, <3>1
    <3> QED
      BY <1>4, <2>1, <3>2
  <2>4. \A j \in 1 .. n + i - 1 : frames[i].path[j] = x[j]
    BY <1>4, <2>1, <2>2
  <2> QED
    BY <2>1, <2>3, <2>4
<1>6. FramesFit(n, frames, open, x)
  BY <1>3, <1>4, <1>5 DEF FramesFit
<1>7. f = g
  <2>1. /\ IsASeq(g) /\ Len(g) = n + m - 1
        /\ \A j \in 1 .. n + m - 1 : g[j] = path[j]
    BY <1>1 DEF FramesFit
  <2> HIDE DEF g, m
  <2> QED
    BY <1>2, <2>1, SameSeq
<1>8. Last(frames).path = g
  BY DEF Last
<1> QED
  BY <1>6, <1>7, <1>8 DEF x, f

(* Where the reader is in an array. *)
LEMMA FramesElement ==
  ASSUME NEW n, NEW frames, NEW open, NEW path, FramesFit(n, frames, open, path),
         Last(frames).what = Array
  PROVE  path = Append(Last(frames).path, Element)
<1> DEFINE m == Len(frames)
           g == frames[m].path
           x == Append(g, Element)
<1>1. m \in Nat /\ n \in Nat /\ m >= 1 /\ m \in 1 .. m /\ IsASeq(path) /\ Len(path) = n + m
  BY SeqFacts DEF FramesFit
<1>2. Last(frames) = frames[m]
  BY DEF Last
<1>3. /\ IsASeq(g) /\ Len(g) = n + m - 1 /\ path[n + m] = Element
      /\ \A j \in 1 .. n + m - 1 : g[j] = path[j]
  BY <1>1, <1>2 DEF FramesFit
<1> HIDE DEF g, m
<1>4. IsASeq(x) /\ Len(x) = Len(g) + 1 /\ x[Len(g) + 1] = Element /\ \A j \in 1 .. Len(g) : x[j] = g[j]
  BY <1>3, AppendSeq
<1> HIDE DEF x
<1>5. \A j \in 1 .. n + m : j \in 1 .. n + m - 1 \/ j = n + m
  BY <1>1
<1>6. Len(x) = n + m /\ x[n + m] = Element /\ \A j \in 1 .. n + m - 1 : x[j] = path[j]
  BY <1>1, <1>3, <1>4
<1>7. path = x
  BY <1>1, <1>3, <1>4, <1>5, <1>6, SameSeq
<1> QED
  BY <1>2, <1>7 DEF g, x

(* From the state r, after which base has been seen, the text t is read up *)
(* to where the frames are, and says what is meant.                        *)
TextSays(r, base, t, n, frames, meant) ==
  /\ IsASeq(base) /\ IsASeq(meant)
  /\ t = <<>> => n = 0 /\ Len(frames) = 1
  /\ \E need, open, path, str :
       /\ Reads(r, t, St(need, "text", open, path, str, base \o meant))
       /\ FramesFit(n, frames, open, path)
       /\ NeedFits(t, Last(frames).what, need)

(* After the text t a value may come, at the place. *)
ReadyFor(r, base, t, n, frames, meant, place) ==
  /\ IsASeq(base) /\ IsASeq(meant)
  /\ \E need, open, path, str :
       /\ need \in {"value", "first"}
       /\ Reads(r, t, St(need, "text", open, path, str, base \o meant))
       /\ FramesFit(n, frames, open, path)
       /\ path = place

(* Labelled, of a text. *)
LabelledText(t, what, k, spaced) == IF what = Object THEN Keyed(t, k, spaced) ELSE t

(* The place of an element is not changed by reading. *)
LEMMA AsReadElement == AsRead(Element) = Element
<1> DEFINE t == <<"*">>
<1>1. t \in Seq({"*"}) /\ Len(t) = 1 /\ t[1] = "*"
  OBVIOUS
<1> HIDE DEF t
<1>2. IsASeq(t)
  BY <1>1 DEF IsASeq
<1>3. IsASeq(AsRead(t)) /\ AsRead(t) = [i \in 1 .. Len(t) |-> UnitRead(t[i])]
  BY <1>2, AsReadSeq
<1>4. AsRead(t) = [i \in 1 .. 1 |-> UnitRead(t[i])]
  BY <1>1, <1>3
<1>5. \A i \in 1 .. 1 : UnitRead(t[i]) = t[i]
  <2>1. t[1] # "invalid"
    BY <1>1
  <2>2. \A i \in 1 .. 1 : i = 1
    OBVIOUS
  <2> QED
    BY <2>1, <2>2 DEF UnitRead
<1>6. t = [i \in 1 .. Len(t) |-> t[i]]
  BY <1>2, SeqFacts
<1>7. AsRead(t) = t
  BY <1>1, <1>4, <1>5, <1>6
<1> QED
  BY <1>7 DEF t, Element

(* After a key in an object, and after a separator in an array, a value    *)
(* may come, at the place that is meant.                                   *)
LEMMA LabelReady ==
  ASSUME NEW r, NEW base, NEW t, NEW n, NEW frames, NEW meant,
         TextSays(r, base, t, n, frames, meant), NEW spaced,
         NEW k, IsASeq(k), Last(frames).what = Array => k = Element,
         NEW u, u = LabelledText(t, Last(frames).what, k, spaced)
  PROVE  /\ ReadyFor(r, base, Separated(u, spaced), n, frames, meant,
                     Append(Last(frames).path, AsRead(k)))
         /\ Last(frames).what = Object => Separated(u, spaced) = u
<1>1. PICK need, open, path, str :
        /\ Reads(r, t, St(need, "text", open, path, str, base \o meant))
        /\ FramesFit(n, frames, open, path)
        /\ NeedFits(t, Last(frames).what, need)
  BY DEF TextSays
<1>2. /\ open # <<>> /\ Last(open) = Last(frames).what /\ Last(frames).what \in {Object, Array}
      /\ NeedFits(t, Last(open), need)
  BY <1>1, FramesFacts
<1>3. IsASeq(base) /\ IsASeq(meant)
  BY DEF TextSays
<1> DEFINE seen == base \o meant
           place == Append(Last(frames).path, AsRead(k))
<1>4. CASE Last(frames).what = Object
  <2> DEFINE there == Append(Front(path), AsRead(k))
  <2>1. u = Keyed(t, k, spaced)
    BY <1>4 DEF LabelledText
  <2>2. /\ Reads(r, u, St("value", "text", open, there, AsRead(k), seen))
        /\ Last(u) \in {":", " "}
    <3>1. /\ Reads(r, Keyed(t, k, spaced), St("value", "text", open, there, AsRead(k), seen))
          /\ Last(Keyed(t, k, spaced)) \in {":", " "}
      <4>1. Last(open) = Object
        BY <1>2, <1>4
      <4> HIDE DEF seen
      <4> QED
        BY <1>1, <1>2, <4>1, ReadsKeyed DEF seen
    <3> QED
      BY <2>1, <3>1
  <2>3. Separated(u, spaced) = u
    BY <2>2 DEF Separated
  <2>4. FramesFit(n, frames, open, there) /\ there = place
    BY <1>1, <1>4, FramesKey
  <2> DEFINE want == "value"
             x == AsRead(k)
  <2>5. want \in {"value", "first"} /\ Reads(r, u, St(want, "text", open, there, x, base \o meant))
    BY <2>2
  <2> HIDE DEF there, place, want, x
  <2>6. ReadyFor(r, base, u, n, frames, meant, place)
    BY <1>3, <2>4, <2>5 DEF ReadyFor
  <2> QED
    BY <2>3, <2>6 DEF place
<1>5. CASE Last(frames).what = Array
  <2>1. u = t /\ k = Element /\ Object # Array
    BY <1>5 DEF LabelledText, Object, Array
  <2>2. path = place
    BY <1>1, <1>5, <2>1, FramesElement, AsReadElement
  <2> HIDE DEF place
  <2>3. PICK want :
          /\ Reads(r, Separated(t, spaced), St(want, "text", open, path, str, base \o meant))
          /\ Last(open) # Object => want \in {"value", "first"}
    BY <1>1, <1>2, ReadsSeparated
  <2>4. want \in {"value", "first"}
    BY <1>2, <1>5, <2>1, <2>3
  <2>5. ReadyFor(r, base, Separated(u, spaced), n, frames, meant, place)
    BY <1>1, <1>3, <2>1, <2>2, <2>3, <2>4 DEF ReadyFor
  <2> QED
    BY <1>5, <2>1, <2>5 DEF place
<1> QED
  BY <1>2, <1>4, <1>5

-----------------------------------------------------------------------------
(* The text x is a value that reads as v. *)
Value(x, v) ==
  /\ IsASeq(x) /\ Len(x) >= 1 /\ Last(x) \in {"q", "#"}
  /\ \A need, open, path, str, seen :
       need \in {"value", "first"} /\ open # <<>> => \E said :
         Reads(St(need, "text", open, path, str, seen), x,
               St("next", "text", open, path, said, Append(seen, <<path, v>>)))

(* Strings and numbers are values, and after a value where one may come    *)
(* the text says one thing more.                                           *)
LEMMA StringValue == ASSUME NEW s, IsASeq(s) PROVE Value(Quoted(s), AsRead(s))
<1>1. ASSUME NEW need \in {"value", "first"}, NEW open, open # <<>>, NEW path, NEW str, NEW seen
      PROVE  \E said : Reads(St(need, "text", open, path, str, seen), Quoted(s),
                 St("next", "text", open, path, said, Append(seen, <<path, AsRead(s)>>)))
  BY <1>1, ReadsString
<1>2. IsASeq(Quoted(s)) /\ Len(Quoted(s)) >= 1 /\ Last(Quoted(s)) = "q"
  <2> DEFINE o == <<1>>
  <2>1. o # <<>> /\ "value" \in {"value", "first"}
    OBVIOUS
  <2> HIDE DEF o
  <2>2. /\ Reads(St("value", "text", o, o, o, o), Quoted(s),
                 St("next", "text", o, o, AsRead(s), Append(o, <<o, AsRead(s)>>)))
        /\ IsASeq(Quoted(s)) /\ Len(Quoted(s)) >= 1 /\ Last(Quoted(s)) = "q"
    BY <2>1, ReadsString
  <2> QED
    BY <2>2
<1> QED
  BY <1>1, <1>2 DEF Value

LEMMA NumberValue == Value(Number, Number)
<1>1. ASSUME NEW need \in {"value", "first"}, NEW open, open # <<>>, NEW path, NEW str, NEW seen
      PROVE  \E said : Reads(St(need, "text", open, path, str, seen), <<"#">>,
                 St("next", "text", open, path, said, Append(seen, <<path, Number>>)))
  <2> DEFINE r == St(need, "text", open, path, str, seen)
             s == St("next", "text", open, path, str, Append(seen, <<path, Number>>))
  <2>1. ReadUnit(r, "#") = s
    BY <1>1, ReadNumber
  <2> HIDE DEF r, s
  <2>2. Reads(r, <<"#">>, s)
    BY <2>1, ReadsOne
  <2> QED
    BY <2>2 DEF r, s
<1> DEFINE t == <<"#">>
<1>2. IsASeq(t) /\ Len(t) = 1 /\ Last(t) = "#"
  BY OneSeq
<1>3. Number = t
  BY DEF Number
<1> HIDE DEF t
<1>4. ASSUME NEW need \in {"value", "first"}, NEW open, open # <<>>, NEW path, NEW str, NEW seen
      PROVE  \E said : Reads(St(need, "text", open, path, str, seen), t,
                 St("next", "text", open, path, said, Append(seen, <<path, Number>>)))
  BY <1>1, <1>4 DEF t
<1>5. Value(t, Number)
  BY <1>2, <1>4 DEF Value
<1> QED
  BY <1>3, <1>5

LEMMA ValueSaid ==
  ASSUME NEW r, NEW base, NEW t, NEW n, NEW frames, NEW meant, NEW place,
         ReadyFor(r, base, t, n, frames, meant, place), NEW x, NEW v, Value(x, v)
  PROVE  TextSays(r, base, t \o x, n, frames, Append(meant, <<place, v>>))
<1>1. PICK need, open, path, str :
        /\ need \in {"value", "first"}
        /\ Reads(r, t, St(need, "text", open, path, str, base \o meant))
        /\ FramesFit(n, frames, open, path)
        /\ path = place
  BY DEF ReadyFor
<1>2. IsASeq(base) /\ IsASeq(meant) /\ open # <<>>
  BY <1>1, FramesFacts DEF ReadyFor
<1> DEFINE m == Append(meant, <<place, v>>)
           seen == Append(base \o meant, <<path, v>>)
<1>3. PICK said : Reads(St(need, "text", open, path, str, base \o meant), x,
                        St("next", "text", open, path, said, seen))
  BY <1>1, <1>2 DEF Value
<1>4. seen = base \o m /\ IsASeq(m)
  <2> DEFINE e == <<place, v>>
             f == <<e>>
  <2>1. IsASeq(f)
    <3> HIDE DEF e
    <3> QED
      BY OneSeq
  <2> HIDE DEF e
  <2>2. Append(meant, e) = meant \o f /\ IsASeq(Append(meant, e))
    BY <1>2, AppendConcat, AppendSeq
  <2>3. IsASeq(base \o meant)
    BY <1>2, ConcatSeq
  <2>4. Append(base \o meant, e) = (base \o meant) \o f
    BY <2>3, AppendConcat
  <2> HIDE DEF f
  <2>5. (base \o meant) \o f = base \o (meant \o f)
    BY <1>2, <2>1, ConcatTwice
  <2> QED
    BY <1>1, <2>2, <2>4, <2>5 DEF e
<1> HIDE DEF seen, m
<1>5. Reads(r, t \o x, St("next", "text", open, path, said, base \o m))
  BY <1>1, <1>3, <1>4, ReadsThen
<1>6. t \o x # <<>> /\ Last(t \o x) \in {"q", "#"}
  <2>1. IsASeq(t) /\ IsASeq(x) /\ Len(x) >= 1 /\ Last(x) \in {"q", "#"}
    BY <1>1 DEF Reads, Value
  <2> QED
    BY <2>1, LastConcat
<1>7. NeedFits(t \o x, Last(frames).what, "next")
  <2> DEFINE y == t \o x
  <2> HIDE DEF y
  <2>1. y # <<>> /\ Last(y) \notin {"{", "[", ":", ",", " "}
    BY <1>6 DEF y
  <2> QED
    BY <2>1 DEF NeedFits, y
<1>8. TextSays(r, base, t \o x, n, frames, m)
  BY <1>1, <1>2, <1>4, <1>5, <1>6, <1>7 DEF TextSays
<1> QED
  BY <1>8 DEF m

(* AppendString, AppendInt64 and appendFloat say the value they are given. *)
LEMMA StringSaid ==
  ASSUME NEW r, NEW base, NEW u, NEW spaced, NEW n, NEW frames, NEW meant, NEW place,
         ReadyFor(r, base, Separated(u, spaced), n, frames, meant, place),
         NEW s, IsASeq(s)
  PROVE  TextSays(r, base, WithString(u, s, spaced), n, frames,
                  Append(meant, <<place, AsRead(s)>>))
BY StringValue, ValueSaid DEF WithString

LEMMA NumberSaid ==
  ASSUME NEW r, NEW base, NEW u, NEW spaced, NEW n, NEW frames, NEW meant, NEW place,
         ReadyFor(r, base, Separated(u, spaced), n, frames, meant, place)
  PROVE  TextSays(r, base, WithNumber(u, spaced), n, frames,
                  Append(meant, <<place, Number>>))
<1>1. IsASeq(Separated(u, spaced))
  BY DEF ReadyFor, Reads
<1>2. WithNumber(u, spaced) = Separated(u, spaced) \o Number
  BY <1>1, AppendConcat DEF WithNumber, Number
<1> QED
  BY <1>2, NumberValue, ValueSaid

(* A string of one unit that is UTF-8 reads as it is. *)
LEMMA AsReadPlain ==
  ASSUME NEW u, u # "invalid"
  PROVE  IsASeq(<<u>>) /\ AsRead(<<u>>) = <<u>>
<1> DEFINE t == <<u>>
<1>1. IsASeq(t) /\ Len(t) = 1 /\ t[1] = u
  BY OneSeq
<1> HIDE DEF t
<1>2. AsRead(t) = [i \in 1 .. 1 |-> UnitRead(t[i])]
  BY <1>1, AsReadSeq
<1>3. \A i \in 1 .. 1 : UnitRead(t[i]) = t[i]
  <2>1. \A i \in 1 .. 1 : i = 1
    OBVIOUS
  <2> QED
    BY <1>1, <2>1 DEF UnitRead
<1>4. t = [i \in 1 .. Len(t) |-> t[i]]
  BY <1>1, SeqFacts
<1> QED
  BY <1>1, <1>2, <1>3, <1>4 DEF t

LEMMA FloatSaid ==
  ASSUME NEW r, NEW base, NEW u, NEW spaced, NEW n, NEW frames, NEW meant, NEW place,
         ReadyFor(r, base, Separated(u, spaced), n, frames, meant, place),
         NEW finite \in BOOLEAN
  PROVE  TextSays(r, base, WithFloat(u, finite, spaced), n, frames,
                  Append(meant, <<place, IF finite THEN Number ELSE NotANumber>>))
<1>1. IsASeq(NotANumber) /\ AsRead(NotANumber) = NotANumber
  <2>1. "NaN" # "invalid"
    OBVIOUS
  <2> QED
    BY <2>1, AsReadPlain DEF NotANumber
<1>2. CASE finite
  BY <1>2, NumberSaid DEF WithFloat
<1>3. CASE ~finite
  BY <1>1, <1>3, StringSaid DEF WithFloat
<1> QED
  BY <1>2, <1>3

(* One value that a time's or a duration's encoder appends. *)
WithOne(text, v, spaced) ==
  IF v = Number THEN WithNumber(text, spaced) ELSE WithString(text, v, spaced)

(* EncodeTime and EncodeDuration that append one value. *)
LEMMA FoldOne ==
  ASSUME NEW text, NEW v, NEW spaced, NEW values, IsASeq(values), Len(values) = 1,
         values[1] = v
  PROVE  WithEncoded(text, values, spaced) = WithOne(text, v, spaced)
<1>1. values # <<>> /\ DOMAIN values = {1}
  <2>1. DOMAIN values = 1 .. 1
    BY SeqFacts
  <2>2. 1 .. 1 = {1}
    OBVIOUS
  <2> QED
    BY <2>1, <2>2, EmptySequence
<1> DEFINE op(x, y) == WithOne(y, x, spaced)
           pick(S) == Max(S)
           Step(f) == [s \in SUBSET {1} |-> IF s = {} THEN text
                         ELSE WithOne(f[s \ {Max(s)}], values[Max(s)], spaced)]
           iter == CHOOSE f : f = Step(f)
           g == [s \in SUBSET {1} |-> IF s = {} THEN text ELSE WithOne(text, v, spaced)]
<1>2. Max({1}) = 1
  BY DEF Max
<1>3. g = Step(g)
  <2>1. ASSUME NEW s \in SUBSET {1}, s # {} PROVE g[s] = WithOne(g[s \ {Max(s)}], values[Max(s)], spaced)
    <3>1. s = {1} /\ s \ {Max(s)} = {}
      BY <1>2, <2>1
    <3> QED
      BY <1>2, <3>1
  <2> QED
    BY <2>1
<1>4. iter = Step(iter)
  <2> HIDE DEF g
  <2> QED
    BY <1>3
<1>5. WithEncoded(text, values, spaced) = iter[{1}]
  BY <1>1 DEF WithEncoded, FoldLeft, MapThenFoldSet, WithOne
<1> HIDE DEF iter
<1>6. iter[{}] = text
  BY <1>4
<1>7. iter[{1}] = WithOne(iter[{}], v, spaced)
  BY <1>2, <1>4
<1> QED
  BY <1>5, <1>6, <1>7

(* The only element of a sequence. *)
LEMMA HeadOne ==
  ASSUME NEW S, NEW s \in Seq(S), Len(s) = 1
  PROVE  Head(s) = s[1] /\ s[1] \in S
OBVIOUS

(* AppendTime and AppendDuration say one value, if the function that       *)
(* encodes it appends one or none.                                         *)
LEMMA EncodedSaid ==
  ASSUME NEW r, NEW base, NEW u, NEW spaced, NEW n, NEW frames, NEW meant, NEW place,
         ReadyFor(r, base, Separated(u, spaced), n, frames, meant, place),
         NEW values \in Seq(Seq(STRING)), Len(values) <= 1
  PROVE  TextSays(r, base, WithEncoded(u, values, spaced), n, frames,
                  Append(meant, <<place, Said(values)>>))
<1>1. IsASeq(values) /\ Len(values) \in Nat
  BY DEF IsASeq
<1>2. CASE values = <<>>
  BY <1>2, NumberSaid DEF WithEncoded, Said
<1>3. CASE values # <<>>
  <2> DEFINE v == values[1]
  <2>1. Len(values) = 1
    <3> DEFINE m == Len(values)
    <3>1. m # 0 /\ m \in Nat /\ m <= 1
      BY <1>1, <1>3, EmptySequence
    <3> HIDE DEF m
    <3>2. m = 1
      BY <3>1
    <3> QED
      BY <3>2 DEF m
  <2>2. Head(values) = v /\ v \in Seq(STRING)
    BY <2>1, HeadOne
  <2>3. IsASeq(v)
    BY <2>2 DEF IsASeq
  <2> HIDE DEF v
  <2>4. Said(values) = AsRead(v)
    BY <1>3, <2>2 DEF Said
  <2>5. WithEncoded(u, values, spaced) = WithOne(u, v, spaced)
    BY <1>1, <2>1, FoldOne DEF v
  <2>6. CASE v = Number
    <3>1. AsRead(v) = Number
      <4>1. "#" # "invalid"
        OBVIOUS
      <4> QED
        BY <2>6, <4>1, AsReadPlain DEF Number
    <3>2. WithEncoded(u, values, spaced) = WithNumber(u, spaced)
      BY <2>5, <2>6 DEF WithOne
    <3> QED
      BY <2>4, <3>1, <3>2, NumberSaid
  <2>7. CASE v # Number
    <3>1. WithEncoded(u, values, spaced) = WithString(u, v, spaced)
      BY <2>5, <2>7 DEF WithOne
    <3> QED
      BY <2>3, <2>4, <3>1, StringSaid
  <2> QED
    BY <2>6, <2>7
<1> QED
  BY <1>2, <1>3

-----------------------------------------------------------------------------
(* Brackets. *)
LEMMA SeenMore ==
  ASSUME NEW base, IsASeq(base), NEW meant, IsASeq(meant), NEW e
  PROVE  /\ Append(base \o meant, e) = base \o Append(meant, e)
         /\ IsASeq(Append(meant, e))
<1> DEFINE f == <<e>>
<1>1. IsASeq(f)
  BY OneSeq
<1>2. Append(meant, e) = meant \o f /\ IsASeq(Append(meant, e))
  BY AppendConcat, AppendSeq
<1>3. IsASeq(base \o meant)
  BY ConcatSeq
<1>4. Append(base \o meant, e) = (base \o meant) \o f
  BY <1>3, AppendConcat
<1> HIDE DEF f
<1>5. (base \o meant) \o f = base \o (meant \o f)
  BY <1>1, ConcatTwice
<1> QED
  BY <1>2, <1>4, <1>5

(* A bracket is opened within the innermost frame: a frame more. *)
LEMMA FramesOpen ==
  ASSUME NEW n, NEW frames, NEW open, NEW path, FramesFit(n, frames, open, path),
         NEW what \in {Object, Array}, NEW k, what = Array => k = Element,
         NEW f, f.what = what, f.path = path
  PROVE  FramesFit(n, Append(frames, f), Append(open, what), Append(path, k))
<1> DEFINE m == Len(frames)
           F == Append(frames, f)
           O == Append(open, what)
           P == Append(path, k)
<1>1. /\ m \in Nat /\ n \in Nat /\ m >= 1 /\ IsASeq(path) /\ Len(path) = n + m
      /\ IsASeq(open) /\ Len(open) = n + m /\ IsASeq(frames)
  BY SeqFacts DEF FramesFit
<1>2. IsASeq(F) /\ Len(F) = m + 1 /\ F[m + 1] = f /\ \A i \in 1 .. m : F[i] = frames[i]
  BY <1>1, AppendSeq
<1>3. IsASeq(O) /\ Len(O) = n + m + 1 /\ O[n + m + 1] = what /\ \A i \in 1 .. n + m : O[i] = open[i]
  <2>1. /\ IsASeq(O) /\ Len(O) = Len(open) + 1 /\ O[Len(open) + 1] = what
        /\ \A i \in 1 .. Len(open) : O[i] = open[i]
    BY <1>1, AppendSeq
  <2> HIDE DEF O, m
  <2> QED
    BY <1>1, <2>1
<1>4. IsASeq(P) /\ Len(P) = n + m + 1 /\ P[n + m + 1] = k /\ \A i \in 1 .. n + m : P[i] = path[i]
  <2>1. /\ IsASeq(P) /\ Len(P) = Len(path) + 1 /\ P[Len(path) + 1] = k
        /\ \A i \in 1 .. Len(path) : P[i] = path[i]
    BY <1>1, AppendSeq
  <2> HIDE DEF P, m
  <2> QED
    BY <1>1, <2>1
<1>5. \A j \in 1 .. n + 1 : O[j] = Object
  <2>1. \A j \in 1 .. n + 1 : j \in 1 .. n + m
    BY <1>1
  <2> QED
    BY <1>3, <2>1 DEF FramesFit
<1>6. ASSUME NEW i \in 1 .. m + 1
      PROVE  /\ F[i].what \in {Object, Array} /\ O[n + i] = F[i].what
             /\ F[i].what = Array => P[n + i] = Element
             /\ IsASeq(F[i].path) /\ Len(F[i].path) = n + i - 1
             /\ \A j \in 1 .. n + i - 1 : F[i].path[j] = P[j]
  <2> HIDE DEF F, O, P, m
  <2>1. CASE i = m + 1
    <3>1. F[i] = f /\ n + i = n + m + 1 /\ n + i - 1 = n + m
      BY <1>1, <1>2, <2>1
    <3> QED
      BY <1>1, <1>3, <1>4, <3>1
  <2>2. CASE i # m + 1
    <3>1. i \in 1 .. m /\ n + i \in 1 .. n + m /\ \A j \in 1 .. n + i - 1 : j \in 1 .. n + m
      BY <1>1, <2>2
    <3>2. /\ frames[i].what \in {Object, Array} /\ open[n + i] = frames[i].what
          /\ frames[i].what = Array => path[n + i] = Element
          /\ IsASeq(frames[i].path) /\ Len(frames[i].path) = n + i - 1
          /\ \A j \in 1 .. n + i - 1 : frames[i].path[j] = path[j]
      BY <3>1 DEF FramesFit, m
    <3>3. F[i] = frames[i] /\ O[n + i] = open[n + i] /\ P[n + i] = path[n + i]
          /\ \A j \in 1 .. n + i - 1 : P[j] = path[j]
      BY <1>2, <1>3, <1>4, <3>1
    <3> QED
      BY <3>2, <3>3
  <2> QED
    BY <2>1, <2>2
<1> HIDE DEF F, O, P, m
<1>7. Len(O) = n + Len(F) /\ Len(P) = n + Len(F) /\ Len(F) >= 1
  <2>1. m \in Nat /\ n \in Nat /\ Len(O) = n + m + 1 /\ Len(P) = n + m + 1 /\ Len(F) = m + 1
    BY <1>1, <1>2, <1>3, <1>4
  <2> QED
    BY <2>1
<1>8. FramesFit(n, F, O, P)
  <2>1. \A i \in 1 .. Len(F) : i \in 1 .. m + 1
    BY <1>2
  <2> QED
    BY <1>1, <1>2, <1>3, <1>4, <1>5, <1>6, <1>7, <2>1 DEF FramesFit
<1> QED
  BY <1>8 DEF F, O, P

(* The brackets of objects and of arrays. *)
Opening(what) == IF what = Object THEN "{" ELSE "["
Closing(what) == IF what = Object THEN "}" ELSE "]"

(* What brackets do to the reader. *)
LEMMA ReadOpening ==
  ASSUME NEW need \in {"value", "first"}, NEW open, NEW path, NEW str, NEW seen,
         NEW what \in {Object, Array},
         NEW want, want = IF what = Object THEN "firstKey" ELSE "first",
         NEW k, k = IF what = Object THEN <<>> ELSE Element,
         NEW e, e = <<path, what>>
  PROVE  ReadUnit(St(need, "text", open, path, str, seen), Opening(what))
           = St(want, "text", Append(open, what), Append(path, k), str,
                Append(seen, e))
<1>1. CASE what = Object
  <2>1. Opening(Object) = "{"
    BY DEF Opening
  <2>2. ReadUnit(St(need, "text", open, path, str, seen), Opening(Object))
          = St("firstKey", "text", Append(open, Object), Append(path, <<>>), str,
               Append(seen, <<path, Object>>))
    BY <2>1 DEF ReadUnit, ReadText, Open, Leaf, AfterValue, St
  <2> QED
    BY <1>1, <2>2
<1>2. CASE what = Array
  <2>1. Opening(Array) = "[" /\ Object # Array
    BY DEF Opening, Object, Array
  <2>2. ReadUnit(St(need, "text", open, path, str, seen), Opening(Array))
          = St("first", "text", Append(open, Array), Append(path, Element), str,
               Append(seen, <<path, Array>>))
    BY <2>1 DEF ReadUnit, ReadText, Open, Leaf, AfterValue, St
  <2>3. Object # Array
    BY DEF Object, Array
  <2> QED
    BY <1>2, <2>2, <2>3
<1> QED
  BY <1>1, <1>2

LEMMA ReadClosing ==
  ASSUME NEW need, NEW open, open # <<>>, NEW path, NEW str, NEW seen,
         NEW what \in {Object, Array}, Last(open) = what,
         need \in {"next", IF what = Object THEN "firstKey" ELSE "first"}
  PROVE  ReadUnit(St(need, "text", open, path, str, seen), Closing(what))
           = St(AfterValue(Front(open)), "text", Front(open), Front(path), str, seen)
<1>1. CASE what = Object
  <2>1. Closing(what) = "}"
    BY <1>1 DEF Closing
  <2>2. need \in {"firstKey", "next"} /\ Last(open) = Object
    BY <1>1
  <2> QED
    BY <2>1, <2>2 DEF ReadUnit, ReadText, Close, Within, St
<1>2. CASE what = Array
  <2>1. Closing(what) = "]"
    BY <1>2 DEF Closing, Object, Array
  <2>2. need \in {"first", "next"} /\ Last(open) = Array
    BY <1>2 DEF Object, Array
  <2> QED
    BY <2>1, <2>2 DEF ReadUnit, ReadText, Close, Within, St
<1> QED
  BY <1>1, <1>2

(* AppendObject and AppendArray up to the call of the marshaler. *)
LEMMA OpenSaid ==
  ASSUME NEW r, NEW base, NEW t, NEW n, NEW frames, NEW meant, NEW place,
         ReadyFor(r, base, t, n, frames, meant, place), NEW what \in {Object, Array},
         NEW f, f.what = what, f.path = place
  PROVE  TextSays(r, base, Append(t, Opening(what)), n, Append(frames, f),
                  Append(meant, <<place, what>>))
<1>1. PICK need, open, path, str :
        /\ need \in {"value", "first"}
        /\ Reads(r, t, St(need, "text", open, path, str, base \o meant))
        /\ FramesFit(n, frames, open, path)
        /\ path = place
  BY DEF ReadyFor
<1>2. IsASeq(base) /\ IsASeq(meant) /\ IsASeq(t) /\ IsASeq(frames)
  BY <1>1 DEF ReadyFor, Reads, FramesFit
<1> DEFINE e == <<path, what>>
           F == Append(frames, f)
           M == Append(meant, e)
           O == Append(open, what)
           k == IF what = Object THEN <<>> ELSE Element
           P == Append(path, k)
           want == IF what = Object THEN "firstKey" ELSE "first"
           text == Append(t, Opening(what))
<1>3. Append(base \o meant, e) = base \o M /\ IsASeq(M)
  <2> HIDE DEF e
  <2> QED
    BY <1>2, SeenMore
<1>4. ReadUnit(St(need, "text", open, path, str, base \o meant), Opening(what))
        = St(want, "text", O, P, str, base \o M)
  <2> DEFINE seen == base \o meant
             a == St(need, "text", open, path, str, seen)
             b == St(want, "text", O, P, str, Append(seen, e))
  <2>1. ReadUnit(a, Opening(what)) = b
    <3>1. /\ want = IF what = Object THEN "firstKey" ELSE "first"
          /\ k = IF what = Object THEN <<>> ELSE Element
          /\ e = <<path, what>>
      OBVIOUS
    <3>2. need \in {"value", "first"}
      BY <1>1
    <3> HIDE DEF seen, want, k, e
    <3> QED
      BY <3>1, <3>2, ReadOpening
  <2>2. b = St(want, "text", O, P, str, base \o M)
    <3> HIDE DEF O, P, want, M, e
    <3> QED
      BY <1>3
  <2> QED
    BY <2>1, <2>2
<1>5. FramesFit(n, F, O, P)
  <2>1. what = Array => k = Element
    BY DEF Object, Array
  <2>2. f.path = path
    BY <1>1
  <2> HIDE DEF k
  <2> QED
    BY <1>1, <2>1, <2>2, FramesOpen
<1>6. IsASeq(text) /\ text # <<>> /\ Last(text) = Opening(what)
  BY <1>2, FrontAppend, AppendSeq
<1>7. Last(F) = f
  BY <1>2, FrontAppend
<1> HIDE DEF e, F, M, O, P, k
<1>8. Reads(r, text, St(want, "text", O, P, str, base \o M))
  BY <1>1, <1>4, ReadsAppend
<1>9. NeedFits(text, Last(F).what, want)
  <2>1. Last(F).what = what
    BY <1>7
  <2>2. Last(text) \in {"{", "["}
    BY <1>6 DEF Opening
  <2> HIDE DEF text
  <2> QED
    BY <1>6, <2>1, <2>2 DEF NeedFits
<1> HIDE DEF want, text
<1>10. TextSays(r, base, text, n, F, M)
  BY <1>2, <1>3, <1>5, <1>6, <1>8, <1>9 DEF TextSays
<1> QED
  BY <1>1, <1>10 DEF F, M, e, text

(* A namespace is opened in the only frame, which moves into it. *)
LEMMA FramesNamespace ==
  ASSUME NEW n, NEW frames, NEW open, NEW path, FramesFit(n, frames, open, path),
         Len(frames) = 1, NEW k,
         NEW G, IsASeq(G), Len(G) = 1, G[1].what = Object, G[1].path = path
  PROVE  FramesFit(n + 1, G, Append(open, Object), Append(path, k))
<1> DEFINE O == Append(open, Object)
           P == Append(path, k)
<1>1. /\ n \in Nat /\ IsASeq(path) /\ Len(path) = n + 1 /\ IsASeq(open) /\ Len(open) = n + 1
      /\ \A j \in 1 .. n + 1 : open[j] = Object
  BY DEF FramesFit
<1>2. /\ IsASeq(O) /\ Len(O) = n + 2 /\ O[n + 2] = Object
      /\ \A j \in 1 .. n + 1 : O[j] = open[j]
  <2>1. /\ IsASeq(O) /\ Len(O) = Len(open) + 1 /\ O[Len(open) + 1] = Object
        /\ \A i \in 1 .. Len(open) : O[i] = open[i]
    BY <1>1, AppendSeq
  <2> HIDE DEF O
  <2> QED
    BY <1>1, <2>1
<1>3. IsASeq(P) /\ Len(P) = n + 2 /\ \A j \in 1 .. n + 1 : P[j] = path[j]
  <2>1. /\ IsASeq(P) /\ Len(P) = Len(path) + 1
        /\ \A i \in 1 .. Len(path) : P[i] = path[i]
    BY <1>1, AppendSeq
  <2> HIDE DEF P
  <2> QED
    BY <1>1, <2>1
<1> HIDE DEF O, P
<1>4. \A j \in 1 .. (n + 1) + 1 : O[j] = Object
  <2>1. \A j \in 1 .. (n + 1) + 1 : j \in 1 .. n + 1 \/ j = n + 2
    BY <1>1
  <2> QED
    BY <1>1, <1>2, <2>1
<1>5. ASSUME NEW i \in 1 .. Len(G)
      PROVE  /\ G[i].what \in {Object, Array} /\ O[(n + 1) + i] = G[i].what
             /\ G[i].what = Array => P[(n + 1) + i] = Element
             /\ IsASeq(G[i].path) /\ Len(G[i].path) = (n + 1) + i - 1
             /\ \A j \in 1 .. (n + 1) + i - 1 : G[i].path[j] = P[j]
  <2>1. i = 1 /\ (n + 1) + i = n + 2 /\ (n + 1) + i - 1 = n + 1 /\ Object # Array
    BY <1>1 DEF Object, Array
  <2> QED
    BY <1>1, <1>2, <1>3, <2>1
<1>6. n + 1 \in Nat /\ Len(O) = (n + 1) + Len(G) /\ Len(P) = (n + 1) + Len(G) /\ Len(G) >= 1
  BY <1>1, <1>2, <1>3
<1> QED
  BY <1>2, <1>3, <1>4, <1>5, <1>6 DEF FramesFit, O, P

(* OpenNamespace where no bracket but those of namespaces is open. *)
LEMMA NamespaceSaid ==
  ASSUME NEW r, NEW base, NEW t, NEW n, NEW frames, NEW meant, NEW place,
         ReadyFor(r, base, t, n, frames, meant, place), Len(frames) = 1,
         NEW G, IsASeq(G), Len(G) = 1, G[1].what = Object, G[1].path = place
  PROVE  TextSays(r, base, Append(t, Opening(Object)), n + 1, G,
                  Append(meant, <<place, Object>>))
<1>1. PICK need, open, path, str :
        /\ need \in {"value", "first"}
        /\ Reads(r, t, St(need, "text", open, path, str, base \o meant))
        /\ FramesFit(n, frames, open, path)
        /\ path = place
  BY DEF ReadyFor
<1>2. IsASeq(base) /\ IsASeq(meant) /\ IsASeq(t)
  BY <1>1 DEF ReadyFor, Reads
<1> DEFINE e == <<path, Object>>
           M == Append(meant, e)
           O == Append(open, Object)
           P == Append(path, <<>>)
           text == Append(t, Opening(Object))
           seen == base \o meant
           a == St(need, "text", open, path, str, seen)
           b == St("firstKey", "text", O, P, str, Append(seen, e))
<1>3. Append(base \o meant, e) = base \o M /\ IsASeq(M)
  <2> HIDE DEF e
  <2> QED
    BY <1>2, SeenMore
<1>4. ReadUnit(a, Opening(Object)) = b
  <2> DEFINE k == <<>>
             want == "firstKey"
  <2>1. /\ want = IF Object = Object THEN "firstKey" ELSE "first"
        /\ k = IF Object = Object THEN <<>> ELSE Element
        /\ e = <<path, Object>> /\ need \in {"value", "first"}
    BY <1>1
  <2> HIDE DEF seen, want, k, e
  <2>2. ReadUnit(a, Opening(Object))
          = St(want, "text", O, Append(path, k), str, Append(seen, e))
    BY <2>1, ReadOpening
  <2> QED
    BY <2>2 DEF want, k
<1>5. FramesFit(n + 1, G, O, P)
  <2> DEFINE k == <<>>
  <2>1. G[1].path = path
    BY <1>1
  <2> HIDE DEF k
  <2>2. FramesFit(n + 1, G, O, Append(path, k))
    BY <1>1, <2>1, FramesNamespace
  <2> QED
    BY <2>2 DEF k
<1>6. IsASeq(text) /\ text # <<>> /\ Last(text) = Opening(Object)
  BY <1>2, FrontAppend, AppendSeq
<1>7. Last(G).what = Object
  BY DEF Last
<1> HIDE DEF e, M, O, P
<1>8. Reads(r, text, St("firstKey", "text", O, P, str, base \o M))
  <2> HIDE DEF a, b
  <2>1. Reads(r, text, b)
    BY <1>1, <1>4, ReadsAppend DEF a
  <2>2. b = St("firstKey", "text", O, P, str, base \o M)
    BY <1>3 DEF b
  <2> QED
    BY <2>1, <2>2
<1>9. NeedFits(text, Last(G).what, "firstKey")
  <2>1. Last(text) \in {"{", "["}
    BY <1>6 DEF Opening
  <2> HIDE DEF text
  <2> QED
    BY <1>6, <1>7, <2>1 DEF NeedFits
<1> HIDE DEF text
<1>10. TextSays(r, base, text, n + 1, G, M)
  BY <1>2, <1>3, <1>5, <1>6, <1>8, <1>9 DEF TextSays
<1> QED
  BY <1>1, <1>10 DEF M, e, text

-----------------------------------------------------------------------------
(* After a text, the reader takes a closing bracket. *)
LEMMA TextNeeds ==
  ASSUME NEW t, NEW what \in {Object, Array}, NEW need, NeedFits(t, what, need), t # <<>>
  PROVE  need \in {"next", IF what = Object THEN "firstKey" ELSE "first"}
BY DEF NeedFits

(* One bracket is closed, of a frame or of a namespace. *)
LEMMA CloseReads ==
  ASSUME NEW r, NEW t, NEW need, NEW open, NEW path, NEW str, NEW seen,
         Reads(r, t, St(need, "text", open, path, str, seen)),
         IsASeq(open), Len(open) > 1,
         NEW what \in {Object, Array}, Last(open) = what, NeedFits(t, what, need), t # <<>>
  PROVE  /\ Reads(r, Append(t, Closing(what)), St("next", "text", Front(open), Front(path), str, seen))
         /\ Append(t, Closing(what)) # <<>>
         /\ \A any : NeedFits(Append(t, Closing(what)), any, "next")
<1>1. Len(open) \in Nat /\ open # <<>>
  BY SeqFacts, EmptySequence
<1>2. Front(open) # <<>>
  <2>1. IsASeq(Front(open)) /\ Len(Front(open)) = Len(open) - 1
    BY <1>1, FrontSeq
  <2>2. Len(Front(open)) # 0
    BY <1>1, <2>1
  <2> QED
    BY <2>2, EmptySequence
<1>3. AfterValue(Front(open)) = "next"
  BY <1>2 DEF AfterValue
<1>4. need \in {"next", IF what = Object THEN "firstKey" ELSE "first"}
  BY TextNeeds
<1> DEFINE a == St(need, "text", open, path, str, seen)
           b == St("next", "text", Front(open), Front(path), str, seen)
           text == Append(t, Closing(what))
<1>5. ReadUnit(a, Closing(what)) = b
  <2>1. ReadUnit(a, Closing(what)) = St(AfterValue(Front(open)), "text", Front(open), Front(path), str, seen)
    BY <1>1, <1>4, ReadClosing
  <2> QED
    BY <1>3, <2>1
<1> HIDE DEF a, b
<1>6. Reads(r, text, b)
  BY <1>5, ReadsAppend DEF a
<1>7. IsASeq(t)
  BY DEF Reads
<1>8. text # <<>> /\ Last(text) = Closing(what)
  BY <1>7, FrontAppend
<1>9. \A any : NeedFits(text, any, "next")
  <2>1. Last(text) \notin {"{", "[", ":", ",", " "}
    BY <1>8 DEF Closing
  <2> HIDE DEF text
  <2> QED
    BY <1>8, <2>1 DEF NeedFits
<1> QED
  BY <1>6, <1>8, <1>9 DEF b

(* The bracket of the innermost frame is closed. *)
LEMMA FramesClose ==
  ASSUME NEW n, NEW frames, NEW open, NEW path, FramesFit(n, frames, open, path),
         Len(frames) > 1
  PROVE  FramesFit(n, Front(frames), Front(open), Front(path))
<1> DEFINE m == Len(frames)
           F == Front(frames)
           O == Front(open)
           P == Front(path)
<1>1. /\ m \in Nat /\ n \in Nat /\ m > 1 /\ IsASeq(path) /\ Len(path) = n + m
      /\ IsASeq(open) /\ Len(open) = n + m /\ IsASeq(frames)
  BY SeqFacts DEF FramesFit
<1>2. IsASeq(F) /\ Len(F) = m - 1 /\ \A i \in 1 .. m - 1 : F[i] = frames[i]
  BY <1>1, FrontFacts
<1>3. IsASeq(O) /\ Len(O) = n + m - 1 /\ \A i \in 1 .. n + m - 1 : O[i] = open[i]
  <2>0. Len(open) >= 1
    BY <1>1
  <2>1. /\ IsASeq(O) /\ Len(O) = Len(open) - 1 /\ \A i \in 1 .. Len(open) - 1 : O[i] = open[i]
    BY <1>1, <2>0, FrontFacts
  <2> HIDE DEF O, m
  <2> QED
    BY <1>1, <2>1
<1>4. IsASeq(P) /\ Len(P) = n + m - 1 /\ \A i \in 1 .. n + m - 1 : P[i] = path[i]
  <2>0. Len(path) >= 1
    BY <1>1
  <2>1. /\ IsASeq(P) /\ Len(P) = Len(path) - 1 /\ \A i \in 1 .. Len(path) - 1 : P[i] = path[i]
    BY <1>1, <2>0, FrontFacts
  <2> HIDE DEF P, m
  <2> QED
    BY <1>1, <2>1
<1> HIDE DEF F, O, P
<1>5. \A j \in 1 .. n + 1 : O[j] = Object
  <2>1. \A j \in 1 .. n + 1 : j \in 1 .. n + m - 1
    BY <1>1
  <2> QED
    BY <1>3, <2>1 DEF FramesFit
<1>6. ASSUME NEW i \in 1 .. m - 1
      PROVE  /\ F[i].what \in {Object, Array} /\ O[n + i] = F[i].what
             /\ F[i].what = Array => P[n + i] = Element
             /\ IsASeq(F[i].path) /\ Len(F[i].path) = n + i - 1
             /\ \A j \in 1 .. n + i - 1 : F[i].path[j] = P[j]
  <2>1. /\ i \in 1 .. m /\ n + i \in 1 .. n + m - 1
        /\ \A j \in 1 .. n + i - 1 : j \in 1 .. n + m - 1
    BY <1>1
  <2>2. /\ frames[i].what \in {Object, Array} /\ open[n + i] = frames[i].what
        /\ frames[i].what = Array => path[n + i] = Element
        /\ IsASeq(frames[i].path) /\ Len(frames[i].path) = n + i - 1
        /\ \A j \in 1 .. n + i - 1 : frames[i].path[j] = path[j]
    BY <2>1 DEF FramesFit
  <2> HIDE DEF m
  <2>3. F[i] = frames[i] /\ O[n + i] = open[n + i] /\ P[n + i] = path[n + i]
        /\ \A j \in 1 .. n + i - 1 : P[j] = path[j]
    BY <1>2, <1>3, <1>4, <2>1
  <2> QED
    BY <2>2, <2>3
<1> HIDE DEF m
<1>7. Len(O) = n + Len(F) /\ Len(P) = n + Len(F) /\ Len(F) >= 1 /\ n \in Nat
  BY <1>1, <1>2, <1>3, <1>4
<1>8. \A i \in 1 .. Len(F) : i \in 1 .. m - 1
  BY <1>2
<1> QED
  BY <1>2, <1>3, <1>4, <1>5, <1>6, <1>7, <1>8 DEF FramesFit, F, O, P

(* AppendObject and AppendArray after the call of the marshaler. *)
LEMMA CloseSaid ==
  ASSUME NEW r, NEW base, NEW t, NEW n, NEW frames, NEW meant,
         TextSays(r, base, t, n, frames, meant), Len(frames) > 1
  PROVE  TextSays(r, base, Append(t, Closing(Last(frames).what)), n, Front(frames), meant)
<1>1. PICK need, open, path, str :
        /\ Reads(r, t, St(need, "text", open, path, str, base \o meant))
        /\ FramesFit(n, frames, open, path)
        /\ NeedFits(t, Last(frames).what, need)
  BY DEF TextSays
<1> DEFINE what == Last(frames).what
           seen == base \o meant
           text == Append(t, Closing(what))
<1>2. what \in {Object, Array} /\ Last(open) = what /\ IsASeq(open) /\ Len(open) > 1
  <2>1. what \in {Object, Array} /\ Last(open) = what
    BY <1>1, FramesFacts
  <2>2. n \in Nat /\ Len(frames) \in Nat /\ IsASeq(open) /\ Len(open) = n + Len(frames)
    BY <1>1, SeqFacts DEF FramesFit
  <2> QED
    BY <2>1, <2>2
<1>3. t # <<>> /\ IsASeq(base) /\ IsASeq(meant)
  <2>1. Len(frames) # 1
    <3>1. Len(frames) \in Nat
      BY <1>1, FramesFacts
    <3> QED
      BY <3>1
  <2> QED
    BY <2>1 DEF TextSays
<1>4. FramesFit(n, Front(frames), Front(open), Front(path))
  BY <1>1, FramesClose
<1> HIDE DEF what, seen
<1>5. /\ Reads(r, text, St("next", "text", Front(open), Front(path), str, seen))
      /\ text # <<>> /\ \A any : NeedFits(text, any, "next")
  <2>1. NeedFits(t, what, need) /\ Reads(r, t, St(need, "text", open, path, str, seen))
    BY <1>1 DEF what, seen
  <2> QED
    BY <1>2, <1>3, <2>1, CloseReads
<1> HIDE DEF text
<1>6. TextSays(r, base, text, n, Front(frames), meant)
  BY <1>3, <1>4, <1>5 DEF TextSays, seen
<1> QED
  BY <1>6 DEF text, what

-----------------------------------------------------------------------------
(* The frame that is left when the innermost namespace is closed. *)
LEMMA FramesLess ==
  ASSUME NEW n, NEW frames, NEW open, NEW path, FramesFit(n, frames, open, path),
         Len(frames) = 1, n >= 1
  PROVE  \E G : Len(G) = 1 /\ FramesFit(n - 1, G, Front(open), Front(path))
<1> DEFINE O == Front(open)
           P == Front(path)
           Q == Front(P)
<1>1. /\ n \in Nat /\ IsASeq(path) /\ Len(path) = n + 1 /\ IsASeq(open) /\ Len(open) = n + 1
      /\ \A j \in 1 .. n + 1 : open[j] = Object
  BY DEF FramesFit
<1>2. IsASeq(O) /\ Len(O) = n /\ \A j \in 1 .. n : O[j] = open[j]
  <2>1. IsASeq(O) /\ Len(O) = Len(open) - 1 /\ \A j \in 1 .. Len(open) - 1 : O[j] = open[j]
    <3>1. Len(open) >= 1
      BY <1>1
    <3> QED
      BY <1>1, <3>1, FrontFacts
  <2> HIDE DEF O
  <2> QED
    BY <1>1, <2>1
<1>3. IsASeq(P) /\ Len(P) = n
  <2>1. IsASeq(P) /\ Len(P) = Len(path) - 1
    <3>1. Len(path) >= 1
      BY <1>1
    <3> QED
      BY <1>1, <3>1, FrontFacts
  <2> HIDE DEF P
  <2> QED
    BY <1>1, <2>1
<1> HIDE DEF O, P
<1>4. IsASeq(Q) /\ Len(Q) = n - 1 /\ \A j \in 1 .. n - 1 : Q[j] = P[j]
  <2>1. Len(P) >= 1
    BY <1>3
  <2>2. IsASeq(Q) /\ Len(Q) = Len(P) - 1 /\ \A j \in 1 .. Len(P) - 1 : Q[j] = P[j]
    BY <1>3, <2>1, FrontFacts
  <2> HIDE DEF Q
  <2> QED
    BY <1>3, <2>2
<1> HIDE DEF Q
<1> DEFINE f == [what |-> Object, path |-> Q]
           G == <<f>>
<1>5. IsASeq(G) /\ Len(G) = 1 /\ G[1] = f
  <2> HIDE DEF f
  <2> QED
    BY OneSeq
<1>6. f.what = Object /\ f.path = Q /\ Object # Array
  BY DEF Object, Array
<1> HIDE DEF f, G
<1>7. \A j \in 1 .. (n - 1) + 1 : O[j] = Object
  <2>1. \A j \in 1 .. (n - 1) + 1 : j \in 1 .. n /\ j \in 1 .. n + 1
    BY <1>1
  <2> QED
    BY <1>1, <1>2, <2>1
<1>8. ASSUME NEW i \in 1 .. Len(G)
      PROVE  /\ G[i].what \in {Object, Array} /\ O[(n - 1) + i] = G[i].what
             /\ G[i].what = Array => P[(n - 1) + i] = Element
             /\ IsASeq(G[i].path) /\ Len(G[i].path) = (n - 1) + i - 1
             /\ \A j \in 1 .. (n - 1) + i - 1 : G[i].path[j] = P[j]
  <2>1. i = 1 /\ (n - 1) + i = n /\ (n - 1) + i - 1 = n - 1 /\ n \in 1 .. n + 1 /\ n \in 1 .. n
    BY <1>1, <1>5
  <2>2. O[n] = Object
    BY <1>1, <1>2, <2>1
  <2> QED
    BY <1>4, <1>5, <1>6, <2>1, <2>2
<1>9. n - 1 \in Nat /\ Len(O) = (n - 1) + Len(G) /\ Len(P) = (n - 1) + Len(G) /\ Len(G) >= 1
  BY <1>1, <1>2, <1>3, <1>5
<1>10. FramesFit(n - 1, G, O, P)
  BY <1>2, <1>3, <1>5, <1>7, <1>8, <1>9 DEF FramesFit
<1> QED
  BY <1>5, <1>10 DEF O, P

(* The bracket of the innermost namespace. *)
LEMMA NamespaceEnds ==
  ASSUME NEW r, NEW base, NEW t, NEW n, NEW frames, NEW meant,
         TextSays(r, base, t, n, frames, meant), Len(frames) = 1, n >= 1
  PROVE  \E G : Len(G) = 1 /\ TextSays(r, base, Append(t, Closing(Object)), n - 1, G, meant)
<1>1. PICK need, open, path, str :
        /\ Reads(r, t, St(need, "text", open, path, str, base \o meant))
        /\ FramesFit(n, frames, open, path)
        /\ NeedFits(t, Last(frames).what, need)
  BY DEF TextSays
<1> DEFINE seen == base \o meant
           text == Append(t, Closing(Object))
<1>2. n \in Nat /\ IsASeq(open) /\ Len(open) = n + 1 /\ open[n + 1] = Object
  <2>1. n \in Nat /\ IsASeq(open) /\ Len(open) = n + 1 /\ \A j \in 1 .. n + 1 : open[j] = Object
    BY <1>1 DEF FramesFit
  <2> QED
    BY <2>1
<1>3. Last(open) = Object /\ Last(frames).what = Object /\ Len(open) > 1
  <2>1. Last(open) = Object /\ Len(open) > 1
    BY <1>2 DEF Last
  <2> QED
    BY <1>1, <2>1, FramesFacts
<1>4. t # <<>> /\ IsASeq(base) /\ IsASeq(meant)
  <2>1. n # 0
    BY <1>2
  <2> QED
    BY <2>1 DEF TextSays
<1>5. PICK G : Len(G) = 1 /\ FramesFit(n - 1, G, Front(open), Front(path))
  BY <1>1, FramesLess
<1> HIDE DEF seen
<1>6. /\ Reads(r, text, St("next", "text", Front(open), Front(path), str, seen))
      /\ text # <<>> /\ \A any : NeedFits(text, any, "next")
  <2> DEFINE what == Object
  <2>1. NeedFits(t, what, need) /\ Reads(r, t, St(need, "text", open, path, str, seen))
    BY <1>1, <1>3 DEF seen
  <2>2. what \in {Object, Array} /\ Last(open) = what
    BY <1>3
  <2> HIDE DEF what
  <2> QED
    BY <1>2, <1>3, <1>4, <2>1, <2>2, CloseReads DEF what
<1> HIDE DEF text
<1>7. TextSays(r, base, text, n - 1, G, meant)
  BY <1>4, <1>5, <1>6 DEF TextSays, seen
<1> QED
  BY <1>5, <1>7 DEF text

(* closeOpenNamespaces closes one namespace after the other; this is an    *)
(* induction over their number.                                            *)
LEMMA NamespacesNone == ASSUME NEW t, IsASeq(t) PROVE NamespacesClosed(t, 0) = t
<1> DEFINE w == [i \in 1 .. 0 |-> "}"]
           c == t \o w
<1>1. IsASeq(w) /\ Len(w) = 0
  <2>1. w = [i \in 1 .. 0 |-> w[i]]
    OBVIOUS
  <2> QED
    BY <2>1, FunctionSeq
<1>2. NamespacesClosed(t, 0) = c
  BY DEF NamespacesClosed
<1> HIDE DEF w
<1>3. /\ IsASeq(c) /\ Len(c) = Len(t) + Len(w) /\ Len(t) \in Nat
      /\ \A i \in 1 .. Len(t) : c[i] = t[i]
  BY <1>1, ConcatSeq, SeqFacts
<1> HIDE DEF c
<1>4. Len(c) = Len(t)
  BY <1>1, <1>3
<1>5. c = t
  BY <1>3, <1>4, SameSeq
<1> QED
  BY <1>2, <1>5

LEMMA NamespacesMore ==
  ASSUME NEW t, IsASeq(t), NEW m \in Nat
  PROVE  NamespacesClosed(t, m + 1) = Append(NamespacesClosed(t, m), Closing(Object))
<1> DEFINE x == Closing(Object)
           v(n) == [i \in 1 .. n |-> x]
           a == t \o v(m)
           b == t \o v(m + 1)
           c == Append(a, x)
<1>1. x = "}"
  BY DEF Closing
<1>2. \A n : NamespacesClosed(t, n) = t \o v(n)
  BY <1>1 DEF NamespacesClosed
<1> HIDE DEF x
<1>3. ASSUME NEW n \in Nat PROVE IsASeq(v(n)) /\ Len(v(n)) = n /\ \A i \in 1 .. n : v(n)[i] = x
  <2> DEFINE w == v(n)
  <2>1. w = [i \in 1 .. n |-> w[i]] /\ \A i \in 1 .. n : w[i] = x
    OBVIOUS
  <2> HIDE DEF w
  <2>2. IsASeq(w) /\ Len(w) = n
    BY <2>1, FunctionSeq
  <2> QED
    BY <2>1, <2>2 DEF w
<1> HIDE DEF v
<1>4. /\ IsASeq(a) /\ Len(a) = Len(t) + m
      /\ \A i \in 1 .. Len(t) : a[i] = t[i]
      /\ \A i \in 1 .. m : a[Len(t) + i] = x
  <2>1. IsASeq(v(m)) /\ Len(v(m)) = m /\ \A i \in 1 .. m : v(m)[i] = x
    BY <1>3
  <2>2. /\ IsASeq(a) /\ Len(a) = Len(t) + Len(v(m))
        /\ \A i \in 1 .. Len(t) : a[i] = t[i]
        /\ \A i \in 1 .. Len(v(m)) : a[Len(t) + i] = v(m)[i]
    <3>1. IsASeq(v(m))
      BY <2>1
    <3> QED
      BY <3>1, ConcatSeq
  <2> HIDE DEF a
  <2> QED
    BY <2>1, <2>2
<1>5. /\ IsASeq(b) /\ Len(b) = Len(t) + (m + 1)
      /\ \A i \in 1 .. Len(t) : b[i] = t[i]
      /\ \A i \in 1 .. m + 1 : b[Len(t) + i] = x
  <2>1. IsASeq(v(m + 1)) /\ Len(v(m + 1)) = m + 1 /\ \A i \in 1 .. m + 1 : v(m + 1)[i] = x
    BY <1>3
  <2>2. /\ IsASeq(b) /\ Len(b) = Len(t) + Len(v(m + 1))
        /\ \A i \in 1 .. Len(t) : b[i] = t[i]
        /\ \A i \in 1 .. Len(v(m + 1)) : b[Len(t) + i] = v(m + 1)[i]
    <3>1. IsASeq(v(m + 1))
      BY <2>1
    <3> QED
      BY <3>1, ConcatSeq
  <2> HIDE DEF b
  <2> QED
    BY <2>1, <2>2
<1> HIDE DEF a, b
<1>6. IsASeq(c) /\ Len(c) = Len(a) + 1 /\ c[Len(a) + 1] = x /\ \A i \in 1 .. Len(a) : c[i] = a[i]
  BY <1>4, AppendSeq
<1> HIDE DEF c
<1>7. Len(t) \in Nat
  BY SeqFacts
<1>8. ASSUME NEW i \in 1 .. Len(b) PROVE b[i] = c[i]
  <2>1. CASE i \in 1 .. Len(t)
    BY <1>4, <1>5, <1>6, <1>7, <2>1
  <2>2. CASE i \in Len(t) + 1 .. Len(t) + m
    <3>1. i - Len(t) \in 1 .. m /\ i - Len(t) \in 1 .. m + 1 /\ i = Len(t) + (i - Len(t)) /\ i \in 1 .. Len(a)
      BY <1>4, <1>7, <2>2
    <3>2. b[i] = x
      BY <1>5, <3>1
    <3>3. a[i] = x
      BY <1>4, <3>1
    <3> QED
      BY <1>6, <3>1, <3>2, <3>3
  <2>3. CASE i = Len(t) + (m + 1)
    <3>1. m + 1 \in 1 .. m + 1 /\ i = Len(a) + 1
      BY <1>4, <1>7, <2>3
    <3> QED
      BY <1>5, <1>6, <2>3, <3>1
  <2> QED
    BY <1>5, <1>7, <2>1, <2>2, <2>3
<1>9. b = c
  <2>1. Len(b) = Len(c)
    BY <1>4, <1>5, <1>6, <1>7
  <2> QED
    BY <1>5, <1>6, <1>8, <2>1, SameSeq
<1>10. a = NamespacesClosed(t, m) /\ b = NamespacesClosed(t, m + 1)
  BY <1>2 DEF a, b
<1> QED
  BY <1>9, <1>10 DEF c, x

LEMMA NamespacesSaid ==
  ASSUME NEW r, NEW base, NEW t, NEW n, NEW frames, NEW meant,
         TextSays(r, base, t, n, frames, meant), Len(frames) = 1
  PROVE  \E G : Len(G) = 1 /\ TextSays(r, base, NamespacesClosed(t, n), 0, G, meant)
<1>1. n \in Nat /\ IsASeq(t)
  BY DEF TextSays, FramesFit, Reads
<1> DEFINE T == {m \in Nat : m <= n => \E G : /\ Len(G) = 1
                   /\ TextSays(r, base, NamespacesClosed(t, m), n - m, G, meant)}
<1>2. 0 \in T
  <2>1. NamespacesClosed(t, 0) = t /\ n - 0 = n
    BY <1>1, NamespacesNone
  <2> QED
    BY <2>1
<1>3. ASSUME NEW m \in Nat, m \in T PROVE m + 1 \in T
  <2> SUFFICES ASSUME m + 1 <= n
               PROVE  \E G : /\ Len(G) = 1
                         /\ TextSays(r, base, NamespacesClosed(t, m + 1), n - (m + 1), G, meant)
    OBVIOUS
  <2>1. PICK G : Len(G) = 1 /\ TextSays(r, base, NamespacesClosed(t, m), n - m, G, meant)
    BY <1>1, <1>3
  <2>2. n - m >= 1 /\ (n - m) - 1 = n - (m + 1)
    BY <1>1
  <2> DEFINE k == n - m
             text == NamespacesClosed(t, m)
  <2>3. \E H : Len(H) = 1 /\ TextSays(r, base, Append(text, Closing(Object)), k - 1, H, meant)
    <3>1. k >= 1 /\ TextSays(r, base, text, k, G, meant)
      BY <2>1, <2>2
    <3> HIDE DEF k, text
    <3> QED
      BY <2>1, <3>1, NamespaceEnds
  <2>4. NamespacesClosed(t, m + 1) = Append(text, Closing(Object))
    BY <1>1, NamespacesMore
  <2> QED
    BY <2>2, <2>3, <2>4
<1> HIDE DEF T
<1>4. n \in T
  BY <1>1, <1>2, <1>3, Induction
<1>5. n <= n /\ n - n = 0
  BY <1>1
<1> QED
  BY <1>4, <1>5 DEF T

(* The frame of the fields that stand in no namespace. *)
RootFrame(G) == IsASeq(G) /\ Len(G) = 1 /\ G[1].what = Object /\ G[1].path = <<>>

(* No bracket is open but those of namespaces. *)
LEMMA OneFrame ==
  ASSUME NEW n, NEW frames, NEW open, NEW path, FramesFit(n, frames, open, path),
         Len(frames) = 1
  PROVE  /\ Last(frames) = frames[1] /\ frames[1].what = Object
         /\ n = 0 => RootFrame(frames) /\ open = <<Object>> /\ \E x : path = <<x>>
<1>1. /\ n \in Nat /\ IsASeq(frames) /\ IsASeq(open) /\ Len(open) = n + 1
      /\ IsASeq(path) /\ Len(path) = n + 1
      /\ \A j \in 1 .. n + 1 : open[j] = Object
      /\ open[n + 1] = frames[1].what
      /\ IsASeq(frames[1].path) /\ Len(frames[1].path) = n + 1 - 1
  <2>1. 1 \in 1 .. Len(frames)
    OBVIOUS
  <2> QED
    BY <2>1 DEF FramesFit
<1>2. Last(frames) = frames[1]
  BY DEF Last
<1>3. frames[1].what = Object
  BY <1>1
<1>4. ASSUME n = 0 PROVE RootFrame(frames) /\ open = <<Object>> /\ \E x : path = <<x>>
  <2>1. frames[1].path = <<>>
    <3>1. Len(frames[1].path) = 0
      BY <1>1, <1>4
    <3> QED
      BY <1>1, <3>1, EmptySequence
  <2> DEFINE v == <<Object>>
             w == <<path[1]>>
  <2>2. IsASeq(v) /\ Len(v) = 1 /\ v[1] = Object
    BY OneSeq
  <2>3. IsASeq(w) /\ Len(w) = 1 /\ w[1] = path[1]
    BY OneSeq
  <2> HIDE DEF v, w
  <2>4. Len(open) = 1 /\ open[1] = Object /\ Len(path) = 1 /\ \A i \in 1 .. 1 : i = 1
    BY <1>1, <1>4
  <2>5. open = v
    BY <1>1, <2>2, <2>4, SameSeq
  <2>6. path = w
    BY <1>1, <2>3, <2>4, SameSeq
  <2>7. RootFrame(frames)
    BY <1>1, <1>3, <2>1 DEF RootFrame
  <2> QED
    BY <2>5, <2>6, <2>7 DEF v, w
<1> QED
  BY <1>2, <1>3, <1>4

(* Fields that stand in no namespace. *)
LEMMA RootFits ==
  ASSUME NEW G, RootFrame(G), NEW x
  PROVE  FramesFit(0, G, <<Object>>, <<x>>) /\ Last(G) = G[1]
<1> DEFINE v == <<Object>>
           w == <<x>>
<1>1. IsASeq(v) /\ Len(v) = 1 /\ v[1] = Object
  BY OneSeq
<1>2. IsASeq(w) /\ Len(w) = 1
  BY OneSeq
<1> HIDE DEF v, w
<1>3. /\ IsASeq(G) /\ Len(G) = 1 /\ G[1].what = Object /\ G[1].path = <<>> /\ Object # Array
  BY DEF RootFrame, Object, Array
<1>4. IsASeq(<<>>) /\ Len(<<>>) = 0
  BY EmptySequence
<1>5. ASSUME NEW i \in 1 .. Len(G)
      PROVE  /\ G[i].what \in {Object, Array} /\ v[0 + i] = G[i].what
             /\ G[i].what = Array => w[0 + i] = Element
             /\ IsASeq(G[i].path) /\ Len(G[i].path) = 0 + i - 1
             /\ \A j \in 1 .. 0 + i - 1 : G[i].path[j] = w[j]
  <2>1. i = 1 /\ 0 + i = 1 /\ 0 + i - 1 = 0
    BY <1>3
  <2> QED
    BY <1>1, <1>3, <1>4, <2>1
<1>6. \A j \in 1 .. 0 + 1 : v[j] = Object
  <2>1. \A j \in 1 .. 0 + 1 : j = 1
    OBVIOUS
  <2> QED
    BY <1>1, <2>1
<1>7. FramesFit(0, G, v, w)
  BY <1>1, <1>2, <1>3, <1>5, <1>6 DEF FramesFit
<1>8. Last(G) = G[1]
  BY <1>3 DEF Last
<1> QED
  BY <1>7, <1>8 DEF v, w

(* Sequences and the empty one. *)
LEMMA AppendEmpty == ASSUME NEW x PROVE Append(<<>>, x) = <<x>>
<1> DEFINE v == <<x>>
           e == <<>>
           a == Append(e, x)
<1>1. IsASeq(v) /\ Len(v) = 1 /\ v[1] = x
  BY OneSeq
<1>2. IsASeq(e) /\ Len(e) = 0
  BY EmptySequence
<1> HIDE DEF v, e
<1>3. IsASeq(a) /\ Len(a) = Len(e) + 1 /\ a[Len(e) + 1] = x
  BY <1>2, AppendSeq
<1> HIDE DEF a
<1>4. Len(a) = 1 /\ a[1] = x /\ \A i \in 1 .. 1 : i = 1
  BY <1>2, <1>3
<1>5. a = v
  BY <1>1, <1>3, <1>4, SameSeq
<1> QED
  BY <1>5 DEF a, v, e

LEMMA ConcatNone ==
  ASSUME NEW t, IsASeq(t)
  PROVE  t \o <<>> = t /\ <<>> \o t = t
<1> DEFINE e == <<>>
           a == t \o e
           b == e \o t
<1>1. IsASeq(e) /\ Len(e) = 0
  BY EmptySequence
<1> HIDE DEF e
<1>2. IsASeq(a) /\ Len(a) = Len(t) + Len(e) /\ \A i \in 1 .. Len(t) : a[i] = t[i]
  BY <1>1, ConcatSeq
<1>3. IsASeq(b) /\ Len(b) = Len(e) + Len(t) /\ \A i \in 1 .. Len(t) : b[Len(e) + i] = t[i]
  BY <1>1, ConcatSeq
<1>4. Len(t) \in Nat
  BY SeqFacts
<1> HIDE DEF a, b
<1>5. Len(a) = Len(t) /\ Len(b) = Len(t) /\ \A i \in 1 .. Len(t) : b[i] = t[i]
  BY <1>1, <1>2, <1>3, <1>4
<1>6. a = t
  BY <1>2, <1>5, SameSeq
<1>7. b = t
  BY <1>3, <1>5, SameSeq
<1> QED
  BY <1>6, <1>7 DEF a, b, e

-----------------------------------------------------------------------------
(* What is read of a line before its first field. *)
Begun == << << <<>>, Object>> >>
RootPath == [what |-> Object, path |-> <<>>]

(* The bracket that begins a line of JSON. *)
LEMMA StartSaid == TextSays(Start, Begun, <<"{">>, 0, <<RootPath>>, <<>>)
<1> DEFINE e == << <<>>, Object>>
           E == <<>>
           text == <<"{">>
           G == <<RootPath>>
<1>1. Start = St("value", "text", E, E, E, E)
  BY DEF Start, St
<1>2. ReadUnit(Start, Opening(Object)) = St("firstKey", "text", <<Object>>, << <<>> >>, <<>>, Begun)
  <2> DEFINE k == <<>>
             want == "firstKey"
             need == "value"
             B == Append(E, e)
  <2>1. /\ want = IF Object = Object THEN "firstKey" ELSE "first"
        /\ k = IF Object = Object THEN <<>> ELSE Element
        /\ e = <<E, Object>> /\ need \in {"value", "first"}
    OBVIOUS
  <2> HIDE DEF want, k, e, need, E
  <2>2. ReadUnit(St(need, "text", E, E, E, E), Opening(Object))
          = St(want, "text", Append(E, Object), Append(E, k), E, Append(E, e))
    BY <2>1, ReadOpening
  <2>3. Append(E, Object) = <<Object>> /\ Append(E, k) = <<k>> /\ Append(E, e) = <<e>>
    BY AppendEmpty DEF E
  <2>4. ReadUnit(Start, Opening(Object)) = St(want, "text", <<Object>>, <<k>>, E, <<e>>)
    BY <1>1, <2>2, <2>3 DEF need
  <2> QED
    BY <2>4 DEF want, k, E, e, Begun
<1>3. Reads(Start, <<Opening(Object)>>, St("firstKey", "text", <<Object>>, << <<>> >>, <<>>, Begun))
  <2> DEFINE s == St("firstKey", "text", <<Object>>, << <<>> >>, <<>>, Begun)
  <2>1. ReadUnit(Start, Opening(Object)) = s
    BY <1>2
  <2> HIDE DEF s
  <2>2. Reads(Start, <<Opening(Object)>>, s)
    BY <2>1, ReadsOne
  <2> QED
    BY <2>2 DEF s
<1>4. text = <<Opening(Object)>>
  BY DEF Opening
<1>5. IsASeq(Begun) /\ Begun \o E = Begun /\ IsASeq(E)
  <2> HIDE DEF e
  <2>1. IsASeq(<<e>>)
    BY OneSeq
  <2>2. IsASeq(Begun)
    BY <2>1 DEF Begun, e
  <2> QED
    BY <2>2, ConcatNone, EmptySequence
<1>6. IsASeq(text) /\ text # <<>> /\ Last(text) = "{"
  <2>1. IsASeq(text) /\ Len(text) = 1 /\ Last(text) = "{"
    BY OneSeq
  <2> QED
    BY <2>1, EmptySequence
<1>7. RootFrame(G)
  <2>1. RootPath.what = Object /\ RootPath.path = <<>>
    BY DEF RootPath
  <2>2. IsASeq(G) /\ Len(G) = 1 /\ G[1] = RootPath
    BY OneSeq
  <2> HIDE DEF G
  <2> QED
    BY <2>1, <2>2 DEF RootFrame
<1> HIDE DEF G, text
<1>8. FramesFit(0, G, <<Object>>, << <<>> >>) /\ Last(G).what = Object /\ Len(G) = 1
  <2> DEFINE k == <<>>
  <2> HIDE DEF k
  <2>1. FramesFit(0, G, <<Object>>, <<k>>) /\ Last(G) = G[1]
    BY <1>7, RootFits
  <2> QED
    BY <1>7, <2>1 DEF RootFrame, k
<1>9. NeedFits(text, Last(G).what, "firstKey")
  <2>1. Last(text) \in {"{", "["}
    BY <1>6
  <2> QED
    BY <1>6, <1>8, <2>1 DEF NeedFits
<1>10. TextSays(Start, Begun, text, 0, G, E)
  <2> HIDE DEF E
  <2>1. Reads(Start, text, St("firstKey", "text", <<Object>>, << <<>> >>, <<>>, Begun \o E))
    BY <1>3, <1>4, <1>5
  <2> QED
    BY <1>5, <1>6, <1>8, <1>9, <2>1 DEF TextSays
<1> QED
  BY <1>10 DEF text, G

(* From nothing, nothing is read and nothing is meant. *)
LEMMA NothingRead == ASSUME NEW r, NEW s, Reads(r, <<>>, s) PROVE s = r
<1>1. PICK g : Trace(g, r, <<>>) /\ g[Len(<<>>)] = s
  BY DEF Reads
<1>2. Len(<<>>) = 0
  BY EmptySequence
<1> QED
  BY <1>1, <1>2 DEF Trace

LEMMA NothingMeant ==
  ASSUME NEW base, IsASeq(base), NEW meant, IsASeq(meant), base \o meant = base
  PROVE  meant = <<>>
<1>1. Len(base \o meant) = Len(base) + Len(meant) /\ Len(base) \in Nat /\ Len(meant) \in Nat
  BY ConcatSeq, SeqFacts
<1>2. Len(meant) = 0
  BY <1>1
<1> QED
  BY <1>2, EmptySequence

(* A text of one frame and no namespace is completed by a bracket. *)
LEMMA EndSaid ==
  ASSUME NEW base, NEW t, NEW G, NEW meant, TextSays(Start, base, t, 0, G, meant),
         Len(G) = 1, t # <<>>
  PROVE  LET r == ReadJson(Append(t, Closing(Object)))
         IN  r.need = "end" /\ r.seen = base \o meant
<1>1. PICK need, open, path, str :
        /\ Reads(Start, t, St(need, "text", open, path, str, base \o meant))
        /\ FramesFit(0, G, open, path)
        /\ NeedFits(t, Last(G).what, need)
  BY DEF TextSays
<1>2. Last(G).what = Object /\ open = <<Object>>
  BY <1>1, OneFrame
<1> DEFINE seen == base \o meant
           v == <<Object>>
           a == St(need, "text", v, path, str, seen)
           b == St("end", "text", Front(v), Front(path), str, seen)
           what == Object
<1>3. IsASeq(v) /\ Len(v) = 1 /\ Last(v) = Object
  BY OneSeq
<1> HIDE DEF v
<1>4. v # <<>> /\ Front(v) = <<>>
  <2>1. Len(v) >= 1
    BY <1>3
  <2>2. IsASeq(Front(v)) /\ Len(Front(v)) = Len(v) - 1
    BY <1>3, <2>1, FrontFacts
  <2>3. Len(Front(v)) = 0
    BY <1>3, <2>2
  <2> QED
    BY <1>3, <2>2, <2>3, EmptySequence
<1>5. AfterValue(Front(v)) = "end"
  BY <1>4 DEF AfterValue
<1>6. ReadUnit(a, Closing(Object)) = b
  <2>1. what \in {Object, Array} /\ Last(v) = what /\ NeedFits(t, what, need)
    BY <1>1, <1>2, <1>3
  <2> HIDE DEF seen, what
  <2>2. need \in {"next", IF what = Object THEN "firstKey" ELSE "first"}
    BY <2>1, TextNeeds
  <2>3. ReadUnit(St(need, "text", v, path, str, seen), Closing(what))
          = St(AfterValue(Front(v)), "text", Front(v), Front(path), str, seen)
    BY <1>4, <2>1, <2>2, ReadClosing
  <2> QED
    BY <1>5, <2>3 DEF what
<1>7. Reads(Start, t, a)
  BY <1>1, <1>2 DEF v
<1>8. b.need = "end" /\ b.seen = base \o meant
  BY DEF St
<1> HIDE DEF a, b
<1>9. Reads(Start, Append(t, Closing(Object)), b)
  BY <1>6, <1>7, ReadsAppend
<1>10. ReadJson(Append(t, Closing(Object))) = b
  BY <1>9, ReadJsonReads
<1> QED
  BY <1>8, <1>10

(* What the user says, and what zap says of an error of the user's type. *)
LEMMA ErrorSaid ==
  ASSUME NEW r, NEW base, NEW t, NEW n, NEW frames, NEW meant,
         TextSays(r, base, t, n, frames, meant), Len(frames) = 1, NEW spaced
  PROVE  TextSays(r, base, ErrorText(t, spaced), n, frames,
                  Append(meant, <<Append(frames[1].path, ErrorKey), <<"e">>>>))
<1> DEFINE k == ErrorKey
           s == <<"e">>
           u == Keyed(t, k, spaced)
           place == Append(Last(frames).path, AsRead(k))
<1>1. Last(frames) = frames[1] /\ frames[1].what = Object
  BY OneFrame DEF TextSays
<1>2. IsASeq(k) /\ AsRead(k) = k
  <2>1. "Error" # "invalid"
    OBVIOUS
  <2> QED
    BY <2>1, AsReadPlain DEF ErrorKey
<1>3. IsASeq(s) /\ AsRead(s) = s
  <2>1. "e" # "invalid"
    OBVIOUS
  <2> QED
    BY <2>1, AsReadPlain
<1>4. u = LabelledText(t, Last(frames).what, k, spaced)
  BY <1>1 DEF LabelledText
<1>5. Object # Array
  BY DEF Object, Array
<1>6. ErrorText(t, spaced) = WithString(u, s, spaced)
  BY DEF ErrorText
<1> HIDE DEF k, s, u
<1>7. ReadyFor(r, base, Separated(u, spaced), n, frames, meant, place)
  <2>1. Last(frames).what = Array => k = Element
    BY <1>1, <1>5
  <2> QED
    BY <1>2, <1>4, <2>1, LabelReady
<1> HIDE DEF place
<1>8. TextSays(r, base, WithString(u, s, spaced), n, frames, Append(meant, <<place, AsRead(s)>>))
  BY <1>3, <1>7, StringSaid
<1>9. place = Append(frames[1].path, ErrorKey)
  BY <1>1, <1>2 DEF place, k
<1> QED
  BY <1>3, <1>6, <1>8, <1>9 DEF s

-----------------------------------------------------------------------------
(* The text c of a context says what is meant, wherever in an object.      *)
InObject(r, base) ==
  /\ IsASeq(base)
  /\ \E need, x, str :
       need \in {"key", "firstKey"} /\ r = St(need, "text", <<Object>>, <<x>>, str, base)

ContextSays(c, n, frames, meant) ==
  \A r, base : InObject(r, base) => TextSays(r, base, c, n, frames, meant)

LEMMA InObjects ==
  ASSUME NEW base, IsASeq(base), NEW need, need = "key" \/ need = "firstKey", NEW x, NEW str,
         NEW r, r = St(need, "text", <<Object>>, <<x>>, str, base)
  PROVE  InObject(r, base)
<1> DEFINE At(want, y, text) ==
             want \in {"key", "firstKey"} /\ r = St(want, "text", <<Object>>, <<y>>, text, base)
<1>1. At(need, x, str)
  OBVIOUS
<1> HIDE DEF At
<1>2. \E want, y, text : At(want, y, text)
  BY <1>1
<1> QED
  BY <1>2, Zenon DEF InObject, At

(* writeContext, or the begin of EncodeEntry: the text of a context is     *)
(* added after a separator, and says what it said.                         *)
LEMMA Combined ==
  ASSUME NEW base, NEW h, NEW H, NEW said, TextSays(Start, base, h, 0, H, said),
         Len(H) = 1, h # <<>>,
         NEW c, NEW n, NEW frames, NEW meant, ContextSays(c, n, frames, meant),
         NEW spaced
  PROVE  TextSays(Start, base \o said, IF c = <<>> THEN h ELSE Separated(h, spaced) \o c,
                  n, frames, meant)
<1>1. PICK need, open, path, str :
        /\ Reads(Start, h, St(need, "text", open, path, str, base \o said))
        /\ FramesFit(0, H, open, path)
        /\ NeedFits(h, Last(H).what, need)
  BY DEF TextSays
<1>2. PICK x : Last(H).what = Object /\ open = <<Object>> /\ path = <<x>>
  BY <1>1, OneFrame
<1> DEFINE B == base \o said
           s(want, st) == St(want, "text", <<Object>>, <<x>>, st, B)
<1>3. IsASeq(B)
  BY ConcatSeq DEF TextSays
<1>4. \A want \in {"key", "firstKey"} : \A st : TextSays(s(want, st), B, c, n, frames, meant)
  <2> SUFFICES ASSUME NEW st, NEW want \in {"key", "firstKey"}
               PROVE  TextSays(s(want, st), B, c, n, frames, meant)
    OBVIOUS
  <2> DEFINE r == s(want, st)
  <2>1. InObject(r, B)
    <3> HIDE DEF B
    <3> QED
      BY <1>3, InObjects DEF B
  <2> HIDE DEF r, B
  <2> QED
    BY <2>1 DEF ContextSays, r
<1>5. CASE c = <<>>
  <2> DEFINE r == s("key", str)
  <2>1. TextSays(r, B, c, n, frames, meant)
    BY <1>4
  <2> HIDE DEF r, B
  <2>2. n = 0 /\ Len(frames) = 1 /\ IsASeq(meant)
    BY <1>5, <2>1 DEF TextSays
  <2>3. PICK need2, open2, path2, str2 :
          /\ Reads(r, c, St(need2, "text", open2, path2, str2, B \o meant))
          /\ FramesFit(n, frames, open2, path2)
    BY <2>1 DEF TextSays
  <2>4. r = St(need2, "text", open2, path2, str2, B \o meant)
    BY <1>5, <2>3, NothingRead
  <2>5. B \o meant = B
    <3>1. r.seen = B
      BY DEF r, St
    <3>2. St(need2, "text", open2, path2, str2, B \o meant).seen = B \o meant
      BY DEF St
    <3> QED
      BY <2>4, <3>1, <3>2
  <2>6. RootFrame(frames)
    BY <2>2, <2>3, OneFrame
  <2>7. FramesFit(n, frames, open, path) /\ Last(frames).what = Object
    BY <1>2, <2>2, <2>6, RootFits DEF RootFrame
  <2>8. Reads(Start, h, St(need, "text", open, path, str, B \o meant))
    BY <1>1, <2>5 DEF B
  <2>9. TextSays(Start, B, h, n, frames, meant)
    BY <1>1, <1>2, <1>3, <2>2, <2>7, <2>8 DEF TextSays
  <2> QED
    BY <1>5, <2>9 DEF B
<1>6. CASE c # <<>>
  <2> DEFINE text == Separated(h, spaced) \o c
  <2>1. PICK want \in {"key", "firstKey"} : Reads(Start, Separated(h, spaced), s(want, str))
    <3> DEFINE o == <<Object>>
    <3>1. o # <<>> /\ Last(o) = Object
      BY OneSeq, EmptySequence
    <3>2. NeedFits(h, Last(o), need) /\ Reads(Start, h, St(need, "text", o, path, str, B))
      BY <1>1, <1>2, <3>1
    <3> HIDE DEF o, B
    <3>3. \E want :
            /\ Reads(Start, Separated(h, spaced), St(want, "text", o, path, str, B))
            /\ Last(o) = Object => want \in {"key", "firstKey"}
      BY <3>1, <3>2, ReadsSeparated
    <3> QED
      BY <1>2, <3>1, <3>3 DEF o
  <2> DEFINE r == s(want, str)
  <2>2. TextSays(r, B, c, n, frames, meant)
    BY <1>4
  <2>3. Reads(Start, Separated(h, spaced), r)
    BY <2>1
  <2> HIDE DEF r, B
  <2>4. PICK need2, open2, path2, str2 :
          /\ Reads(r, c, St(need2, "text", open2, path2, str2, B \o meant))
          /\ FramesFit(n, frames, open2, path2)
          /\ NeedFits(c, Last(frames).what, need2)
    BY <2>2 DEF TextSays
  <2>5. Reads(Start, text, St(need2, "text", open2, path2, str2, B \o meant))
    BY <2>3, <2>4, ReadsThen
  <2>6. Last(text) = Last(c) /\ text # <<>>
    <3>1. IsASeq(c) /\ IsASeq(Separated(h, spaced))
      BY <2>3, <2>4 DEF Reads
    <3>2. Len(c) >= 1
      <4>1. Len(c) \in Nat /\ Len(c) # 0
        BY <1>6, <3>1, SeqFacts, EmptySequence
      <4> QED
        BY <4>1
    <3> QED
      BY <3>1, <3>2, LastConcat
  <2> HIDE DEF text
  <2>7. NeedFits(text, Last(frames).what, need2)
    BY <1>6, <2>4, <2>6 DEF NeedFits
  <2>8. TextSays(Start, B, text, n, frames, meant)
    BY <1>3, <2>2, <2>4, <2>5, <2>6, <2>7 DEF TextSays
  <2> QED
    BY <1>6, <2>8 DEF B, text
<1> QED
  BY <1>5, <1>6

(* JSON begins with a bracket. *)
LEMMA NotEmpty ==
  ASSUME NEW base, NEW t, NEW n, NEW frames, NEW meant,
         TextSays(Start, base, t, n, frames, meant)
  PROVE  t # <<>>
<1> SUFFICES ASSUME t = <<>> PROVE FALSE
  OBVIOUS
<1>1. PICK need, open, path, str :
        /\ Reads(Start, t, St(need, "text", open, path, str, base \o meant))
        /\ FramesFit(n, frames, open, path)
  BY DEF TextSays
<1> DEFINE s == St(need, "text", open, path, str, base \o meant)
<1>2. s.open = open /\ Start.open = <<>>
  BY DEF St, Start
<1> HIDE DEF s
<1>3. s = Start
  BY <1>1, NothingRead DEF s
<1>4. open # <<>>
  BY <1>1, FramesFacts
<1> QED
  BY <1>2, <1>3, <1>4

(* An element of the metadata says one thing, or nothing if it is left     *)
(* out.                                                                    *)
LEMMA MeantMetaSeq ==
  ASSUME NEW config, NEW entry, NEW k PROVE IsASeq(MeantMeta(config, entry, k))
<1> DEFINE e == << << <<k>> >>, IF k = "ts" THEN Said(config.time) ELSE Meta>>
<1>1. MeantMeta(config, entry, k) = <<e>> \/ MeantMeta(config, entry, k) = <<>>
  BY DEF MeantMeta, Part
<1> HIDE DEF e
<1> QED
  BY <1>1, OneSeq, EmptySequence

(* An element of the metadata, outside of all namespaces. *)
LEMMA MetaSaid ==
  ASSUME NEW base, NEW t, NEW G, NEW meant, TextSays(Start, base, t, 0, G, meant), RootFrame(G),
         NEW config, config.time \in Seq(Seq(STRING)), Len(config.time) <= 1,
         NEW entry, NEW k, k # "invalid", NEW spaced
  PROVE  TextSays(Start, base, WithMeta(t, config, entry, k, spaced), 0, G,
                  meant \o MeantMeta(config, entry, k))
<1> DEFINE v == IF k = "ts" THEN Said(config.time) ELSE Meta
           key == <<k>>
           place == <<key>>
           e == <<place, v>>
           u == Keyed(t, key, spaced)
           text == WithMeta(t, config, entry, k, spaced)
<1>0. IsASeq(meant) /\ IsASeq(base)
  BY DEF TextSays
<1>1. CASE ~Has(config, entry, k)
  <2>1. text = t /\ MeantMeta(config, entry, k) = <<>>
    BY <1>1 DEF WithMeta, MeantMeta, Part
  <2> QED
    BY <1>0, <2>1, ConcatNone
<1>2. CASE Has(config, entry, k)
  <2>1. MeantMeta(config, entry, k) = <<e>>
    BY <1>2 DEF MeantMeta, Part
  <2>2. meant \o MeantMeta(config, entry, k) = Append(meant, e)
    <3> HIDE DEF e
    <3> QED
      BY <1>0, <2>1, AppendConcat
  <2>3. IsASeq(key) /\ AsRead(key) = key
    BY AsReadPlain
  <2>4. Last(G) = G[1] /\ G[1].what = Object /\ G[1].path = <<>> /\ Object # Array
    BY RootFits DEF RootFrame, Object, Array
  <2>5. Append(Last(G).path, AsRead(key)) = place
    <3> HIDE DEF key
    <3> QED
      BY <2>3, <2>4, AppendEmpty
  <2> HIDE DEF key, place
  <2>6. u = LabelledText(t, Last(G).what, key, spaced)
    BY <2>4 DEF LabelledText
  <2>7. ReadyFor(Start, base, Separated(u, spaced), 0, G, meant, place)
    <3>1. Last(G).what = Array => key = Element
      BY <2>4
    <3> HIDE DEF u
    <3>2. ReadyFor(Start, base, Separated(u, spaced), 0, G, meant, Append(Last(G).path, AsRead(key)))
      BY <2>3, <2>6, <3>1, LabelReady
    <3> QED
      BY <2>5, <3>2
  <2>8. CASE k = "ts"
    <3>1. text = WithEncoded(u, config.time, spaced) /\ v = Said(config.time)
      BY <1>2, <2>8 DEF WithMeta, key
    <3> DEFINE values == config.time
    <3>2. values \in Seq(Seq(STRING)) /\ Len(values) <= 1
      OBVIOUS
    <3> HIDE DEF values, u
    <3>3. TextSays(Start, base, WithEncoded(u, values, spaced), 0, G, Append(meant, <<place, Said(values)>>))
      BY <2>7, <3>2, EncodedSaid
    <3> HIDE DEF text, v
    <3> QED
      BY <2>2, <3>1, <3>3 DEF values, text
  <2>9. CASE k # "ts"
    <3>1. text = WithString(u, Meta, spaced) /\ v = Meta
      BY <1>2, <2>9 DEF WithMeta, key
    <3>2. IsASeq(Meta) /\ AsRead(Meta) = Meta
      <4>1. "v" # "invalid"
        OBVIOUS
      <4> QED
        BY <4>1, AsReadPlain DEF Meta
    <3> HIDE DEF u
    <3>3. TextSays(Start, base, WithString(u, Meta, spaced), 0, G, Append(meant, <<place, AsRead(Meta)>>))
      BY <2>7, <3>2, StringSaid
    <3> HIDE DEF text, v
    <3> QED
      BY <2>2, <3>1, <3>2, <3>3 DEF text
  <2> QED
    BY <2>8, <2>9
<1> QED
  BY <1>1, <1>2

(* Level, time, name, caller and message of a line of JSON. *)
LEMMA HeaderSaid ==
  ASSUME NEW config, config.time \in Seq(Seq(STRING)), Len(config.time) <= 1,
         NEW entry, NEW spaced
  PROVE  TextSays(Start, Begun, HeaderJSON(config, entry, spaced), 0, <<RootPath>>,
                  MeantHeader(config, entry))
<1> DEFINE G == <<RootPath>>
           With(t, k) == WithMeta(t, config, entry, k, spaced)
           M(k) == MeantMeta(config, entry, k)
           t0 == <<"{">>
           t1 == With(t0, "level")
           t2 == With(t1, "ts")
           t3 == With(t2, "name")
           t4 == With(t3, "caller")
           t5 == With(t4, "msg")
<1>1. RootFrame(G)
  <2>1. RootPath.what = Object /\ RootPath.path = <<>>
    BY DEF RootPath
  <2>2. IsASeq(G) /\ Len(G) = 1 /\ G[1] = RootPath
    BY OneSeq
  <2> HIDE DEF G
  <2> QED
    BY <2>1, <2>2 DEF RootFrame
<1>2. ASSUME NEW t, NEW m, TextSays(Start, Begun, t, 0, G, m),
             NEW k \in {"level", "ts", "name", "caller", "msg"}
      PROVE  TextSays(Start, Begun, With(t, k), 0, G, m \o M(k))
  <2>1. k # "invalid"
    OBVIOUS
  <2> HIDE DEF G
  <2> QED
    BY <1>1, <1>2, <2>1, MetaSaid
<1>3. TextSays(Start, Begun, t0, 0, G, <<>>)
  BY StartSaid
<1>4. HeaderJSON(config, entry, spaced) = t5
  BY DEF HeaderJSON
<1>5. MeantHeader(config, entry) = M("level") \o M("ts") \o M("name") \o M("caller") \o M("msg")
  BY DEF MeantHeader
<1>6. <<>> \o M("level") = M("level")
  BY MeantMetaSeq, ConcatNone
<1> HIDE DEF With, M, G, t0
<1>7. TextSays(Start, Begun, t1, 0, G, M("level"))
  BY <1>2, <1>3, <1>6
<1> HIDE DEF t1
<1>8. TextSays(Start, Begun, t2, 0, G, M("level") \o M("ts"))
  BY <1>2, <1>7
<1> HIDE DEF t2
<1>9. TextSays(Start, Begun, t3, 0, G, M("level") \o M("ts") \o M("name"))
  BY <1>2, <1>8
<1> HIDE DEF t3
<1>10. TextSays(Start, Begun, t4, 0, G, M("level") \o M("ts") \o M("name") \o M("caller"))
  BY <1>2, <1>9
<1> HIDE DEF t4
<1>11. TextSays(Start, Begun, t5, 0, G, MeantHeader(config, entry))
  BY <1>2, <1>5, <1>10
<1> QED
  BY <1>4, <1>11 DEF G

(* The brackets of the console's context. *)
LBrace == "{"
RBrace == "}"

(* The first and the last of some indices. *)
LEMMA FirstIndex ==
  ASSUME NEW I, NEW x \in Nat, x \in I, \A y \in I : y \in Nat /\ x <= y
  PROVE  I # {} /\ Min(I) = x
<1>1. \E z \in I : \A y \in I : z <= y
  OBVIOUS
<1>2. \A z \in I : (\A y \in I : z <= y) => z = x
  OBVIOUS
<1> QED
  BY <1>1, <1>2 DEF Min

LEMMA LastIndex ==
  ASSUME NEW I, NEW x \in Nat, x \in I, \A y \in I : y \in Nat /\ x >= y
  PROVE  I # {} /\ Max(I) = x
<1>1. \E z \in I : \A y \in I : z >= y
  OBVIOUS
<1>2. \A z \in I : (\A y \in I : z >= y) => z = x
  OBVIOUS
<1> QED
  BY <1>1, <1>2 DEF Max

(* Where the first a and the last b of a line are, and what they enclose.  *)
FirstOf(line, a) ==
  LET I == {i \in 1 .. Len(line) : line[i] = a} IN IF I # {} THEN Min(I) ELSE 0
LastOf(line, b) ==
  LET J == {i \in 1 .. Len(line) : line[i] = b} IN IF J # {} THEN Max(J) ELSE 0

(* A line in three parts, of which the second is enclosed. *)
Parts(line, h, m, rest) == line = (h \o m) \o rest

LEMMA Enclosed ==
  ASSUME NEW a, NEW b, NEW h, IsASeq(h), \A i \in 1 .. Len(h) : h[i] # a,
         NEW m, IsASeq(m), Len(m) >= 1, m[1] = a, m[Len(m)] = b,
         NEW rest, IsASeq(rest), \A i \in 1 .. Len(rest) : rest[i] # b,
         NEW line, Parts(line, h, m, rest)
  PROVE  SubSeq(line, FirstOf(line, a), LastOf(line, b)) = m
<1> DEFINE p == Len(h)
           q == Len(m)
           t == Len(rest)
           c == h \o m
           I == {i \in 1 .. Len(line) : line[i] = a}
           J == {i \in 1 .. Len(line) : line[i] = b}
<1>1. p \in Nat /\ q \in Nat /\ t \in Nat /\ q >= 1
  BY SeqFacts
<1>2. /\ IsASeq(c) /\ Len(c) = p + q
      /\ \A i \in 1 .. p : c[i] = h[i]
      /\ \A i \in 1 .. q : c[p + i] = m[i]
  BY ConcatSeq
<1> HIDE DEF c
<1>3. /\ IsASeq(line) /\ Len(line) = Len(c) + t
      /\ \A i \in 1 .. Len(c) : line[i] = c[i]
      /\ \A i \in 1 .. t : line[Len(c) + i] = rest[i]
  BY <1>2, ConcatSeq DEF c, Parts
<1> HIDE DEF p, q, t
<1>4. /\ Len(line) = p + q + t
      /\ \A i \in 1 .. p : line[i] = h[i]
      /\ \A i \in 1 .. q : line[p + i] = m[i]
      /\ \A i \in 1 .. t : line[p + q + i] = rest[i]
  <2>1. \A i \in 1 .. p : i \in 1 .. p + q
    BY <1>1
  <2>2. \A i \in 1 .. q : p + i \in 1 .. p + q
    BY <1>1
  <2> QED
    BY <1>1, <1>2, <1>3, <2>1, <2>2
<1>5. I # {} /\ Min(I) = p + 1
  <2>1. p + 1 \in I
    <3>1. 1 \in 1 .. q /\ p + 1 \in 1 .. Len(line)
      BY <1>1, <1>4
    <3> QED
      BY <1>4, <3>1 DEF q
  <2>2. ASSUME NEW y \in I PROVE y \in Nat /\ p + 1 <= y
    <3>1. y \in 1 .. Len(line) /\ line[y] = a
      OBVIOUS
    <3>2. y \notin 1 .. p
      BY <1>4, <3>1 DEF p
    <3> QED
      BY <1>1, <1>4, <3>1, <3>2
  <2> HIDE DEF I
  <2> QED
    BY <1>1, <2>1, <2>2, FirstIndex
<1>6. J # {} /\ Max(J) = p + q
  <2>1. p + q \in J
    <3>1. q \in 1 .. q /\ p + q \in 1 .. Len(line)
      BY <1>1, <1>4
    <3> QED
      BY <1>4, <3>1 DEF q
  <2>2. ASSUME NEW y \in J PROVE y \in Nat /\ p + q >= y
    <3>1. y \in 1 .. Len(line) /\ line[y] = b
      OBVIOUS
    <3>2. \A i \in 1 .. t : line[p + q + i] # b
      BY <1>4 DEF t
    <3>3. y \notin p + q + 1 .. p + q + t
      <4> SUFFICES ASSUME y \in p + q + 1 .. p + q + t PROVE FALSE
        OBVIOUS
      <4>1. y - (p + q) \in 1 .. t /\ p + q + (y - (p + q)) = y
        BY <1>1
      <4> QED
        BY <3>1, <3>2, <4>1
    <3> QED
      BY <1>1, <1>4, <3>1, <3>3
  <2> HIDE DEF J
  <2> QED
    BY <1>1, <2>1, <2>2, LastIndex
<1>7. FirstOf(line, a) = p + 1
  BY <1>5 DEF FirstOf
<1>8. LastOf(line, b) = p + q
  BY <1>6 DEF LastOf
<1> DEFINE s == SubSeq(line, p + 1, p + q)
<1>9. IsASeq(s) /\ Len(s) = q /\ \A i \in 1 .. q : s[i] = line[p + i]
  <2> DEFINE x == p + 1
             y == p + q
  <2>1. PICK S : line \in Seq(S)
    BY <1>3 DEF IsASeq
  <2>2. /\ x \in Int /\ y \in Int /\ x <= y /\ y - x + 1 = q
        /\ \A i \in x .. y : i \in 1 .. Len(line)
        /\ \A i \in 1 .. q : x + i - 1 = p + i
    BY <1>1, <1>4
  <2>3. \A i \in x .. y : line[i] \in S
    BY <2>1, <2>2
  <2> HIDE DEF x, y
  <2>4. /\ SubSeq(line, x, y) \in Seq(S)
        /\ Len(SubSeq(line, x, y)) = IF x <= y THEN y - x + 1 ELSE 0
        /\ \A i \in 1 .. y - x + 1 : SubSeq(line, x, y)[i] = line[x + i - 1]
    <3>1. x \in Int /\ y \in Int /\ \A i \in x .. y : line[i] \in S
      BY <2>2, <2>3
    <3> HIDE DEF q
    <3> QED
      BY ONLY <3>1
  <2>5. /\ Len(SubSeq(line, x, y)) = q
        /\ \A i \in 1 .. q : SubSeq(line, x, y)[i] = line[p + i]
    BY <2>2, <2>4
  <2> QED
    BY <2>4, <2>5 DEF IsASeq, x, y
<1> HIDE DEF s
<1>10. s = m
  <2>1. \A i \in 1 .. q : s[i] = m[i]
    BY <1>4, <1>9
  <2> QED
    BY <1>9, <2>1, SameSeq DEF q
<1> QED
  BY <1>7, <1>8, <1>10 DEF s

(* A context without text means nothing. *)
LEMMA ContextMeant ==
  ASSUME NEW c, NEW n, NEW frames, NEW meant, ContextSays(c, n, frames, meant)
  PROVE  c = <<>> => n = 0 /\ meant = <<>> /\ RootFrame(frames)
<1> SUFFICES ASSUME c = <<>> PROVE n = 0 /\ meant = <<>> /\ RootFrame(frames)
  OBVIOUS
<1> DEFINE B == <<>>
           r == St("key", "text", <<Object>>, <<Element>>, B, B)
<1>1. IsASeq(B)
  BY EmptySequence
<1> HIDE DEF B
<1>2. InObject(r, B)
  BY <1>1, InObjects
<1> HIDE DEF r
<1>3. TextSays(r, B, c, n, frames, meant)
  BY <1>2 DEF ContextSays
<1>4. n = 0 /\ Len(frames) = 1 /\ IsASeq(meant)
  BY <1>3 DEF TextSays
<1>5. PICK need, open, path, str :
        /\ Reads(r, c, St(need, "text", open, path, str, B \o meant))
        /\ FramesFit(n, frames, open, path)
  BY <1>3 DEF TextSays
<1>6. r = St(need, "text", open, path, str, B \o meant)
  BY <1>5, NothingRead
<1>7. B \o meant = B
  <2>1. r.seen = B
    BY DEF r, St
  <2>2. St(need, "text", open, path, str, B \o meant).seen = B \o meant
    BY DEF St
  <2> QED
    BY <1>6, <2>1, <2>2
<1>8. RootFrame(frames)
  BY <1>4, <1>5, OneFrame
<1> QED
  BY <1>1, <1>4, <1>7, <1>8, NothingMeant

(* closeOpenNamespaces appends, whatever stands before. *)
LEMMA NamespacesSeq ==
  ASSUME NEW n, NEW s, IsASeq(s), n \in Nat
  PROVE  /\ IsASeq(NamespacesClosed(s, n))
         /\ s # <<>> => NamespacesClosed(s, n) # <<>>
         /\ \A t : IsASeq(t) => NamespacesClosed(t \o s, n) = t \o NamespacesClosed(s, n)
<1> DEFINE x == "}"
           w == [i \in 1 .. n |-> x]
           c == s \o w
<1>1. IsASeq(w)
  <2> HIDE DEF x
  <2>1. w = [i \in 1 .. n |-> w[i]]
    OBVIOUS
  <2> HIDE DEF w
  <2> QED
    BY <2>1, FunctionSeq
<1>2. \A t : NamespacesClosed(t, n) = t \o w
  BY DEF NamespacesClosed
<1> HIDE DEF w, x
<1>3. IsASeq(c) /\ Len(c) = Len(s) + Len(w) /\ Len(s) \in Nat /\ Len(w) \in Nat
  BY <1>1, ConcatSeq, SeqFacts
<1>4. ASSUME s # <<>> PROVE c # <<>>
  <2> HIDE DEF c
  <2>1. Len(s) # 0
    BY <1>4, EmptySequence
  <2>2. Len(c) # 0
    BY <1>3, <2>1
  <2> QED
    BY <1>3, <2>2, EmptySequence
<1>5. ASSUME NEW t, IsASeq(t) PROVE (t \o s) \o w = t \o (s \o w)
  BY <1>1, <1>5, ConcatTwice
<1> QED
  BY <1>2, <1>3, <1>4, <1>5

(* writeContext: the context in its brackets is JSON and says what it      *)
(* said.                                                                   *)
LEMMA ConsoleSaid ==
  ASSUME NEW c, NEW n, NEW frames, NEW meant, ContextSays(c, n, frames, meant),
         Len(frames) = 1, meant # <<>>,
         NEW m, m = (<<LBrace>> \o NamespacesClosed(c, n)) \o <<RBrace>>
  PROVE  /\ ReadJson(m).need = "end" /\ ReadJson(m).seen = Begun \o meant
         /\ IsASeq(NamespacesClosed(c, n)) /\ NamespacesClosed(c, n) # <<>>
<1> DEFINE x == <<LBrace>>
           H == <<RootPath>>
           t == x \o c
           u == NamespacesClosed(t, n)
<1>1. c # <<>>
  BY ContextMeant
<1>2. IsASeq(x) /\ Len(x) = 1 /\ Last(x) = LBrace /\ x # <<>>
  BY OneSeq, EmptySequence
<1>3. TextSays(Start, Begun, x, 0, H, <<>>) /\ IsASeq(Begun) /\ Len(H) = 1
  <2>1. TextSays(Start, Begun, x, 0, H, <<>>)
    BY StartSaid DEF LBrace
  <2>2. Len(H) = 1
    BY OneSeq
  <2>3. IsASeq(Begun)
    BY <2>1 DEF TextSays
  <2> QED
    BY <2>1, <2>2, <2>3
<1>4. Separated(x, TRUE) = x
  <2>1. Last(x) = "{"
    BY <1>2 DEF LBrace
  <2> HIDE DEF x
  <2> QED
    BY <2>1 DEF Separated
<1>5. Begun \o <<>> = Begun
  BY <1>3, ConcatNone
<1> HIDE DEF H, x
<1>6. TextSays(Start, Begun, t, n, frames, meant)
  <2> DEFINE said == <<>>
  <2>1. TextSays(Start, Begun, x, 0, H, said) /\ Begun \o said = Begun
    BY <1>3, <1>5
  <2> HIDE DEF said
  <2>2. TextSays(Start, Begun \o said, IF c = <<>> THEN x ELSE Separated(x, TRUE) \o c, n, frames, meant)
    BY <1>2, <1>3, <2>1, Combined
  <2> QED
    BY <1>1, <1>4, <2>1, <2>2
<1>7. n \in Nat /\ IsASeq(t)
  BY <1>6 DEF TextSays, FramesFit, Reads
<1>8. IsASeq(c)
  <2> DEFINE B == <<>>
             r == St("key", "text", <<Object>>, <<Element>>, B, B)
  <2>1. IsASeq(B)
    BY EmptySequence
  <2> HIDE DEF B
  <2>2. InObject(r, B)
    BY <2>1, InObjects
  <2> HIDE DEF r
  <2>3. TextSays(r, B, c, n, frames, meant)
    BY <2>2 DEF ContextSays
  <2> QED
    BY <2>3 DEF TextSays, Reads
<1>9. /\ IsASeq(NamespacesClosed(c, n)) /\ NamespacesClosed(c, n) # <<>>
      /\ u = x \o NamespacesClosed(c, n)
  BY <1>1, <1>2, <1>7, <1>8, NamespacesSeq
<1> HIDE DEF t
<1>10. PICK G : Len(G) = 1 /\ TextSays(Start, Begun, u, 0, G, meant)
  BY <1>6, NamespacesSaid
<1> HIDE DEF u
<1>11. ReadJson(Append(u, Closing(Object))).need = "end"
       /\ ReadJson(Append(u, Closing(Object))).seen = Begun \o meant
  <2>1. u # <<>>
    BY <1>10, NotEmpty
  <2> QED
    BY <1>10, <2>1, EndSaid
<1>12. m = Append(u, Closing(Object))
  <2>1. RBrace = Closing(Object)
    BY DEF RBrace, Closing
  <2>2. IsASeq(u)
    BY <1>10 DEF TextSays, Reads
  <2>3. Append(u, RBrace) = u \o <<RBrace>>
    BY <2>2, AppendConcat
  <2> QED
    BY <1>9, <2>1, <2>3 DEF x
<1> QED
  BY <1>9, <1>11, <1>12

(* A text that cannot be taken for the begin of the context. *)
Plain(s) == IsASeq(s) /\ \A i \in 1 .. Len(s) : s[i] # LBrace

(* Plain texts are joined. *)
LEMMA PlainConcat == ASSUME NEW s, Plain(s), NEW t, Plain(t) PROVE Plain(s \o t)
<1> DEFINE c == s \o t
           n == Len(s)
<1>1. IsASeq(s) /\ IsASeq(t) /\ n \in Nat /\ Len(t) \in Nat
  BY SeqFacts DEF Plain
<1>2. /\ IsASeq(c) /\ Len(c) = n + Len(t)
      /\ \A i \in 1 .. n : c[i] = s[i]
      /\ \A i \in 1 .. Len(t) : c[n + i] = t[i]
  BY <1>1, ConcatSeq
<1> HIDE DEF c, n
<1>3. ASSUME NEW i \in 1 .. Len(c) PROVE c[i] # LBrace
  <2>1. CASE i \in 1 .. n
    BY <1>2, <2>1 DEF Plain, n
  <2>2. CASE i \notin 1 .. n
    <3>1. i - n \in 1 .. Len(t) /\ n + (i - n) = i
      BY <1>1, <1>2, <2>2
    <3> QED
      BY <1>2, <3>1 DEF Plain
  <2> QED
    BY <2>1, <2>2
<1> QED
  BY <1>2, <1>3 DEF Plain, c

LEMMA PlainOne == ASSUME NEW u, u # LBrace PROVE Plain(<<u>>)
<1> DEFINE t == <<u>>
<1>1. IsASeq(t) /\ Len(t) = 1 /\ t[1] = u
  BY OneSeq
<1> HIDE DEF t
<1>2. \A i \in 1 .. Len(t) : i = 1
  BY <1>1
<1> QED
  BY <1>1, <1>2 DEF Plain, t

LEMMA PlainNone == Plain(<<>>)
<1> DEFINE e == <<>>
<1>1. IsASeq(e) /\ Len(e) = 0
  BY EmptySequence
<1> HIDE DEF e
<1>2. Plain(e)
  BY <1>1 DEF Plain
<1> QED
  BY <1>2 DEF e

(* Plain texts in a row, as Fprint writes them; this is an induction over  *)
(* their number.                                                           *)
LEMMA PlainFlat ==
  ASSUME NEW w, IsASeq(w), \A i \in 1 .. Len(w) : Plain(w[i])
  PROVE  Plain(FlattenSeq(w))
<1> DEFINE n == Len(w)
<1>1. n \in Nat
  BY SeqFacts
<1>2. CASE n = 0
  <2>1. w = <<>>
    BY <1>2, EmptySequence
  <2>2. FlattenSeq(w) = <<>>
    BY <1>2, <2>1 DEF FlattenSeq
  <2> QED
    BY <2>2, PlainNone
<1>3. CASE n >= 1
  <2>1. PICK f : /\ f[1] = w[1] /\ FlattenSeq(w) = f[n]
                 /\ \A i \in 2 .. n : f[i] = f[i - 1] \o w[i]
    BY <1>3, Flattened
  <2> DEFINE T == {i \in Nat : i + 1 <= n => Plain(f[i + 1])}
  <2>2. 0 \in T
    <3>1. 1 \in 1 .. n /\ 0 + 1 = 1
      BY <1>1, <1>3
    <3>2. Plain(w[1])
      BY <3>1
    <3> QED
      BY <2>1, <3>1, <3>2
  <2>3. ASSUME NEW i \in Nat, i \in T PROVE i + 1 \in T
    <3> SUFFICES ASSUME i + 2 <= n PROVE Plain(f[i + 2])
      OBVIOUS
    <3>1. Plain(f[i + 1])
      BY <1>1, <2>3
    <3>2. i + 2 \in 2 .. n /\ (i + 2) - 1 = i + 1 /\ i + 2 \in 1 .. n
      BY <1>1
    <3>3. f[i + 2] = f[i + 1] \o w[i + 2] /\ Plain(w[i + 2])
      BY <2>1, <3>2
    <3> QED
      BY <3>1, <3>3, PlainConcat
  <2> HIDE DEF T
  <2>4. \A i \in Nat : i \in T
    BY <2>2, <2>3, Induction
  <2>5. n - 1 \in Nat /\ (n - 1) + 1 = n /\ n <= n
    BY <1>1, <1>3
  <2>6. n - 1 \in T
    BY <2>4, <2>5
  <2>7. Plain(f[n])
    <3>1. (n - 1) + 1 <= n => Plain(f[(n - 1) + 1])
      BY <2>6 DEF T
    <3> HIDE DEF n
    <3> QED
      BY <2>5, <3>1
  <2> QED
    BY <2>1, <2>7
<1> QED
  BY <1>1, <1>2, <1>3

(* What MyCallerEncode appends is plain. *)
LEMMA CallerPlain == Plain(FlattenSeq(CallerElements))
<1> DEFINE w == CallerElements
           m == Meta
           c == <<":">>
           s == <<" ">>
           f == <<"()">>
<1>1. Plain(m) /\ Plain(c) /\ Plain(Number) /\ Plain(s) /\ Plain(f)
  <2>1. "v" # LBrace /\ ":" # LBrace /\ "#" # LBrace /\ " " # LBrace /\ "()" # LBrace
    BY DEF LBrace
  <2> QED
    BY <2>1, PlainOne DEF Meta, Number
<1> DEFINE S == {m, c, Number, s, f}
<1> HIDE DEF m, c, s, f
<1>2. /\ w = <<m, c, Number, s, m, f>>
  BY DEF CallerElements, m, c, s, f
<1> HIDE DEF w
<1>3. w \in Seq(S) /\ Len(w) = 6 /\ \A i \in 1 .. 6 : w[i] \in S
  BY <1>2
<1>4. \A x \in S : Plain(x)
  BY <1>1
<1> HIDE DEF S
<1>5. IsASeq(w) /\ \A i \in 1 .. Len(w) : Plain(w[i])
  BY <1>3, <1>4 DEF IsASeq
<1> QED
  BY <1>5, PlainFlat DEF w

(* What the console writes before the message and with it is plain: no     *)
(* bracket stands before the context's.                                    *)
LEMMA HeaderPlain ==
  ASSUME NEW config, IsASeq(config.time), \A i \in 1 .. Len(config.time) : Plain(config.time[i]),
         NEW entry
  PROVE  Plain(HeaderConsole(config, entry))
<1> DEFINE P(k, s) == Part(config, entry, k, s)
           T == FlattenSeq(config.time)
           C == FlattenSeq(CallerElements)
           elems == P("level", Meta) \o P("ts", T) \o P("name", Meta) \o P("caller", C)
<1>1. Plain(Meta) /\ "v" # LBrace /\ " " # LBrace
  <2>1. "v" # LBrace /\ " " # LBrace
    BY DEF LBrace
  <2> QED
    BY <2>1, PlainOne DEF Meta
<1>2. Plain(T)
  <2> DEFINE w == config.time
  <2>1. IsASeq(w) /\ \A i \in 1 .. Len(w) : Plain(w[i])
    OBVIOUS
  <2> HIDE DEF w
  <2>2. Plain(FlattenSeq(w))
    BY <2>1, PlainFlat
  <2> QED
    BY <2>2 DEF w
<1>3. Plain(C)
  BY CallerPlain
<1>4. \A k, s : Plain(s) => Plain(P(k, s))
  BY PlainNone DEF Part
<1>5. HeaderConsole(config, entry)
        = IF Has(config, entry, "msg") THEN Append(Spaced(elems), "v") ELSE elems
  BY DEF HeaderConsole, Elements
<1> HIDE DEF T, C, P
<1>6. Plain(elems)
  BY <1>1, <1>2, <1>3, <1>4, PlainConcat
<1> HIDE DEF elems
<1>7. ASSUME NEW s, Plain(s), NEW u, u # LBrace PROVE Plain(Append(s, u))
  <2>1. IsASeq(s)
    BY <1>7 DEF Plain
  <2>2. Append(s, u) = s \o <<u>>
    BY <2>1, AppendConcat
  <2>3. Plain(<<u>>)
    BY <1>7, PlainOne
  <2> QED
    BY <1>7, <2>2, <2>3, PlainConcat
<1>8. Plain(Spaced(elems))
  BY <1>1, <1>6, <1>7 DEF Spaced
<1>9. Plain(Append(Spaced(elems), "v"))
  BY <1>1, <1>7, <1>8
<1> QED
  BY <1>5, <1>6, <1>9

(* What the console writes after the context has no bracket. *)
EndOfLine(stack) == stack \o <<"newline">>

LEMMA EndOfLinePlain ==
  ASSUME NEW stack \in {<<>>, <<"newline", "v">>}
  PROVE  /\ IsASeq(stack) /\ IsASeq(EndOfLine(stack))
         /\ \A i \in 1 .. Len(EndOfLine(stack)) : EndOfLine(stack)[i] # RBrace
<1> DEFINE e == <<"newline">>
           c == stack \o e
<1>0. "newline" # RBrace /\ "v" # RBrace
  BY DEF RBrace
<1>1. IsASeq(e) /\ Len(e) = 1 /\ e[1] = "newline"
  BY OneSeq
<1>2. IsASeq(stack) /\ \A i \in 1 .. Len(stack) : stack[i] # RBrace
  <2>1. CASE stack = <<>>
    BY <2>1, EmptySequence
  <2>2. CASE stack = <<"newline", "v">>
    <3>1. IsASeq(stack) /\ Len(stack) = 2
      BY <2>2, TwoSeq
    <3>2. stack[1] = "newline" /\ stack[2] = "v"
      BY <2>2
    <3>3. \A i \in 1 .. 2 : i = 1 \/ i = 2
      OBVIOUS
    <3> QED
      BY <1>0, <3>1, <3>2, <3>3
  <2> QED
    BY <2>1, <2>2
<1> HIDE DEF e
<1>3. /\ IsASeq(c) /\ Len(c) = Len(stack) + Len(e) /\ Len(stack) \in Nat
      /\ \A i \in 1 .. Len(stack) : c[i] = stack[i]
      /\ \A i \in 1 .. Len(e) : c[Len(stack) + i] = e[i]
  <2>1. IsASeq(e) /\ IsASeq(stack)
    BY <1>1, <1>2
  <2>2. /\ IsASeq(c) /\ Len(c) = Len(stack) + Len(e)
        /\ \A i \in 1 .. Len(stack) : c[i] = stack[i]
        /\ \A i \in 1 .. Len(e) : c[Len(stack) + i] = e[i]
    BY <2>1, ConcatSeq
  <2>3. Len(stack) \in Nat
    BY <2>1, SeqFacts
  <2> QED
    BY <2>2, <2>3
<1> HIDE DEF c
<1>4. ASSUME NEW i \in 1 .. Len(c) PROVE c[i] # RBrace
  <2>1. i \in 1 .. Len(stack) \/ i = Len(stack) + 1
    BY <1>1, <1>3
  <2> QED
    BY <1>0, <1>1, <1>2, <1>3, <2>1
<1> QED
  BY <1>2, <1>3, <1>4 DEF c, e, EndOfLine

(* The context in a line of the console, the line, what may stand at its   *)
(* end, and what is read of the context.                                   *)
ConsolePart(line) ==
  SubSeq(line, SelectInSeq(line, LAMBDA u : u = "{"), SelectLastInSeq(line, LAMBDA u : u = "}"))
LineOfConsole(h, c, n, stack) == WithContext(h, NamespacesClosed(c, n)) \o stack \o <<"newline">>
StackOfConsole(stack) == stack \in {<<>>, <<"newline", "v">>}
ContextReads(part, meant) == ReadJson(part).need = "end" /\ ReadJson(part).seen = Begun \o meant

(* The first and the last bracket in a line of the console are those of    *)
(* its context.                                                            *)
LEMMA ConsoleLine ==
  ASSUME NEW h, Plain(h), NEW c, NEW n, NEW frames, NEW meant,
         ContextSays(c, n, frames, meant), Len(frames) = 1, meant # <<>>,
         NEW stack, StackOfConsole(stack)
  PROVE  ContextReads(ConsolePart(LineOfConsole(h, c, n, stack)), meant)
<1> SUFFICES ASSUME NEW line,
                    line = WithContext(h, NamespacesClosed(c, n)) \o stack \o <<"newline">>
             PROVE  ContextReads(ConsolePart(line), meant)
  BY DEF LineOfConsole
<1> DEFINE a == <<LBrace>>
           b == <<RBrace>>
           N == NamespacesClosed(c, n)
           m == (a \o N) \o b
           H == Spaced(h)
           rest == EndOfLine(stack)
<1>1. /\ ReadJson(m).need = "end" /\ ReadJson(m).seen = Begun \o meant
      /\ IsASeq(N) /\ N # <<>>
  BY ConsoleSaid
<1>2. Plain(H)
  <2>1. " " # LBrace
    BY DEF LBrace
  <2>2. Plain(<<" ">>)
    BY <2>1, PlainOne
  <2>3. IsASeq(h)
    BY DEF Plain
  <2>4. Append(h, " ") = h \o <<" ">>
    BY <2>3, AppendConcat
  <2>5. Plain(Append(h, " "))
    BY <2>2, <2>4, PlainConcat
  <2> QED
    BY <2>5 DEF Spaced
<1>3. IsASeq(a) /\ Len(a) = 1 /\ a[1] = LBrace /\ IsASeq(b) /\ Len(b) = 1 /\ Last(b) = RBrace
  BY OneSeq
<1>4. IsASeq(stack) /\ IsASeq(rest) /\ \A i \in 1 .. Len(rest) : rest[i] # RBrace
  BY EndOfLinePlain DEF StackOfConsole
<1>5. line = ((((H \o a) \o N) \o b) \o stack) \o <<"newline">>
  BY <1>1 DEF WithContext, LBrace, RBrace
<1> DEFINE e == <<"newline">>
<1>6. IsASeq(e)
  BY OneSeq
<1> HIDE DEF a, b, N, H, e
<1>7. IsASeq(H) /\ \A i \in 1 .. Len(H) : H[i] # LBrace
  BY <1>2 DEF Plain
<1>8. /\ IsASeq(m) /\ Len(m) >= 1 /\ m[1] = LBrace /\ m[Len(m)] = RBrace
      /\ IsASeq(a \o N)
  <2> DEFINE x == a \o N
  <2>0. IsASeq(a) /\ IsASeq(N)
    BY <1>1, <1>3
  <2>1. /\ IsASeq(x) /\ Len(x) = Len(a) + Len(N) /\ Len(N) \in Nat
        /\ \A i \in 1 .. Len(a) : x[i] = a[i]
    BY <2>0, ConcatSeq, SeqFacts
  <2>2. x[1] = LBrace
    BY <1>3, <2>1
  <2> HIDE DEF x
  <2>3. /\ IsASeq(m) /\ Len(m) = Len(x) + Len(b)
        /\ \A i \in 1 .. Len(x) : m[i] = x[i]
    BY <1>3, <2>1, ConcatSeq DEF x
  <2>4. Last(m) = Last(b)
    <3>1. Len(b) >= 1
      BY <1>3
    <3> QED
      BY <1>3, <2>1, <3>1, LastConcat DEF x
  <2> HIDE DEF m
  <2>5. m[1] = LBrace
    BY <1>3, <2>1, <2>2, <2>3 DEF x
  <2>6. m[Len(m)] = RBrace
    BY <1>3, <2>4 DEF Last
  <2> QED
    BY <1>3, <2>1, <2>3, <2>5, <2>6 DEF x
<1>9. line = (H \o m) \o rest
  <2>1. (H \o a) \o N = H \o (a \o N)
    <3>1. IsASeq(H) /\ IsASeq(a) /\ IsASeq(N)
      BY <1>1, <1>3, <1>7
    <3> QED
      BY ONLY <3>1, ConcatTwice
  <2>2. (H \o (a \o N)) \o b = H \o m
    <3> DEFINE x == a \o N
    <3>1. IsASeq(x) /\ IsASeq(b) /\ IsASeq(H)
      BY <1>3, <1>7, <1>8
    <3> HIDE DEF x
    <3>2. (H \o x) \o b = H \o (x \o b)
      BY <3>1, ConcatTwice
    <3> QED
      BY <3>2 DEF x
  <2>3. IsASeq(H \o m)
    BY <1>7, <1>8, ConcatSeq
  <2> HIDE DEF m
  <2>4. ((H \o m) \o stack) \o e = (H \o m) \o (stack \o e)
    BY <1>4, <1>6, <2>3, ConcatTwice
  <2> QED
    BY <1>5, <2>1, <2>2, <2>4 DEF e, EndOfLine
<1> HIDE DEF m, rest
<1>10. SubSeq(line, FirstOf(line, LBrace), LastOf(line, RBrace)) = m
  <2> HIDE DEF H
  <2>1. IsASeq(H) /\ \A i \in 1 .. Len(H) : H[i] # LBrace
    BY <1>7
  <2>2. IsASeq(m) /\ Len(m) >= 1 /\ m[1] = LBrace /\ m[Len(m)] = RBrace
    BY <1>8
  <2>3. IsASeq(rest) /\ \A i \in 1 .. Len(rest) : rest[i] # RBrace
    BY <1>4
  <2>4. Parts(line, H, m, rest)
    BY <1>9 DEF Parts
  <2> QED
    BY ONLY <2>1, <2>2, <2>3, <2>4, Enclosed
<1>11. ConsolePart(line) = SubSeq(line, FirstOf(line, LBrace), LastOf(line, RBrace))
  BY DEF ConsolePart, FirstOf, LastOf, SelectInSeq, SelectLastInSeq, LBrace, RBrace
<1> QED
  BY <1>1, <1>10, <1>11 DEF ContextReads

(* The same of a line of JSON: what it reads as, its text, and what is     *)
(* meant with the stack.                                                   *)
JsonSays(text, base, meant) ==
  IsASeq(text) /\ ReadJson(text).need = "end" /\ ReadJson(text).seen = base \o meant
TextOfLine(t, n, config, entry, spaced) ==
  Append(WithMeta(NamespacesClosed(t, n), config, entry, "stack", spaced), Closing(Object))
MeantOf(meant, config, entry) == meant \o MeantMeta(config, entry, "stack")

(* EncodeEntry closes the namespaces, adds the stack and ends the object. *)
LEMMA JsonLine ==
  ASSUME NEW base, NEW t, NEW n, NEW frames, NEW meant,
         TextSays(Start, base, t, n, frames, meant), Len(frames) = 1,
         NEW config, config.time \in Seq(Seq(STRING)), Len(config.time) <= 1,
         NEW entry, NEW spaced
  PROVE  JsonSays(TextOfLine(t, n, config, entry, spaced), base, MeantOf(meant, config, entry))
<1>1. PICK G : Len(G) = 1 /\ TextSays(Start, base, NamespacesClosed(t, n), 0, G, meant)
  BY NamespacesSaid
<1>2. RootFrame(G)
  BY <1>1, OneFrame DEF TextSays
<1> DEFINE k == "stack"
           text == WithMeta(NamespacesClosed(t, n), config, entry, k, spaced)
           all == meant \o MeantMeta(config, entry, k)
<1>3. TextSays(Start, base, text, 0, G, all)
  <2>1. k # "invalid"
    OBVIOUS
  <2> HIDE DEF k
  <2> QED
    BY <1>1, <1>2, <2>1, MetaSaid
<1> HIDE DEF text, all
<1>4. text # <<>> /\ IsASeq(text)
  BY <1>3, NotEmpty DEF TextSays, Reads
<1>5. /\ ReadJson(Append(text, Closing(Object))).need = "end"
      /\ ReadJson(Append(text, Closing(Object))).seen = base \o all
  BY <1>1, <1>3, <1>4, EndSaid
<1>6. IsASeq(Append(text, Closing(Object)))
  BY <1>4, AppendSeq
<1>7. JsonSays(Append(text, Closing(Object)), base, all)
  BY <1>5, <1>6 DEF JsonSays
<1> QED
  BY <1>7 DEF text, all, k, TextOfLine, MeantOf
==============================================================================
