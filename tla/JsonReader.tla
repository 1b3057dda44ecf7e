----------------------------- MODULE JsonReader -----------------------------
(***************************************************************************)
(* What a JSON text says: the reference the log encoders are checked with. *)
(*                                                                         *)
(* A text is a sequence of units: the brackets, ":", ",", " ", the quote   *)
(* "q", the backslash "bs", "#" for a number, true, false or null as a     *)
(* whole, and the characters of strings.  Reading it gives the sequence of *)
(* its leaves and containers, each with the path of keys it stands at ("*" *)
(* in arrays), and whether the text is one complete JSON value.            *)
(***************************************************************************)
EXTENDS Naturals, SequencesExt

(* Units a string may hold only after a backslash: control characters and  *)
(* bytes that are not UTF-8.                                               *)
Raw == {"newline", "control", "invalid"}

(* What may follow a backslash, and the character it stands for. *)
Escapes == [q |-> "q", bs |-> "bs", n |-> "newline", u00 |-> "control",
            ufffd |-> "replacement"]

Object == <<"object">>
Array  == <<"array">>
Element == <<"*">>

(* need: what may come next.  in: outside or inside a string, or after a   *)
(* backslash.  open: the brackets that are open.  path: where the next     *)
(* value stands.  str: the string read so far.  seen: what has been read.  *)
Start == [need |-> "value", in |-> "text", open |-> <<>>, path |-> <<>>,
          str |-> <<>>, seen |-> <<>>]

Wrong(r) == [r EXCEPT !.need = "wrong"]

AfterValue(open) == IF open = <<>> THEN "end" ELSE "next"

Leaf(r, v) ==
  [r EXCEPT !.seen = Append(@, <<r.path, v>>), !.need = AfterValue(r.open)]

EndString(r) ==
  IF r.need \in {"key", "firstKey"}
  THEN [r EXCEPT !.path = Append(Front(@), r.str), !.need = "colon", !.in = "text"]
  ELSE Leaf([r EXCEPT !.in = "text"], r.str)

ReadInString(r, u) ==
  CASE u = "q"   -> EndString(r)
    [] u = "bs"  -> [r EXCEPT !.in = "escape"]
    [] u \in Raw -> Wrong(r)
    [] OTHER     -> [r EXCEPT !.str = Append(@, u)]

ReadEscape(r, u) ==
  IF u \in DOMAIN Escapes
  THEN [r EXCEPT !.str = Append(@, Escapes[u]), !.in = "string"]
  ELSE Wrong(r)

Open(r, what, place, need) ==
  [Leaf(r, what) EXCEPT !.open = Append(@, what), !.path = Append(@, place),
                        !.need = need]

Close(r) ==
  [r EXCEPT !.open = Front(@), !.path = Front(@), !.need = AfterValue(Front(r.open))]

Within(r, what) == r.open # <<>> /\ Last(r.open) = what

ReadText(r, u) ==
  CASE u = " " -> r
    [] u = "q" /\ r.need \in {"value", "first", "key", "firstKey"}
         -> [r EXCEPT !.in = "string", !.str = <<>>]
    [] u = "#" /\ r.need \in {"value", "first"} -> Leaf(r, <<"#">>)
    [] u = "{" /\ r.need \in {"value", "first"} -> Open(r, Object, <<>>, "firstKey")
    [] u = "[" /\ r.need \in {"value", "first"} -> Open(r, Array, Element, "first")
    [] u = "}" /\ Within(r, Object) /\ r.need \in {"firstKey", "next"} -> Close(r)
    [] u = "]" /\ Within(r, Array) /\ r.need \in {"first", "next"} -> Close(r)
    [] u = ":" /\ r.need = "colon" -> [r EXCEPT !.need = "value"]
    [] u = "," /\ r.need = "next"
         -> [r EXCEPT !.need = IF Within(r, Object) THEN "key" ELSE "value"]
    [] OTHER -> Wrong(r)

ReadUnit(r, u) ==
  CASE r.need = "wrong" -> r
    [] r.in = "string"  -> ReadInString(r, u)
    [] r.in = "escape"  -> ReadEscape(r, u)
    [] OTHER            -> ReadText(r, u)

ReadJson(text) ==
  LET read[i \in 0 .. Len(text)] ==
        IF i = 0 THEN Start ELSE ReadUnit(read[i - 1], text[i])
  IN  read[Len(text)]

IsJson(text) == ReadJson(text).need = "end"
=============================================================================
