----------------------------- MODULE MCEncoder -----------------------------
(* Small instances of Encoder for TLC. *)
EXTENDS Encoder

(* A JSON encoder whose EncodeTime and EncodeDuration do nothing, and the   *)
(* console encoder of logger.go.                                            *)
MCRoots ==
  <<[console |-> FALSE, keys |-> {"ts", "stack"}, time |-> <<>>,
     duration |-> <<>>],
    [console |-> TRUE, keys |-> {"level", "ts", "name", "caller", "msg", "stack"},
     time |-> <<<<"[">>, <<"t">>, <<"]">>>>,
     duration |-> <<Number>>]>>

MCKeys == {<<"q", "invalid">>}
MCStrings == {<<"newline", "control", "invalid", ",", "bs">>}
ASSUME MCOneValue == OneValue

MCSymmetry == Permutations(Procs)
=============================================================================
