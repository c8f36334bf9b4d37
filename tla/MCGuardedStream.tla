-------------------------- MODULE MCGuardedStream --------------------------
(* Instances of GuardedStream: secrets of two or three characters and a    *)
(* banned word of two that arrive whole, in halves or character by         *)
(* character.                                                              *)
EXTENDS GuardedStream

HalfDeltas  == {<<"s">>, <<"s", "s">>, <<"t", "b">>, <<"n">>}
WordyDeltas == {<<"s", "t">>, <<"s", "s">>, <<"t">>, <<"b", "n">>}
BothLanes   == {"standard", "native"}
=============================================================================
