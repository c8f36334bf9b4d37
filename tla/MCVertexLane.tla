---------------------------- MODULE MCVertexLane ----------------------------
(* An instance of VertexLane: a streamed call beside a passthrough, over    *)
(* replies with either line ending, two chunks in one event, a chunk that   *)
(* does not parse, and an end without a blank line.                         *)
EXTENDS VertexLane

CONSTANTS chat, raw

ChatAndRaw == {chat, raw}
OnlyChat   == {chat}

SomeWires ==
  { Data("thought") \o Lf \o Data("text") \o Lf \o Data("call") \o Lf \o Data("stop") \o Lf,
    Data("text") \o CrLf \o Data("call_stop") \o CrLf,
    Data("call") \o <<"lf">> \o Data("call") \o Lf \o Data("bad") \o CrLf \o Data("[DONE]") \o Lf,
    Data("text") \o Lf \o Data("stop") \o <<"lf">> }
=============================================================================
