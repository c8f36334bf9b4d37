------------------------------ MODULE SseEvents ------------------------------
(***************************************************************************)
(* Vertex's reply stream, from bytes to StreamItems (vertex_native.rs,     *)
(* stream_generate's driver): events are cut off the front of a buffer at  *)
(* blank lines, and each `data:` line of an event is one JSON chunk.       *)
(*                                                                         *)
(* A byte is "lf", "cr", or part of a line; a data line is the kind of its *)
(* chunk followed by "}".                                                  *)
(***************************************************************************)
EXTENDS SequencesExt, Integers

Lf     == <<"lf", "lf">>
CrLf   == <<"cr", "lf", "cr", "lf">>
Data(kind) == <<kind, "}">>

Occurs(buf, sep) == {i \in 1..(Len(buf) - Len(sep) + 1) : SubSeq(buf, i, i + Len(sep) - 1) = sep}

\* Fault: only bare line feeds end an event.
NextBoundary_Lf(buf) ==
  IF Occurs(buf, Lf) = {} THEN 0 ELSE Min(Occurs(buf, Lf)) + 1

\* next_sse_boundary: where the first event of the buffer ends, separator
\* included, or 0.
NextBoundary(buf) ==
  LET ends == {i + 1 : i \in Occurs(buf, Lf)} \cup {i + 3 : i \in Occurs(buf, CrLf)}
  IN IF ends = {} THEN 0 ELSE Min(ends)

\* One chunk's items, the calls being numbered on from `calls`; a reply that
\* called a tool ends with tool_calls. Thinking and keep-alives are no items.
Kinds == {"text", "thought", "call", "stop", "call_stop", "bad", "[DONE]"}
CallItem(n) == <<"call", n>>
DoneItem(calls) == <<"done", IF calls > 0 THEN "tool_calls" ELSE "stop">>
ChunkItems(kind, calls) ==
  CASE kind = "text"      -> << <<"delta">> >>
    [] kind = "call"      -> << CallItem(calls) >>
    [] kind = "stop"      -> << DoneItem(calls) >>
    [] kind = "call_stop" -> << CallItem(calls), DoneItem(calls + 1) >>
    [] kind = "bad"       -> << <<"error">> >>
    [] OTHER              -> <<>>
Calls(kind) == IF kind \in {"call", "call_stop"} THEN 1 ELSE 0

\* An event's lines in order; one that is no whole data line is passed over.
EventKinds(event) == SelectSeq(event, LAMBDA b : b \in Kinds)
EventItems(event, calls) ==
  FoldLeft(LAMBDA acc, kind : [items |-> acc.items \o ChunkItems(kind, acc.calls),
                               calls |-> acc.calls + Calls(kind)],
           [items |-> <<>>, calls |-> calls], EventKinds(event))

\* Every complete event of the buffer is taken off it.
RECURSIVE Drain(_, _)
Drain(buf, calls) ==
  LET at == NextBoundary(buf) IN
  IF at = 0 THEN [rest |-> buf, items |-> <<>>, calls |-> calls]
  ELSE LET first == EventItems(SubSeq(buf, 1, at), calls)
           others == Drain(SubSeq(buf, at + 1, Len(buf)), first.calls)
       IN [others EXCEPT !.items = first.items \o @]

(***************************************************************************)
(* The reference: what the chunks received so far say, read off the whole  *)
(* wire at once.                                                           *)
(***************************************************************************)
Whole(wire) ==
  LET ends == {n \in 0..Len(wire) : n = 0 \/ IsSuffix(Lf, SubSeq(wire, 1, n))
                                          \/ IsSuffix(CrLf, SubSeq(wire, 1, n))}
  IN EventKinds(SubSeq(wire, 1, Max(ends)))

CallsBefore(kinds, i) == Cardinality({j \in 1..(i - 1) : Calls(kinds[j]) = 1})
ItemsOfWire(wire) ==
  LET kinds == Whole(wire)
  IN FlattenSeq([i \in DOMAIN kinds |-> ChunkItems(kinds[i], CallsBefore(kinds, i))])
=============================================================================
