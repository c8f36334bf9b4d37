----------------------------- MODULE VertexLane -----------------------------
(***************************************************************************)
(* Calls to Vertex (vertex_native.rs): a token, one request with it, and   *)
(* for stream_generate the reply read chunk by chunk, however the network  *)
(* cuts it; passthrough_request hands the response on unread.              *)
(***************************************************************************)
EXTENDS VertexAuth, SseEvents

CONSTANTS
  Streamed,  \* the requests that go through stream_generate
  Wires      \* the replies Vertex may stream, as bytes

ASSUME VertexLaneAssumption == Streamed \subseteq Requests

VARIABLES
  outcome,   \* request -> None, or how its call stands
  wire,      \* request -> the reply's bytes
  got,       \* request -> how many of them have arrived
  buf,       \* request -> bytes of no complete event yet
  calls,     \* request -> tool_index; saw_tool when it is not 0
  pending,   \* request -> items parsed and not yet handed out
  out        \* request -> items handed out

replyVars == <<outcome, wire, got, buf, calls, pending, out>>
vars == <<authVars, replyVars>>

NoReply ==
  /\ outcome = [r \in Requests |-> "none"]
  /\ wire = [r \in Requests |-> <<>>]
  /\ got = [r \in Requests |-> 0]
  /\ buf = [r \in Requests |-> <<>>]
  /\ calls = [r \in Requests |-> 0]
  /\ pending = [r \in Requests |-> <<>>]
  /\ out = [r \in Requests |-> <<>>]

Init == AuthInit /\ NoReply

\* 429 and 408 are client errors another leg may not share.
Statuses == {"5xx", "429", "408", "4xx", "3xx"}
HttpError(status) == IF status = "4xx" THEN "bad_request" ELSE "upstream_error"

Becomes(r, how) == outcome' = [outcome EXCEPT ![r] = how]

\* No token, or no connection.
AuthFails(r) ==
  /\ phase[r] = "failed" /\ outcome[r] = "none"
  /\ Becomes(r, "upstream_error")
  /\ UNCHANGED <<authVars, wire, got, buf, calls, pending, out>>
SendFails(r) ==
  /\ TokenUsed(r) /\ Becomes(r, "upstream_error")
  /\ UNCHANGED <<wire, got, buf, calls, pending, out>>

\* A passthrough's response is handed on whatever its status.
Responds(r) ==
  /\ r \notin Streamed
  /\ TokenUsed(r) /\ Becomes(r, "response")
  /\ UNCHANGED <<wire, got, buf, calls, pending, out>>
Refuses(r) ==
  /\ r \in Streamed
  /\ TokenUsed(r) /\ \E status \in Statuses : Becomes(r, HttpError(status))
  /\ UNCHANGED <<wire, got, buf, calls, pending, out>>
Accepts(r) ==
  /\ r \in Streamed
  /\ TokenUsed(r) /\ Becomes(r, "streaming")
  /\ \E bytes \in Wires : wire' = [wire EXCEPT ![r] = bytes]
  /\ UNCHANGED <<got, buf, calls, pending, out>>

\* With nothing parsed left to hand out, the next bytes are read.
Reading(r) == outcome[r] = "streaming" /\ pending[r] = <<>>
Chunk(r) ==
  /\ Reading(r)
  /\ \E n \in (got[r] + 1)..Len(wire[r]) :
     \E left \in {Drain(buf[r] \o SubSeq(wire[r], got[r] + 1, n), calls[r])} :
       /\ got' = [got EXCEPT ![r] = n]
       /\ buf' = [buf EXCEPT ![r] = left.rest]
       /\ calls' = [calls EXCEPT ![r] = left.calls]
       /\ pending' = [pending EXCEPT ![r] = left.items]
  /\ UNCHANGED <<authVars, outcome, wire, out>>
Yield(r) ==
  /\ pending[r] # <<>>
  /\ out' = [out EXCEPT ![r] = Append(@, Head(pending[r]))]
  /\ pending' = [pending EXCEPT ![r] = Tail(@)]
  /\ UNCHANGED <<authVars, outcome, wire, got, buf, calls>>

\* The connection breaks, which is an item too, or closes: what is left in the
\* buffer is no event.
Breaks(r) ==
  /\ Reading(r)
  /\ Becomes(r, "broken") /\ UNCHANGED <<authVars, wire, got, buf, calls, pending, out>>
Ends(r) ==
  /\ Reading(r) /\ got[r] = Len(wire[r])
  /\ Becomes(r, "ended") /\ UNCHANGED <<authVars, wire, got, buf, calls, pending, out>>

\* The call is over, or nobody waits for it any more, and another one is made.
Again(r) ==
  /\ TokenLeft(r)
  /\ Becomes(r, "none")
  /\ wire' = [wire EXCEPT ![r] = <<>>] /\ got' = [got EXCEPT ![r] = 0]
  /\ buf' = [buf EXCEPT ![r] = <<>>] /\ calls' = [calls EXCEPT ![r] = 0]
  /\ pending' = [pending EXCEPT ![r] = <<>>] /\ out' = [out EXCEPT ![r] = <<>>]

Next ==
  \/ Tick /\ UNCHANGED replyVars
  \/ \E r \in Requests :
       \/ GetsToken(r) /\ UNCHANGED replyVars
       \/ AuthFails(r) \/ SendFails(r) \/ Responds(r) \/ Refuses(r) \/ Accepts(r)
       \/ Chunk(r) \/ Yield(r) \/ Breaks(r) \/ Ends(r) \/ Again(r)

Spec == Init /\ [][Next]_vars

\* However the network cuts the bytes up, between two chunks of an event, inside
\* a separator or inside a character, the items are those the whole reply says: no
\* event is lost, doubled or read in halves, calls are numbered through, and the
\* Done of a reply that called a tool says so (stream_generate, next_sse_boundary).
ItemsOfTheWire ==
  \A r \in Streamed :
    out[r] \o pending[r] = ItemsOfWire(SubSeq(wire[r], 1, got[r]))
=============================================================================
