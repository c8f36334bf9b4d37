--------------------------- MODULE GuardedStream ---------------------------
(***************************************************************************)
(* One streamed reply after a leg has been committed: gateway.rs           *)
(* GuardedStream with its StreamSideEffects, guard/output.rs OutputGuard,  *)
(* and the SSE body around it in server.rs.                                *)
(*                                                                         *)
(* The provider produces items one at a time; poll_next screens each one   *)
(* into `pending` and hands `pending` to the client item by item.  The     *)
(* client may go away between any two polls.  Dropping the stream writes   *)
(* the ledger row and records the output scan.                             *)
(***************************************************************************)
EXTENDS OutputScan

CONSTANTS
  Holdback,   \* output_holdback_chars of the policy
  Deltas,     \* the text deltas a provider may send
  Lanes,      \* lanes whose replies are streamed
  MaxItems    \* bound: items one provider sends

ASSUME StreamAssumption ==
  /\ Holdback \in Nat \ {0}
  /\ MinMatch <= Holdback + 1       \* the guide's advice on the window's size
  /\ Deltas \subseteq Seq(Symbols) \ {<<>>}
  /\ Lanes \subseteq {"standard", "native"}
  /\ MaxItems \in Nat \ {0}

VARIABLES
  lane,      \* the lane that committed the leg
  policy,    \* the route's output policy
  upstream,  \* whether the provider is still sending
  sent,      \* every item the provider sent, in order
  held,      \* OutputGuard.held
  worst,     \* OutputGuard.worst
  scans,     \* output scans recorded for this reply
  pending,   \* items screened and not yet handed out
  ended,     \* GuardedStream.ended
  status,    \* StreamSideEffects.status
  usage,     \* whether the provider's token counts are known
  seen,      \* every item the client got, in order
  body,      \* "streaming", "finished" after [DONE], or "dropped"
  rows       \* ledger rows written for this reply

vars == <<lane, policy, upstream, sent, held, worst, scans, pending, ended,
          status, usage, seen, body, rows>>

\* An item is a non-empty sequence: the symbols of a text delta, or one mark.
ToolCall == <<"tool_call">>
Done     == <<"done">>
Failure  == <<"error">>
Filtered == <<"done_content_filter">>
Blocked  == <<"blocked">>
DoneMark == <<"[DONE]">>

Init ==
  /\ lane \in Lanes /\ policy \in Policies
  /\ upstream = "open" /\ sent = <<>>
  /\ held = <<>> /\ worst = "pass" /\ scans = <<>>
  /\ pending = <<>> /\ ended = FALSE
  /\ status = "ok" /\ usage = FALSE
  /\ seen = <<>> /\ body = "streaming" /\ rows = <<>>

(***************************************************************************)
(* OutputGuard.                                                            *)
(***************************************************************************)
\* push lets everything go but the last Holdback characters; flush lets all go.
WindowCut(text) == Max({0, Len(text) - Holdback})

\* OutputGuard::record writes one scan per reply, at the end, on a block or
\* when the guard is dropped.
Recorded(outcome) == IF scans = <<>> /\ policy # "off" THEN <<outcome>> ELSE scans

\* push_text skips empty text.
TextItems(text) == IF text = <<>> THEN <<>> ELSE <<text>>

\* Fault: after a block the provider is still read.
Block_KeepsReading ==
  /\ pending' = <<Filtered, Blocked>>
  /\ status' = "blocked"
  /\ UNCHANGED <<upstream, ended>>

\* block: the content_filter Done, the Blocked item, and no more reads.
Block ==
  /\ pending' = <<Filtered, Blocked>>
  /\ status' = "blocked"
  /\ upstream' = "over" /\ ended' = TRUE

(***************************************************************************)
(* Screen `text` down to `cut` and queue what it releases, then `after`,   *)
(* the item that asked for the release; a block queues neither.  `final`   *)
(* is the call at the provider's end, which also records the scan.         *)
(***************************************************************************)
Screen(text, cut, after, final, failed) ==
  \E r \in {Release(policy, text, cut)} :
    /\ worst' = Worse(worst, r.outcome)
    /\ IF r.blocked
       THEN held' = <<>> /\ scans' = Recorded(worst') /\ Block
       ELSE /\ held' = r.held
            /\ scans' = IF final THEN Recorded(worst') ELSE scans
            /\ pending' = TextItems(r.text) \o after
            /\ status' = IF failed THEN "error" ELSE status
            /\ upstream' = IF final THEN "over" ELSE upstream
            /\ ended' = final

\* A route without output scanners passes every item on as it is.
PassOn(after, final, failed) ==
  /\ pending' = after
  /\ status' = IF failed THEN "error" ELSE status
  /\ upstream' = IF final THEN "over" ELSE upstream
  /\ ended' = final
  /\ UNCHANGED <<held, worst, scans>>

(***************************************************************************)
(* poll_next.                                                              *)
(***************************************************************************)
\* Queued items go first.
HandOut ==
  /\ body = "streaming" /\ pending # <<>>
  /\ seen' = Append(seen, Head(pending))
  /\ pending' = Tail(pending)
  /\ UNCHANGED <<lane, policy, upstream, sent, held, worst, scans, ended,
                 status, usage, body, rows>>

\* With nothing queued the provider is polled.
Polling ==
  /\ body = "streaming" /\ pending = <<>> /\ ~ended /\ upstream = "open"
  /\ Len(sent) < MaxItems

Arrive(item) ==
  /\ Polling
  /\ sent' = Append(sent, item)
  /\ UNCHANGED <<lane, policy, seen, body, rows>>

\* The provider has reported the end of the reply.
Complete == \E i \in DOMAIN sent : sent[i] = Done

DeltaArrives(text) ==
  /\ Arrive(text) /\ ~Complete
  /\ IF policy = "off"
     THEN PassOn(<<text>>, FALSE, FALSE)
     ELSE Screen(held \o text, WindowCut(held \o text), <<>>, FALSE, FALSE)
  /\ UNCHANGED usage

\* Tool-call deltas and Done flush held text first, so order is kept.
ToolCallArrives ==
  /\ Arrive(ToolCall) /\ ~Complete
  /\ IF policy = "off"
     THEN PassOn(<<ToolCall>>, FALSE, FALSE)
     ELSE Screen(held, Len(held), <<ToolCall>>, FALSE, FALSE)
  /\ UNCHANGED usage

\* Usage is observed before the item is screened.
DoneArrives ==
  /\ Arrive(Done) /\ ~Complete
  /\ usage' = TRUE
  /\ IF policy = "off"
     THEN PassOn(<<Done>>, FALSE, FALSE)
     ELSE Screen(held, Len(held), <<Done>>, FALSE, FALSE)

\* The provider's stream reports an error; the item stream may go on after it.
\* The standard lane committed the leg on a first item, so its first is one.
ErrorArrives ==
  /\ Arrive(Failure)
  /\ lane = "native" \/ sent # <<>>
  /\ IF policy = "off"
     THEN PassOn(<<Failure>>, FALSE, TRUE)
     ELSE Screen(held, Len(held), <<Failure>>, FALSE, TRUE)
  /\ UNCHANGED usage

\* The provider's stream is over: what is still held goes out, and the guard
\* records its scan.
UpstreamEnds ==
  /\ body = "streaming" /\ pending = <<>> /\ ~ended /\ upstream = "open"
  /\ lane = "native" \/ sent # <<>>
  /\ IF policy = "off"
     THEN PassOn(<<>>, TRUE, FALSE)
     ELSE Screen(held, Len(held), <<>>, TRUE, FALSE)
  /\ UNCHANGED <<lane, policy, sent, usage, seen, body, rows>>

\* Nothing queued and nothing to come: sse_body closes with [DONE].
Finish ==
  /\ body = "streaming" /\ pending = <<>> /\ ended
  /\ seen' = Append(seen, DoneMark)
  /\ body' = "finished"
  /\ UNCHANGED <<lane, policy, upstream, sent, held, worst, scans, pending,
                 ended, status, usage, rows>>

\* Fault: the row says ok whatever happened.
Row_Ok == [status |-> "ok", counted |-> usage]

\* The row a dropped StreamSideEffects enqueues.
Row == [status |-> status, counted |-> usage]

\* The body is dropped, after [DONE] or because the client went away.
Drop ==
  /\ body # "dropped"
  /\ rows' = Append(rows, Row)
  /\ scans' = Recorded(worst)
  /\ body' = "dropped"
  /\ UNCHANGED <<lane, policy, upstream, sent, held, worst, pending, ended,
                 status, usage, seen>>

Poll == HandOut \/ UpstreamEnds \/ Finish
          \/ ToolCallArrives \/ DoneArrives \/ ErrorArrives
          \/ \E text \in Deltas : DeltaArrives(text)

Next == Poll \/ Drop

Spec == Init /\ [][Next]_vars

(***************************************************************************)
(* What a reply promises.                                                  *)
(***************************************************************************)
\* Everything queued or handed out, without the closing [DONE].
Said  == [i \in DOMAIN seen |-> IF seen[i] = DoneMark THEN <<>> ELSE seen[i]]
Reply == FlattenSeq(Said) \o FlattenSeq(pending)

WasBlocked == "blocked" \in Range(Reply)

\* Screening delta by delta with a window releases exactly what screening the
\* whole reply at once would have: no match is cut in two or let through, no
\* text is lost, doubled or moved across a tool call, an error or the final
\* Done (OutputGuard::push, flush; GuardedStream::screen, fail).
ReplyIsScreenedWhole ==
  ~ WasBlocked => Reply \o (IF policy = "off" THEN <<>> ELSE Screened(policy, held))
                    = Screened(policy, FlattenSeq(sent))

\* A blocked reply is a screened prefix of what the provider sent, without the
\* banned word, closed by a content_filter Done and the Blocked item; nothing
\* follows, and the row says blocked (GuardedStream::block).
BlockedReplyStops ==
  WasBlocked =>
    LET shown == SubSeq(Reply, 1, Len(Reply) - 2)
    IN  /\ Reply = shown \o Filtered \o Blocked
        /\ IsPrefix(shown, Screened(policy, FlattenSeq(sent)))
        /\ Banned(shown) = {}
        /\ upstream = "over" /\ status = "blocked"

\* However a screened reply ends, one output scan is recorded for it, with the
\* worst outcome any part of it met (OutputGuard::record).
OneScanWithTheWorst ==
  /\ Len(scans) <= 1
  /\ body = "dropped" /\ policy # "off" => scans # <<>>
  /\ scans # <<>> => scans[1] =
       CASE WasBlocked                                -> "block"
         [] ~ WasBlocked /\ Mask \in Range(Reply)     -> "masked"
         [] policy = "observe" /\ Secrets(Reply) \cup Banned(Reply) # {} -> "observe"
         [] OTHER                                     -> "pass"

\* Completed, failed, blocked or abandoned, a dropped reply leaves one ledger
\* row: blocked if output screening ended it, otherwise error if the provider
\* failed, and with the token counts of every Done the client got
\* (StreamSideEffects).
RowTellsTheReply ==
  /\ Len(rows) = (IF body = "dropped" THEN 1 ELSE 0)
  /\ rows # <<>> =>
       /\ (rows[1].status = "blocked") <=> WasBlocked
       /\ "error" \in Range(Reply) /\ ~ WasBlocked => rows[1].status = "error"
       /\ rows[1].status = "error" => "error" \in Range(Reply)
       /\ "done" \in Range(Reply) => rows[1].counted

(***************************************************************************)
(* What the guides say of a reply that goes wrong after its first chunk.   *)
(***************************************************************************)
\* On the standard lane a stream that "ends before the model finishes" has
\* failed, and once a chunk arrived "a later failure ends the stream with an
\* `error` event": a reply closed without the provider's Done carries an error
\* event. (The native lane's section promises its own failure another way.)
TruncationIsReported ==
  body = "finished" /\ ~ Complete /\ ~ WasBlocked => Failure \in Range(seen)
=============================================================================
