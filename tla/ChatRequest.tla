------------------------------ MODULE ChatRequest ------------------------------
(* A chat request (gateway.rs chat_routed and chat_stream, route_planner.rs, *)
(* jev_hybrid.rs): screened, planned, perhaps by a Jev decision, then        *)
(* answered on the Jev, native Vertex or standard lane, or judged by Jev and *)
(* extracted from candidate by candidate. What happens inside one leg of the *)
(* standard lane is FallbackChain, and inside a streamed reply               *)
(* GuardedStream; here a leg answers or does not.                            *)
(*   request [kind "chat", alias, strategy, stream, vertex (it uses native   *)
(*            features), effort (it sets its own), questions (it has a Jev   *)
(*            block), extract (None or the candidates' keys), text]          *)
EXTENDS RequestCore

CONSTANTS
  Answers,  \* what Jev may answer when asked for a decision
  Replies   \* the matches a model's reply may contain

\* None is no way to plan and no way to fail, and Jev scores with numbers.
ASSUME AnswersAssumption ==
  /\ None \notin {"jev", "static_override"} \cup Failures
  /\ \A a \in Answers : a.difficulty \in Int \cup {NaN, None}

Typesafe(legs)    == Filter(legs, LAMBDA l : l.provider = "typesafe")
NonTypesafe(legs) == Filter(legs, LAMBDA l : l.provider # "typesafe")
VertexLegs(legs)  == Filter(legs, IsVertex)

\* plan_route before the input is screened.
ChatArrives(r) ==
  Begin(r,
        IF r.alias \notin DOMAIN gw.table.legs THEN "unknown_model"
        ELSE IF ResolveMode(r.alias \in DOMAIN gw.table.jev, r.strategy) = None THEN "bad_request"
        ELSE None,
        {PolicyOf(gw.table, r.alias)})

----------------------------------------------------------------------------
(* Lanes *)

\* An extraction has nothing to say to the client but through its candidates, and
\* needs legs to run on.
ValidExtract(legs) ==
  req.extract # None => /\ ~ req.stream
                        /\ NonTypesafe(legs) # <<>>
                        /\ req.vertex => VertexLegs(legs) # <<>>

\* The lane a request's chat legs are on, and the legs of that lane.
ChatLane == IF req.vertex THEN "native" ELSE "standard"
LaneLegs(legs) == IF req.vertex THEN VertexLegs(legs) ELSE legs

\* The chat legs take over, at once or after every Jev leg failed.
EnterChatLane(legs) ==
  IF req.vertex /\ VertexLegs(legs) = <<>>
  THEN EndWith("bad_request") /\ UNCHANGED walk
  ELSE pc' = ChatLane /\ walk' = LaneLegs(legs) /\ UNCHANGED reply

\* Extract from the head of `keys`, or reply with what there is.
ExtractFrom(keys, survivors, degraded) ==
  /\ work' = [left |-> keys, survivors |-> survivors, degraded |-> degraded]
  /\ IF keys = <<>>
     THEN AnswerWith("ok", GuardSignal, ReportFor(plan, None), degraded) /\ UNCHANGED walk
     ELSE pc' = ChatLane /\ walk' = LaneLegs(NonTypesafe(Chain(plan))) /\ UNCHANGED reply

\* What a plan leads to: questions to the Jev lane, native features to Vertex,
\* and the rest to the standard lane.
Dispatch(p) ==
  LET legs == Chain(p) IN
  /\ plan' = p
  /\ IF \/ Typesafe(legs) # <<>> /\ (~ req.questions \/ ~ gw.jev)
        \/ ~ ValidExtract(legs)
     THEN EndWith("bad_request") /\ UNCHANGED walk
     ELSE IF req.questions
     THEN pc' = "jev" /\ walk' = Typesafe(legs) /\ UNCHANGED reply
     ELSE EnterChatLane(legs)
  /\ UNCHANGED work

----------------------------------------------------------------------------
(* Planning *)

Route == gw.table.jev[req.alias]
Mode == ResolveMode(req.alias \in DOMAIN gw.table.jev, req.strategy)
Tiered(selection) == TieredPlan(Route, Mode, selection, req.vertex, req.effort)

PlanStatic ==
  /\ Screened("chat") /\ Mode = "static"
  /\ \E p \in {[StaticPlan(gw.table.legs[req.alias], req.effort) EXCEPT !.masked = masked]} : Dispatch(p)
  /\ UNCHANGED <<req, text, screens, calls, rows, masked>>

\* A route Jev decides: no Jev block of the client's, and a tier that can serve it.
PlanTiered ==
  /\ Screened("chat") /\ Mode \in {"jev", "static_override"}
  /\ IF req.questions \/ req.extract # None \/ ~ Servable(Route, req.vertex)
     THEN EndWith("bad_request") /\ UNCHANGED <<walk, plan, work>>
     ELSE IF Mode = "static_override"
     THEN \E p \in {[Tiered(StaticOverride(Route)) EXCEPT !.masked = masked]} : Dispatch(p)
     ELSE IF ~ gw.jev
     THEN \E p \in {[Tiered(Select(Failed("unavailable"), Route)) EXCEPT !.masked = masked]} : Dispatch(p)
     ELSE /\ pc' = "decide"
          /\ walk' = <<[provider |-> "typesafe", model |-> None, effort |-> None]>>
          /\ UNCHANGED <<plan, work, reply>>
  /\ UNCHANGED <<req, text, screens, calls, rows, masked>>

\* The selection a result leads to is planned for; a decision that can be read
\* is a row, followed or not.
Decided(result) ==
  /\ pc = "decide"
  /\ rows' = IF result.failure # None THEN rows
             ELSE Append(rows, Row("route_decision", "jev", "typesafe", "ok"))
  /\ calls' = Append(calls, Call("decide", None, text, IF result.failure # None THEN "failed" ELSE "ok"))
  /\ \E p \in {[Tiered(Select(result, Route)) EXCEPT !.masked = masked]} : Dispatch(p)
  /\ UNCHANGED <<req, text, screens, masked>>

JevAnswers(answers) == Decided(Answered(answers))
\* Transport, an error status or an unreadable body.
JevFails == Decided(Failed("error"))
\* The route's timeout. It is the only end of a decision anybody can rely on.
\* Fault: the call is awaited however long it takes.
JevTimesOut_Never == FALSE /\ Decided(Failed("timeout"))
JevTimesOut == Decided(Failed("timeout"))

----------------------------------------------------------------------------
(* Legs *)

\* The text a chat leg gets: the request's, or a candidate's and none of it.
Sent == IF work = None THEN text ELSE <<>>
ServedBy == Head(walk)
ChatRow(lane, status) == Row("chat", lane, ServedBy.provider, status)
OutputScanned(lane) == lane # "jev" /\ LET p == PolicyOf(gw.table, req.alias) IN
                         p \in DOMAIN gw.guard /\ gw.guard[p].output # None

\* A reply nobody streams: scanned unless Jev gave it, recorded, and answered.
ReplyBuffered(lane, marks) ==
  LET none == [blockers |-> {}, masked |-> FALSE]
      scan == IF OutputScanned(lane)
              THEN BufferedScan(gw.guard[PolicyOf(gw.table, req.alias)], marks) ELSE none
  IN /\ rows' = Append(rows, ChatRow(lane, IF scan.blockers # {} THEN "blocked" ELSE "ok"))
     /\ AnswerWith("ok", IF scan.blockers # {} THEN "blocked"
                         ELSE IF scan.masked THEN "masked" ELSE GuardSignal,
                   ReportFor(plan, ServedBy), FALSE)

\* A chat leg answers: the stream is handed on, a native one is collected first,
\* an extraction is recorded and the next candidate's begins.
\* Fault: an extraction is not recorded.
LegAnswers_UnpaidExtraction(marks) ==
  /\ pc \in {"native", "standard"} /\ walk # <<>>
  /\ IF req.stream \/ pc = "native"
     THEN pc' = (IF req.stream THEN "stream" ELSE "collect") /\ walk' = <<ServedBy>>
          /\ UNCHANGED <<calls, rows, reply, work>>
     ELSE /\ calls' = Append(calls, Call(pc, None, Sent, "ok"))
          /\ IF work = None THEN ReplyBuffered(pc, marks) /\ UNCHANGED <<walk, work>>
             ELSE ExtractFrom(Tail(work.left), work.survivors, work.degraded) /\ UNCHANGED rows
  /\ UNCHANGED <<req, text, screens, plan, masked>>
LegAnswers(marks) ==
  /\ pc \in {"native", "standard"} /\ walk # <<>>
  /\ IF req.stream \/ pc = "native"
     THEN pc' = (IF req.stream THEN "stream" ELSE "collect") /\ walk' = <<ServedBy>>
          /\ UNCHANGED <<calls, rows, reply, work>>
     ELSE /\ calls' = Append(calls, Call(pc, None, Sent, "ok"))
          /\ IF work = None THEN ReplyBuffered(pc, marks) /\ UNCHANGED <<walk, work>>
             ELSE /\ rows' = Append(rows, ChatRow(pc, "ok"))
                  /\ ExtractFrom(Tail(work.left), work.survivors, work.degraded)
  /\ UNCHANGED <<req, text, screens, plan, masked>>

\* A lane that cannot answer: the request fails, or its candidate does.
LaneFails ==
  IF work = None THEN EndWith("failed") /\ UNCHANGED <<walk, work>>
  ELSE ExtractFrom(Tail(work.left), work.survivors, TRUE)

\* On the standard lane every failure, an open breaker too, moves on; on the
\* native lane those that may be retried (5xx, 429, 408, transport).
LegFails(called, retryable) ==
  /\ pc \in {"native", "standard"} /\ walk # <<>>
  /\ pc = "native" => called
  /\ pc = "standard" => retryable
  /\ calls' = IF called THEN Append(calls, Call(pc, None, Sent, "failed")) ELSE calls
  /\ IF retryable /\ Len(walk) > 1 THEN walk' = Tail(walk) /\ UNCHANGED <<pc, work, reply>>
     ELSE LaneFails
  /\ UNCHANGED <<req, text, screens, rows, plan, masked>>

\* A route written without legs has nobody to call: all of none failed.
NoLegs ==
  /\ pc = "standard" /\ walk = <<>> /\ EndWith("failed")
  /\ UNCHANGED <<req, text, screens, walk, calls, rows, plan, masked, work>>

\* A native stream collected to its end, or broken off: then there is no row.
Collected(marks) ==
  /\ pc = "collect"
  /\ calls' = Append(calls, Call("native", None, Sent, "ok"))
  /\ IF work = None THEN ReplyBuffered("native", marks) /\ UNCHANGED <<walk, work>>
     ELSE /\ rows' = Append(rows, ChatRow("native", "ok"))
          /\ ExtractFrom(Tail(work.left), work.survivors, work.degraded)
  /\ UNCHANGED <<req, text, screens, plan, masked>>
CollectBreaks ==
  /\ pc = "collect"
  /\ calls' = Append(calls, Call("native", None, Sent, "broke"))
  /\ LaneFails
  /\ UNCHANGED <<req, text, screens, rows, plan, masked>>

----------------------------------------------------------------------------
(* The Jev lane *)

JevLaneEnds == /\ pc = "jev" /\ walk = <<>>
               /\ UNCHANGED <<req, text, screens, calls, rows, plan, masked>>

\* Every Jev leg failed, or there was none: the chat legs answer instead, and an
\* extraction takes every candidate.
JevExhausted ==
  /\ JevLaneEnds
  /\ IF req.extract # None THEN ExtractFrom(req.extract, req.extract, TRUE)
     ELSE IF NonTypesafe(Chain(plan)) = <<>> THEN EndWith("failed") /\ UNCHANGED <<walk, work>>
     ELSE EnterChatLane(NonTypesafe(Chain(plan))) /\ UNCHANGED work

\* A leg decides: that is the reply, as one chunk or whole, or it says which
\* candidates survive.
JevLegDecides(kept) ==
  /\ pc = "jev" /\ walk # <<>>
  /\ kept \subseteq (IF req.extract = None THEN {} ELSE Range(req.extract))
  /\ IF req.extract # None
     THEN LET survivors == SelectSeq(req.extract, LAMBDA k : k \in kept) IN
          /\ calls' = Append(calls, Call("jev", None, text, "ok"))
          /\ rows' = Append(rows, ChatRow("jev", "ok"))
          /\ ExtractFrom(survivors, survivors, FALSE)
     ELSE IF req.stream
     THEN pc' = "stream" /\ walk' = <<ServedBy>> /\ UNCHANGED <<calls, rows, reply, work>>
     ELSE /\ calls' = Append(calls, Call("jev", None, text, "ok"))
          /\ ReplyBuffered("jev", {})
          /\ UNCHANGED <<walk, work>>
  /\ UNCHANGED <<req, text, screens, plan, masked>>

\* 5xx, 429, 408 and transport on to the next leg; what no other leg can mend
\* ends the request: another status is the client's fault, an answer that
\* cannot be read the upstream's.
JevLegFails(how) ==
  /\ pc = "jev" /\ walk # <<>>
  /\ calls' = Append(calls, Call("jev", None, text, "failed"))
  /\ IF how = "retryable" THEN walk' = Tail(walk) /\ UNCHANGED <<pc, reply>>
     ELSE EndWith(IF how = "refused" THEN "bad_request" ELSE "failed") /\ UNCHANGED walk
  /\ UNCHANGED <<req, text, screens, rows, plan, masked, work>>

----------------------------------------------------------------------------
(* A streamed reply: one row however it ends *)

StreamLane == IF ServedBy.provider = "typesafe" THEN "jev" ELSE ChatLane
\* Whether the output policy can block the stream.
MayBlock == OutputScanned(StreamLane) /\
            LET p == gw.guard[PolicyOf(gw.table, req.alias)] IN
            p.enforce /\ "block" \in Range(p.output)

StreamEnds(status) ==
  /\ pc = "stream"
  /\ status = "blocked" => MayBlock
  /\ status = "error" => StreamLane # "jev"
  /\ calls' = Append(calls, Call(StreamLane, None, text, IF status = "error" THEN "broke" ELSE "ok"))
  /\ rows' = Append(rows, ChatRow(StreamLane, status))
  /\ AnswerWith("ok", GuardSignal, ReportFor(plan, ServedBy), FALSE)
  /\ UNCHANGED <<req, text, screens, walk, plan, masked, work>>

AbandonChat ==
  /\ req # None /\ req.kind = "chat"
  /\ \/ pc \in {"decide", "jev", "native", "standard"} /\ walk # <<>>
        /\ Dropped(pc, IF pc \in {"native", "standard"} THEN Sent ELSE text, "left", <<>>)
     \/ pc = "collect" /\ Dropped("native", Sent, "quit", <<>>)
     \/ \E status \in {"ok", "blocked"} :
          /\ pc = "stream" /\ (status = "blocked" => MayBlock)
          /\ Dropped(StreamLane, text, "quit", <<ChatRow(StreamLane, status)>>)

ChatWork ==
  \/ PlanStatic \/ PlanTiered \/ JevTimesOut
  \/ \E marks \in Replies : LegAnswers(marks) \/ Collected(marks)
  \/ \E called, retryable \in BOOLEAN : LegFails(called, retryable)
  \/ NoLegs \/ CollectBreaks \/ JevExhausted
  \/ pc = "jev" /\ \E kept \in SUBSET (IF req.extract = None THEN {} ELSE Range(req.extract)) :
                      JevLegDecides(kept)
  \/ \E how \in {"retryable", "refused", "unreadable"} : JevLegFails(how)
  \/ \E status \in {"ok", "error", "blocked"} : StreamEnds(status)
=============================================================================
