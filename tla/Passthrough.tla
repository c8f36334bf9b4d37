------------------------------ MODULE Passthrough ------------------------------
(* Requests forwarded as they are (server.rs): the Gemini API to Vertex,     *)
(* along the legs of the route the model stands for, and System One bodies   *)
(* to TypeSafe. A usage guard writes one row when it is dropped.             *)
(*   request [kind "gemini", model, action, sse, text] or                    *)
(*           [kind "systemone", text]                                        *)
EXTENDS RequestCore

\* Actions that are metered.
Generates == {"generateContent", "streamGenerateContent"}

\* Names that could change the upstream's path are refused: "?" stands for them.
CheckModelAction(r) == "?" \notin {r.model, r.action}

\* Under every policy of the routes that list the model.
GeminiArrives(r) ==
  \E chain \in {VertexFallbackChain(gw.table, r.model)} :
    Begin(r,
          IF ~ gw.vertex \/ ~ CheckModelAction(r) THEN "bad_request"
          ELSE IF chain.route = None /\ ~ gw.anyModel THEN "unknown_model"
          ELSE IF chain.legs = <<>> THEN "bad_request" ELSE None,
          IF r.action \in NonContent THEN {} ELSE PassthroughPolicies(gw.table, r.model))

SystemOneArrives(r) == Begin(r, IF gw.jev THEN None ELSE "bad_request", {"default"})

----------------------------------------------------------------------------
(* Gemini *)

\* Generation walks the legs; anything else is one forward to the first.
GeminiStarts ==
  /\ Screened("gemini")
  /\ \E legs \in {VertexFallbackChain(gw.table, req.model).legs} :
       IF req.action \in Generates THEN pc' = "forward" /\ walk' = legs
       ELSE pc' = "single" /\ walk' = <<Head(legs)>>
  /\ UNCHANGED <<req, text, screens, calls, rows, plan, masked, work, reply>>

PassRow(status) == Row("chat", "passthrough", "vertex", status)
\* A reply of any leg but the first says so.
Escalated == \E c \in Range(calls) : c.lane = "forward"
\* What an upstream said is passed on, success or not.
PassedOn == AnswerWith("ok", GuardSignal, None, Escalated)
UpstreamError == AnswerWith("upstream_error", GuardSignal, None, Escalated)

\* The single forward writes no row.
SingleEnds(came) ==
  /\ pc = "single"
  /\ calls' = Append(calls, Call("single", None, text, came))
  /\ IF came = "ok" THEN PassedOn ELSE EndWith("failed")
  /\ UNCHANGED <<req, text, screens, walk, rows, plan, masked, work>>

\* A transport error is a row and leads to the next leg, if there is one.
LegUnreachable ==
  /\ pc = "forward"
  /\ calls' = Append(calls, Call("forward", None, text, "failed"))
  /\ rows' = Append(rows, PassRow("error"))
  /\ IF Len(walk) > 1 THEN walk' = Tail(walk) /\ UNCHANGED <<pc, reply>>
     ELSE EndWith("failed") /\ UNCHANGED walk
  /\ UNCHANGED <<req, text, screens, plan, masked, work>>

\* So is an error status, but only 5xx, 429 and 408 lead on: any other is the answer.
LegRefuses(retryable) ==
  /\ pc = "forward"
  /\ calls' = Append(calls, Call("forward", None, text, "failed"))
  /\ rows' = Append(rows, PassRow("error"))
  /\ IF retryable /\ Len(walk) > 1 THEN walk' = Tail(walk) /\ UNCHANGED <<pc, reply>>
     ELSE UpstreamError /\ UNCHANGED walk
  /\ UNCHANGED <<req, text, screens, plan, masked, work>>

\* A success: from here on a guard writes the row.
LegAccepts ==
  /\ pc = "forward"
  /\ pc' = IF req.sse /\ req.action = "streamGenerateContent" THEN "sse" ELSE "body"
  /\ walk' = <<Head(walk)>>
  /\ UNCHANGED <<req, text, screens, calls, rows, plan, masked, work, reply>>

\* The body is read whole or cannot be; the guard says ok either way.
BodyEnds(came) ==
  /\ pc = "body"
  /\ calls' = Append(calls, Call("forward", None, text, came))
  /\ rows' = Append(rows, PassRow("ok"))
  /\ IF came = "ok" THEN PassedOn ELSE EndWith("failed")
  /\ UNCHANGED <<req, text, screens, walk, plan, masked, work>>

\* A stream's error marks the guard; the status line has long been sent.
SseEnds(came) ==
  /\ pc = "sse"
  /\ calls' = Append(calls, Call("forward", None, text, came))
  /\ rows' = Append(rows, PassRow(IF came = "ok" THEN "ok" ELSE "error"))
  /\ PassedOn
  /\ UNCHANGED <<req, text, screens, walk, plan, masked, work>>

----------------------------------------------------------------------------
(* System One *)

SystemRow(status) == Row("systemone", "passthrough", "typesafe", status)

SystemOneStarts ==
  /\ Screened("systemone")
  /\ pc' = "evaluate" /\ walk' = <<[provider |-> "typesafe", model |-> None, effort |-> None]>>
  /\ UNCHANGED <<req, text, screens, calls, rows, plan, masked, work, reply>>

\* The guard is there before the call, and everything that goes wrong marks it.
Evaluated(how) ==
  /\ pc = "evaluate"
  /\ calls' = Append(calls, Call("evaluate", None, text, IF how = "ok" THEN "ok" ELSE "failed"))
  /\ rows' = Append(rows, SystemRow(IF how = "ok" THEN "ok" ELSE "error"))
  /\ IF how = "ok" THEN PassedOn ELSE IF how = "refused" THEN UpstreamError ELSE EndWith("failed")
  /\ UNCHANGED <<req, text, screens, walk, plan, masked, work>>

----------------------------------------------------------------------------

\* Until a leg has accepted there is no guard to write the row.
AbandonPassthrough ==
  \/ pc \in {"forward", "single"} /\ Dropped(pc, text, "left", <<>>)
  \/ pc \in {"body", "sse"} /\ Dropped("forward", text, "quit", <<PassRow("ok")>>)
  \/ pc = "evaluate" /\ Dropped("evaluate", text, "left", <<SystemRow("ok")>>)

PassthroughWork ==
  \/ GeminiStarts \/ LegUnreachable \/ LegAccepts \/ SystemOneStarts
  \/ \E retryable \in BOOLEAN : LegRefuses(retryable)
  \/ \E came \in {"ok", "broke"} : SingleEnds(came) \/ BodyEnds(came) \/ SseEnds(came)
  \/ \E how \in {"ok", "refused", "unreachable"} : Evaluated(how)
=============================================================================
