------------------------------ MODULE RequestCore ------------------------------
(* One request inside the gateway, whatever its kind: its text is screened   *)
(* (gateway.rs guard_lane over guard/engine.rs and guard/classifier.rs), it  *)
(* calls upstreams one after another, rows are written for it, and it ends   *)
(* with one reply. Requests share nothing but the ledger's append, so one is *)
(* enough.                                                                   *)
(*   call   [lane, leg, policy (of a classifier's call), text (the body, or  *)
(*          the segments a classifier is shown), came]: came is ok or failed;*)
(*          short when an embedder left an input out; broke or quit when the *)
(*          upstream or the client went away after it had started to answer; *)
(*          left when the client did not wait for that                       *)
(*   row    [op, lane, provider, status]                                     *)
(*   reply  [status, guard (the header), report (the headers), degraded]     *)
EXTENDS RoutePlanner, InputGuard, Leaves

CONSTANT PolicyOrder   \* every policy name, in lexicographic order

VARIABLES
  gw,       \* the gateway (Startup), or None while there is none
  req,      \* the request, or None
  pc,       \* what it is waiting for or does next
  text,     \* its body (Leaves) as screening left it
  screens,  \* the policies still to screen it under
  walk,     \* the legs left to call, the one in use first
  calls,    \* the calls that are over
  rows,     \* the ledger rows written for it
  plan,     \* the route plan, or None
  masked,   \* whether a policy masked something
  work,     \* what an extraction or an embedding has left to do, or None
  reply     \* None until it ends

requestVars == <<req, pc, text, screens, walk, calls, rows, plan, masked, work, reply>>

NoRequest ==
  /\ req = None /\ pc = "idle" /\ text = <<>> /\ screens = {} /\ walk = <<>>
  /\ calls = <<>> /\ rows = <<>> /\ plan = None /\ masked = FALSE /\ work = None
  /\ reply = None

Call(lane, policy, seen, came) ==
  [lane |-> lane, leg |-> Head(walk), policy |-> policy, text |-> seen, came |-> came]
Row(op, lane, provider, status) ==
  [op |-> op, lane |-> lane, provider |-> provider, status |-> status]

\* A request ends with an error, named for the GatewayError behind it.
EndWith(status) ==
  /\ pc' = "done"
  /\ reply' = [status |-> status, guard |-> None, report |-> None, degraded |-> FALSE]
GuardSignal == IF masked THEN "masked" ELSE None
AnswerWith(status, guard, report, degraded) ==
  /\ pc' = "done"
  /\ reply' = [status |-> status, guard |-> guard, report |-> report, degraded |-> degraded]

\* A request comes in and is to be screened, or ends there and then (None: no error).
Begin(r, error, policies) ==
  /\ gw # None /\ req = None /\ req' = r /\ text' = r.text
  /\ IF error # None THEN EndWith(error) /\ UNCHANGED screens
     ELSE pc' = "screen" /\ screens' = policies /\ UNCHANGED reply
  /\ UNCHANGED <<walk, calls, rows, plan, masked, work>>

----------------------------------------------------------------------------
(* Screening, one policy after another *)

Current == PolicyOrder[Position(PolicyOrder, LAMBDA p : p \in screens)]
Policy == gw.guard[Current]
Screened(kind) == pc = "screen" /\ screens = {} /\ req.kind = kind

InputBlockRow == Row("guard_input", "guard", "synapse", "blocked")
ClassifierRow(status) == Row("guard_classifier", "guard", "typesafe", status)

\* A policy nobody defined lets everything pass.
ScreenUndefined ==
  /\ pc = "screen" /\ screens # {} /\ Current \notin DOMAIN gw.guard
  /\ screens' = screens \ {Current}
  /\ UNCHANGED <<req, pc, text, walk, calls, rows, plan, masked, work, reply>>

\* Matches alone decide: block, or pass on what is left.
ScreenInput ==
  /\ pc = "screen" /\ screens # {} /\ Current \in DOMAIN gw.guard
  /\ \E scan \in {Scan(Policy, Segments(req, text))} :
       /\ text' = WrittenBack(req, text, scan.left)
       /\ masked' = (masked \/ scan.masked)
       /\ IF scan.blocked
          THEN /\ EndWith("content_blocked")
               /\ rows' = Append(rows, InputBlockRow)
               /\ UNCHANGED <<screens, walk>>
          ELSE IF Policy.classifier # None
          THEN /\ pc' = "classify" /\ walk' = ClassifierLegs(gw.table, Policy)
               /\ UNCHANGED <<screens, rows, reply>>
          ELSE screens' = screens \ {Current} /\ UNCHANGED <<pc, walk, rows, reply>>
  /\ UNCHANGED <<req, calls, plan, work>>

\* What the classifier is shown: a masked copy, even where nothing is enforced.
Classified == Scan(Policy, Segments(req, text)).classified
ClassifierCall(came) == Call("guard", Current, Classified, came)

\* A leg answers with a score for every question; some reach their threshold.
ClassifierScores(reached) ==
  LET blocks == ScoresBlock(Policy, reached) IN
  /\ pc = "classify"
  /\ calls' = Append(calls, ClassifierCall("ok"))
  /\ rows' = Append(rows, ClassifierRow(IF blocks THEN "blocked" ELSE "ok"))
  /\ walk' = <<>>
  /\ IF blocks THEN EndWith("content_blocked") /\ UNCHANGED screens
     ELSE pc' = "screen" /\ screens' = screens \ {Current} /\ UNCHANGED reply
  /\ UNCHANGED <<req, text, plan, masked, work>>

\* Nobody answered: the policy says whether the request may go on.
GaveUp ==
  /\ walk' = <<>>
  /\ IF Policy.classifier.onError = "block" /\ Policy.enforce
     THEN EndWith("guard_unavailable") /\ UNCHANGED screens
     ELSE pc' = "screen" /\ screens' = screens \ {Current} /\ UNCHANGED reply

\* A transport error, 5xx, 429 or 408 on to the next leg; anything else, a
\* malformed answer too, ends the walk.
ClassifierFails(retryable) ==
  /\ pc = "classify"
  /\ calls' = Append(calls, ClassifierCall("failed"))
  /\ IF retryable /\ Len(walk) > 1 THEN walk' = Tail(walk) /\ UNCHANGED <<pc, screens, reply>>
     ELSE GaveUp
  /\ UNCHANGED <<req, text, rows, plan, masked, work>>

Screening ==
  \/ ScreenUndefined
  \/ ScreenInput
  \/ \E reached \in SUBSET (IF pc = "classify" THEN DOMAIN Policy.classifier.wants ELSE {}) :
       ClassifierScores(reached)
  \/ \E retryable \in BOOLEAN : ClassifierFails(retryable)

----------------------------------------------------------------------------
(* The client goes away: the handler is dropped where it stands. *)

\* What the request has in flight then, and what dropping it still writes.
Dropped(lane, seen, came, row) ==
  /\ calls' = Append(calls, Call(lane, IF lane = "guard" THEN Current ELSE None, seen, came))
  /\ rows' = rows \o row
  /\ EndWith("left")
  /\ UNCHANGED <<req, text, screens, walk, plan, masked, work>>

AbandonScreening ==
  pc = "classify" /\ Dropped("guard", Classified, "left", <<>>)
=============================================================================
