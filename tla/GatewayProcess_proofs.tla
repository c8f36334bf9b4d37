------------------------ MODULE GatewayProcess_proofs ------------------------
(***************************************************************************)
(* Proofs about GatewayProcess for any configuration files, any requests   *)
(* and any number of crashes: what screening lets through, what the ledger *)
(* is told, whose vector an input gets, who owns an agent id, what of the  *)
(* files a started gateway can serve, and where a plan goes.               *)
(***************************************************************************)
EXTENDS GatewayProcess, RouteTiers_proofs, FiniteSetTheorems

-----------------------------------------------------------------------------
(* Sequences of whatever they hold, and counting in them *)

\* What appending does to a sequence, element by element.
LEMMA AppendAny ==
  ASSUME NEW s, NEW x, IsList(s)
  PROVE  /\ IsList(Append(s, x))
         /\ Range(Append(s, x)) = Range(s) \cup {x}
         /\ Len(s) \in Nat /\ DOMAIN s = 1..Len(s)
         /\ DOMAIN Append(s, x) = 1..(Len(s) + 1)
         /\ \A i \in 1..Len(s) : Append(s, x)[i] = s[i]
         /\ Append(s, x)[Len(s) + 1] = x
  <1> DEFINE S == Range(s) \cup {x}
             t == Append(s, x)
  <1>1. s \in Seq(S) /\ Len(s) \in Nat /\ DOMAIN s = 1..Len(s)
    <2>1. s \in [1..Len(s) -> Range(s)] /\ Len(s) \in Nat
      BY DEF IsList
    <2>2. s \in [1..Len(s) -> S]
      BY <2>1
    <2> QED BY <2>1, <2>2
  <1>2. /\ t \in Seq(S) /\ Len(t) = Len(s) + 1
        /\ \A i \in 1..Len(s) : t[i] = s[i]
        /\ t[Len(s) + 1] = x
    BY <1>1, AppendProperties
  <1>3. t \in [1..(Len(s) + 1) -> S]
    <2> HIDE DEF t, S
    <2>1. t \in [1..Len(t) -> S]
      BY <1>2
    <2> QED BY <1>2, <2>1
  <1>4. Range(t) = S
    <2>1. Range(t) \subseteq S
      BY <1>3 DEF Range
    <2>2. x \in Range(t)
      BY <1>1, <1>2, <1>3 DEF Range
    <2>3. ASSUME NEW y \in Range(s) PROVE y \in Range(t)
      <3>1. PICK i \in 1..Len(s) : y = s[i]
        BY <1>1, <2>3 DEF Range
      <3>2. i \in DOMAIN t /\ t[i] = y
        BY <1>1, <1>2, <1>3, <3>1
      <3> QED BY <3>2 DEF Range
    <2> QED BY <2>1, <2>2, <2>3
  <1>5. IsList(t)
    BY <1>2, <1>4 DEF IsList
  <1> HIDE DEF t
  <1>6. DOMAIN t = 1..(Len(s) + 1)
    BY <1>3
  <1> QED BY <1>1, <1>2, <1>4, <1>5, <1>6 DEF t

\* Joining a sequence of one element is appending it.
LEMMA JoinsOne ==
  ASSUME NEW s, NEW x, IsList(s)
  PROVE  s \o <<x>> = Append(s, x)
  <1> DEFINE S == Range(s) \cup {x}
  <1>1. s \in Seq(S)
    <2>1. s \in [1..Len(s) -> Range(s)] /\ Len(s) \in Nat
      BY DEF IsList
    <2>2. s \in [1..Len(s) -> S]
      BY <2>1
    <2> QED BY <2>1, <2>2
  <1>2. x \in S
    OBVIOUS
  <1> HIDE DEF S
  <1> QED BY <1>1, <1>2, AppendIsConcat

\* How many elements of a sequence are v.
Count(f, v) == Cardinality({i \in DOMAIN f : f[i] = v})

\* A sequence that grows by one element has one more of that element.
LEMMA CountGrows ==
  ASSUME NEW n \in Nat, NEW f, NEW g, NEW v,
         DOMAIN f = 1..n, DOMAIN g = 1..(n + 1), \A i \in 1..n : g[i] = f[i]
  PROVE  /\ Count(f, v) \in Nat
         /\ Count(g, v) = Count(f, v) + (IF g[n + 1] = v THEN 1 ELSE 0)
  <1> DEFINE before == {i \in DOMAIN f : f[i] = v}
             after  == {i \in DOMAIN g : g[i] = v}
  <1>1. IsFiniteSet(1..n)
    BY FS_Interval
  <1>2. IsFiniteSet(before) /\ Cardinality(before) \in Nat
    BY <1>1, FS_Subset, FS_CardinalityType
  <1>3. CASE g[n + 1] = v
    <2>1. after = before \cup {n + 1} /\ n + 1 \notin before
      BY <1>3
    <2> HIDE DEF before, after
    <2>2. Cardinality(after) = Cardinality(before) + 1
      BY <1>2, <2>1, FS_AddElement
    <2> QED BY <1>2, <1>3, <2>2 DEF Count, before, after
  <1>4. CASE g[n + 1] # v
    <2>1. after = before
      BY <1>4
    <2> HIDE DEF before, after
    <2>2. Cardinality(after) = Cardinality(before) + 0
      BY <1>2, <2>1
    <2> QED BY <1>2, <1>4, <2>2 DEF Count, before, after
  <1> QED BY <1>3, <1>4

-----------------------------------------------------------------------------
(* What one screening makes of a body *)

IsBody(r, body) == \A i \in DOMAIN body : body[i] \in [at : Places(r), shows : SUBSET STRING]

\* In no place that is screened does the body show any of these.
ClearOf(r, body, scanners) ==
  \A i \in DOMAIN body : body[i].at \notin NotScanned(r) => body[i].shows \cap scanners = {}

\* The parts that are read are all but those listed as not scanned.
LEMMA ReadUnlessListed ==
  ASSUME NEW r, r.kind \in Kinds, NEW part \in [at : Places(r), shows : SUBSET STRING]
  PROVE  IsLeaf(r, part) <=> part.at \notin NotScanned(r)
  <1> USE DEF IsLeaf, NotScanned, Places, Kinds
  <1>1. CASE r.kind = "chat"
    BY <1>1 DEF ChatLeaves
  <1>2. CASE r.kind = "embed"
    BY <1>2
  <1>3. CASE r.kind = "systemone"
    BY <1>3 DEF JevLeaves
  <1>4. CASE r.kind = "gemini"
    BY <1>4 DEF GeminiText, MediaKeys, GeminiBodyAction, TextLeaf
  <1> QED BY <1>1, <1>2, <1>3, <1>4

\* Nothing is added to a segment, and an enforced policy that does not block it
\* leaves nothing in it that it masks, nor was there anything it blocks.
LEMMA SegmentScanned ==
  ASSUME NEW policy, NEW segment
  PROVE  LET scan == ScanSegment(policy, segment) IN
         /\ scan.left \subseteq segment /\ scan.classified \subseteq segment
         /\ \A s \in scan.classified \cap DOMAIN policy.wants : policy.wants[s] # "mask"
         /\ policy.enforce /\ scan.blockers = {} =>
              \A s \in scan.left \cap DOMAIN policy.wants : policy.wants[s] \notin {"mask", "block"}
  BY DEF ScanSegment, Matching, Effect

\* A body's scan has a verdict for each segment ...
LEMMA BodyScanned ==
  ASSUME NEW policy, NEW segments
  PROVE  /\ DOMAIN Scan(policy, segments).left = DOMAIN segments
         /\ DOMAIN Scan(policy, segments).classified = DOMAIN segments
         /\ Scan(policy, segments).blocked =
              (\E i \in DOMAIN segments : ScanSegment(policy, segments[i]).blockers # {})
  BY DEF Scan, Merged

\* ... which is that segment's own.
LEMMA SegmentVerdict ==
  ASSUME NEW policy, NEW segments, NEW i \in DOMAIN segments
  PROVE  /\ Scan(policy, segments).left[i] = ScanSegment(policy, segments[i]).left
         /\ Scan(policy, segments).classified[i] = ScanSegment(policy, segments[i]).classified
  BY DEF Scan, Merged

\* Every part that is read is in a segment, and nothing else is.
LEMMA SegmentsAreTheLeaves ==
  ASSUME NEW r, NEW body
  PROVE  /\ \A i \in DOMAIN body : IsLeaf(r, body[i]) =>
              LET k == IF r.kind = "embed" THEN i ELSE 1 IN
              /\ k \in DOMAIN Segments(r, body)
              /\ body[i].shows \subseteq Segments(r, body)[k]
         /\ \A k \in DOMAIN Segments(r, body) : \A s \in Segments(r, body)[k] :
              \E i \in DOMAIN body : IsLeaf(r, body[i]) /\ s \in body[i].shows
  <1>1. CASE r.kind = "embed"
    BY <1>1 DEF Segments, EmbeddingLeaves, IsLeaf
  <1>2. CASE r.kind # "embed"
    <2>1. Segments(r, body) = <<Joined(r, body)>>
      BY <1>2 DEF Segments
    <2>2. DOMAIN Segments(r, body) = {1} /\ Segments(r, body)[1] = Joined(r, body)
      BY <2>1
    <2>3. \A s : s \in Joined(r, body) <=>
                   \E i \in DOMAIN body : IsLeaf(r, body[i]) /\ s \in body[i].shows
      BY DEF Joined, Range
    <2> QED BY <1>2, <2>2, <2>3
  <1> QED BY <1>1, <1>2

\* Screening a body under a policy: it stays a body of its kind, what it was clear
\* of it stays clear of, and it is clear of whatever an enforced policy masks or
\* blocks unless that policy blocks the request.
LEMMA BodyScreened ==
  ASSUME NEW r, r.kind \in Kinds, NEW body, IsBody(r, body), NEW policy
  PROVE  LET scan == Scan(policy, Segments(r, body))
             next == WrittenBack(r, body, scan.left)
             Wants(action) == {s \in DOMAIN policy.wants : policy.wants[s] = action}
         IN /\ IsBody(r, next)
            /\ \A scanners : ClearOf(r, body, scanners) => ClearOf(r, next, scanners)
            /\ policy.enforce /\ ~ scan.blocked =>
                 ClearOf(r, next, Wants("mask")) /\ ClearOf(r, next, Wants("block"))
  <1> DEFINE segments == Segments(r, body)
             scan == Scan(policy, segments)
             next == WrittenBack(r, body, scan.left)
             At(i) == IF r.kind = "embed" THEN i ELSE 1
             Wants(action) == {s \in DOMAIN policy.wants : policy.wants[s] = action}
  <1>1. DOMAIN next = DOMAIN body
    BY DEF WrittenBack
  <1>2. ASSUME NEW i \in DOMAIN body
        PROVE  /\ next[i] \in [at : Places(r), shows : SUBSET STRING]
               /\ next[i].at = body[i].at /\ next[i].shows \subseteq body[i].shows
               /\ IsLeaf(r, body[i]) => next[i].shows \subseteq scan.left[At(i)]
    <2>1. body[i] \in [at : Places(r), shows : SUBSET STRING]
      BY <1>2 DEF IsBody
    <2>2. next[i] = IF IsLeaf(r, body[i])
                    THEN [body[i] EXCEPT !.shows = @ \cap scan.left[At(i)]] ELSE body[i]
      BY <1>2 DEF WrittenBack
    <2> HIDE DEF next, scan, At
    <2> QED BY <2>1, <2>2
  <1>3. ASSUME NEW i \in DOMAIN body PROVE IsLeaf(r, body[i]) <=> next[i].at \notin NotScanned(r)
    BY <1>2, <1>3, ReadUnlessListed DEF IsBody
  <1>4. IsBody(r, next)
    BY <1>1, <1>2 DEF IsBody
  <1>5. ASSUME NEW scanners, ClearOf(r, body, scanners) PROVE ClearOf(r, next, scanners)
    BY <1>1, <1>2, <1>5 DEF ClearOf
  <1>6. ASSUME policy.enforce, ~ scan.blocked, NEW i \in DOMAIN body, IsLeaf(r, body[i])
        PROVE  \A s \in next[i].shows \cap DOMAIN policy.wants :
                 policy.wants[s] \notin {"mask", "block"}
    <2>1. At(i) \in DOMAIN segments
      BY <1>6, SegmentsAreTheLeaves
    <2> HIDE DEF segments, At
    <2>2. ScanSegment(policy, segments[At(i)]).blockers = {}
      BY <1>6, <2>1, BodyScanned
    <2>3. scan.left[At(i)] = ScanSegment(policy, segments[At(i)]).left
      BY <2>1, SegmentVerdict
    <2>4. \A s \in scan.left[At(i)] \cap DOMAIN policy.wants : policy.wants[s] \notin {"mask", "block"}
      BY <1>6, <2>2, <2>3, SegmentScanned
    <2> QED BY <1>2, <1>6, <2>4
  <1>7. ASSUME policy.enforce, ~ scan.blocked
        PROVE  ClearOf(r, next, Wants("mask")) /\ ClearOf(r, next, Wants("block"))
    <2> HIDE DEF next, scan
    <2> QED BY <1>1, <1>3, <1>6, <1>7 DEF ClearOf
  <1> QED BY <1>4, <1>5, <1>7

\* What the classifier is shown has nothing its policy masks, and nothing the body
\* was clear of.
LEMMA ClassifiedIsClear ==
  ASSUME NEW r, r.kind \in Kinds, NEW body, IsBody(r, body), NEW policy
  PROVE  LET shown == Scan(policy, Segments(r, body)).classified IN
         \A k \in DOMAIN shown :
           /\ \A s \in shown[k] \cap DOMAIN policy.wants : policy.wants[s] # "mask"
           /\ \A scanners : ClearOf(r, body, scanners) => shown[k] \cap scanners = {}
  <1> DEFINE segments == Segments(r, body)
             shown == Scan(policy, segments).classified
  <1> SUFFICES ASSUME NEW k \in DOMAIN shown
               PROVE  /\ \A s \in shown[k] \cap DOMAIN policy.wants : policy.wants[s] # "mask"
                      /\ \A scanners : ClearOf(r, body, scanners) => shown[k] \cap scanners = {}
    OBVIOUS
  <1>1. k \in DOMAIN segments /\ shown[k] = ScanSegment(policy, segments[k]).classified
    <2> HIDE DEF segments
    <2>1. DOMAIN shown = DOMAIN segments
      BY BodyScanned
    <2> QED BY <2>1, SegmentVerdict
  <1>2. /\ \A s \in shown[k] \cap DOMAIN policy.wants : policy.wants[s] # "mask"
        /\ shown[k] \subseteq segments[k]
    BY <1>1, SegmentScanned
  <1>3. ASSUME NEW scanners, ClearOf(r, body, scanners), NEW s \in shown[k] \cap scanners
        PROVE  FALSE
    <2>1. PICK i \in DOMAIN body : IsLeaf(r, body[i]) /\ s \in body[i].shows
      BY <1>1, <1>2, <1>3, SegmentsAreTheLeaves
    <2>2. body[i].at \notin NotScanned(r)
      BY <2>1, ReadUnlessListed DEF IsBody
    <2> QED BY <1>3, <2>1, <2>2 DEF ClearOf
  <1> QED BY <1>2, <1>3

-----------------------------------------------------------------------------
(* One request: where it stands, and what a step of it after screening does. *)

ChatPcs   == {"decide", "jev", "native", "standard", "collect", "stream"}
GeminiPcs == {"single", "forward", "body", "sse"}
Later     == ChatPcs \cup {"embed"} \cup GeminiPcs \cup {"evaluate"}
RefusedBy == {"content_blocked", "guard_unavailable"}
Metered   == {"guard_classifier", "route_decision", "chat", "systemone"}

\* What is done after screening belongs to the kind of the request.
LaneFitsKind ==
  /\ pc \in ChatPcs => req.kind = "chat"
  /\ pc = "embed" => req.kind = "embed"
  /\ pc \in GeminiPcs => req.kind = "gemini"
  /\ pc = "evaluate" => req.kind = "systemone"
  /\ pc = "stream" => req.stream
  /\ pc = "collect" => ~ req.stream

RequestInv ==
  /\ load \in DOMAIN Loads
  /\ pc \in {"idle", "screen", "classify", "done"} \cup Later
  /\ req = None <=> pc = "idle"
  /\ pc = "idle" => calls = <<>> /\ rows = <<>>
  /\ pc # "idle" => /\ phase = "up" /\ ~ Loads[load].agents
                    /\ req.kind \in Kinds /\ IsBody(req, text)
  /\ pc \in Later => screens = {}
  /\ LaneFitsKind
  /\ IsList(calls) /\ IsList(rows)

\* The row of an embedding, the one row that stands for no single call.
EmbeddingRow == UNCHANGED calls /\ \E r : rows' = Append(rows, r) /\ r.op = "embedding"

\* A step after screening ends at most one call, and writes the row owed for it.
Charges ==
  \/ UNCHANGED <<calls, rows>>
  \/ EmbeddingRow /\ req.kind = "embed" /\ pc' = "done" /\ reply'.status = "ok"
  \/ \E c : /\ calls' = Append(calls, c) /\ c.lane # "guard" /\ c.text \in {text, <<>>}
            /\ \/ rows' = rows /\ Owed(c) \notin Metered
               \/ \E r : rows' = Append(rows, r) /\ r.op = Owed(c) /\ r.op \in Metered

LaterStep ==
  /\ UNCHANGED <<req, text, screens>> /\ screens = {}
  /\ pc \notin {"idle", "done"} /\ pc' \in Later \cup {"done"} /\ LaneFitsKind'
  /\ pc' = "done" => reply'.status \notin RefusedBy
  /\ (req.kind = "embed" /\ pc' = "done" /\ reply'.status = "ok") => EmbeddingRow
  /\ Charges

\* What a call on each lane owes.
LEMMA OwedByLane ==
  ASSUME NEW lane, NEW policy, NEW seen, NEW came
  PROVE  LET c == Call(lane, policy, seen, came) IN
         /\ c.lane = lane /\ c.text = seen /\ c.policy = policy
         /\ lane = "guard" =>
              Owed(c) = IF came = "ok" THEN "guard_classifier" ELSE None
         /\ lane = "decide" =>
              Owed(c) = IF came = "ok" THEN "route_decision" ELSE None
         /\ lane = "forward" => Owed(c) = IF came # "left" THEN "chat" ELSE None
         /\ lane = "evaluate" => Owed(c) = "systemone"
         /\ lane \in {"jev", "native", "standard"} =>
              Owed(c) = IF came = "ok" \/ (req.stream /\ came \in {"broke", "quit"})
                        THEN "chat" ELSE None
         /\ lane \in {"embed", "single"} => Owed(c) = None
  BY DEF Call, Owed

\* A call and its row.
LEMMA CallPaid ==
  ASSUME NEW lane, NEW policy, NEW seen \in {text, <<>>}, NEW came, NEW row,
         calls' = Append(calls, Call(lane, policy, seen, came)),
         rows' = Append(rows, row), lane # "guard",
         row.op = Owed(Call(lane, policy, seen, came)), row.op \in Metered
  PROVE  Charges
  <1> DEFINE c == Call(lane, policy, seen, came)
  <1>1. c.lane # "guard" /\ c.text \in {text, <<>>}
    BY OwedByLane
  <1> HIDE DEF c
  <1>2. calls' = Append(calls, c) /\ row.op = Owed(c)
    BY DEF c
  <1> QED BY <1>1, <1>2 DEF Charges

\* A call that owes no row.
LEMMA CallUnpaid ==
  ASSUME NEW lane, NEW policy, NEW seen \in {text, <<>>}, NEW came,
         calls' = Append(calls, Call(lane, policy, seen, came)),
         rows' = rows, lane # "guard",
         Owed(Call(lane, policy, seen, came)) = None
  PROVE  Charges
  <1> DEFINE c == Call(lane, policy, seen, came)
  <1>1. c.lane # "guard" /\ c.text \in {text, <<>>}
    BY OwedByLane
  <1> HIDE DEF c
  <1>2. calls' = Append(calls, c) /\ Owed(c) \notin Metered
    BY LoadsAssumption DEF c, Metered
  <1> QED BY <1>1, <1>2 DEF Charges

-----------------------------------------------------------------------------
(* Chat requests *)

Ends(statuses) == pc' = "done" /\ reply'.status \in statuses

\* Where a plan leads to.
LEMMA DispatchGoes ==
  ASSUME NEW p, Dispatch(p)
  PROVE  pc' \in {"jev", "native", "standard"} \/ Ends({"bad_request"})
  BY DEF Dispatch, EnterChatLane, ChatLane, EndWith, Ends

\* Where an extraction goes on.
LEMMA ExtractGoes ==
  ASSUME NEW keys, NEW survivors, NEW degraded, ExtractFrom(keys, survivors, degraded)
  PROVE  pc' \in {"native", "standard"} \/ Ends({"ok"})
  BY DEF ExtractFrom, ChatLane, AnswerWith, Ends

\* What becomes of a request or an extraction when a lane cannot answer.
LEMMA LaneFailsGoes ==
  ASSUME LaneFails
  PROVE  pc' \in {"native", "standard"} \/ Ends({"ok", "failed"})
  <1>1. CASE work = None
    BY <1>1 DEF LaneFails, EndWith, Ends
  <1>2. CASE work # None
    <2>1. ExtractFrom(Tail(work.left), work.survivors, TRUE)
      BY <1>2 DEF LaneFails
    <2>2. pc' \in {"native", "standard"} \/ Ends({"ok"})
      BY <2>1, ExtractGoes
    <2> QED BY <2>2 DEF Ends
  <1> QED BY <1>1, <1>2

\* A reply nobody streams is a row and an answer.
LEMMA BufferedReplies ==
  ASSUME NEW lane, NEW marks, ReplyBuffered(lane, marks)
  PROVE  /\ Ends({"ok"})
         /\ \E status : rows' = Append(rows, ChatRow(lane, status))
  <1>1. Ends({"ok"})
    BY DEF ReplyBuffered, AnswerWith, Ends
  <1>2. PICK scan : rows' = Append(rows, ChatRow(lane, IF scan.blockers # {} THEN "blocked" ELSE "ok"))
    BY DEF ReplyBuffered
  <1> QED BY <1>1, <1>2

\* What a chat leg answered is a chat row.
LEMMA ChatCallPaid ==
  ASSUME NEW lane \in {"jev", "native", "standard"}, NEW seen \in {text, <<>>}, NEW came,
         NEW at, NEW status,
         came = "ok" \/ (req.stream /\ came \in {"broke", "quit"}),
         calls' = Append(calls, Call(lane, None, seen, came)),
         rows' = Append(rows, ChatRow(at, status))
  PROVE  Charges
  <1> DEFINE row == ChatRow(at, status)
  <1>1. row.op = "chat" /\ row.op \in Metered
    BY DEF ChatRow, Row, Metered
  <1>2. Owed(Call(lane, None, seen, came)) = "chat"
    BY OwedByLane
  <1> HIDE DEF row
  <1>3. rows' = Append(rows, row)
    BY DEF row
  <1> QED BY <1>1, <1>2, <1>3, CallPaid

\* A chat request's step, once screened, that goes to a lane or ends is one after
\* screening if it charges for what it called.
LEMMA ChatGoes ==
  ASSUME RequestInv, req.kind = "chat", screens = {}, pc \notin {"idle", "done"},
         UNCHANGED <<req, text, screens>>,
         \/ pc' \in {"decide", "jev", "native", "standard"}
         \/ pc' = "stream" /\ req.stream
         \/ pc' = "collect" /\ ~ req.stream
         \/ Ends({"ok", "failed", "bad_request", "left"}),
         Charges
  PROVE  LaterStep
  BY DEF LaterStep, Later, ChatPcs, GeminiPcs, LaneFitsKind, Ends, RefusedBy

\* What a chat request on a lane has been through.
LEMMA OnALane ==
  ASSUME RequestInv, pc \in ChatPcs
  PROVE  req.kind = "chat" /\ screens = {} /\ pc \notin {"idle", "done"}
  BY DEF RequestInv, LaneFitsKind, Later, ChatPcs

\* Planning makes no charge, deciding one.
LEMMA PlanningSteps ==
  ASSUME RequestInv,
         PlanStatic \/ PlanTiered \/ JevTimesOut \/ JevFails
           \/ \E answers \in Answers : JevAnswers(answers)
  PROVE  LaterStep
  <1>1. CASE PlanStatic
    BY <1>1, DispatchGoes, ChatGoes DEF PlanStatic, Screened, Charges, Ends
  <1>2. CASE PlanTiered
    <2>1. pc' \in {"decide", "jev", "native", "standard"} \/ Ends({"bad_request"})
      BY <1>2, DispatchGoes DEF PlanTiered, EndWith, Ends
    <2> QED BY <1>2, <2>1, ChatGoes DEF PlanTiered, Screened, Charges, Ends
  <1>3. ASSUME NEW result, Decided(result) PROVE LaterStep
    <2>1. req.kind = "chat" /\ screens = {} /\ pc \notin {"idle", "done"}
      BY <1>3, OnALane DEF Decided, ChatPcs
    <2>2. pc' \in {"jev", "native", "standard"} \/ Ends({"bad_request"})
      BY <1>3, DispatchGoes DEF Decided
    <2>3. Charges
      <3>1. CASE result.failure # None
        BY <1>3, <3>1, CallUnpaid, OwedByLane DEF Decided
      <3>2. CASE result.failure = None
        <4> DEFINE row == Row("route_decision", "jev", "typesafe", "ok")
        <4>1. /\ calls' = Append(calls, Call("decide", None, text, "ok"))
              /\ rows' = Append(rows, row)
          BY <1>3, <3>2 DEF Decided
        <4>2. row.op = "route_decision" /\ row.op \in Metered
          BY DEF Row, Metered
        <4>3. Owed(Call("decide", None, text, "ok")) = "route_decision"
          BY OwedByLane
        <4> HIDE DEF row
        <4> QED BY <4>1, <4>2, <4>3, CallPaid
      <3> QED BY <3>1, <3>2
    <2> QED BY <1>3, <2>1, <2>2, <2>3, ChatGoes DEF Decided, Ends
  <1> QED BY <1>1, <1>2, <1>3 DEF JevTimesOut, JevFails, JevAnswers

\* A leg of the chat lanes answers: its call is paid for when it is over.
LEMMA AnsweringSteps ==
  ASSUME RequestInv, NEW marks, LegAnswers(marks) \/ Collected(marks)
  PROVE  LaterStep
  <1>1. /\ req.kind = "chat" /\ screens = {} /\ pc \notin {"idle", "done"}
        /\ UNCHANGED <<req, text, screens>>
    BY OnALane DEF LegAnswers, Collected, ChatPcs
  <1>2. Sent \in {text, <<>>}
    BY DEF Sent
  <1>3. ASSUME NEW lane \in {"native", "standard"}, NEW status,
               calls' = Append(calls, Call(lane, None, Sent, "ok")),
               rows' = Append(rows, ChatRow(lane, status))
        PROVE  Charges
    BY <1>2, <1>3, ChatCallPaid
  <1>4. CASE LegAnswers(marks) /\ (req.stream \/ pc = "native")
    <2>1. (pc' = "stream" /\ req.stream) \/ (pc' = "collect" /\ ~ req.stream)
      BY <1>4 DEF LegAnswers
    <2>2. Charges
      BY <1>4 DEF LegAnswers, Charges
    <2> QED BY <1>1, <2>1, <2>2, ChatGoes
  <1>5. CASE \/ LegAnswers(marks) /\ ~ (req.stream \/ pc = "native")
             \/ Collected(marks)
    <2>1. PICK lane \in {"native", "standard"} :
            /\ calls' = Append(calls, Call(lane, None, Sent, "ok"))
            /\ \/ ReplyBuffered(lane, marks)
               \/ /\ rows' = Append(rows, ChatRow(lane, "ok"))
                  /\ ExtractFrom(Tail(work.left), work.survivors, work.degraded)
      BY <1>5 DEF LegAnswers, Collected
    <2>2. CASE ReplyBuffered(lane, marks)
      BY <1>1, <1>3, <2>1, <2>2, BufferedReplies, ChatGoes DEF Ends
    <2>3. CASE /\ rows' = Append(rows, ChatRow(lane, "ok"))
               /\ ExtractFrom(Tail(work.left), work.survivors, work.degraded)
      BY <1>1, <1>3, <2>1, <2>3, ExtractGoes, ChatGoes DEF Ends
    <2> QED BY <2>1, <2>2, <2>3
  <1> QED BY <1>4, <1>5

\* A leg of the chat lanes that fails owes nothing, nor does a native reply nobody
\* streams when it breaks off, nor a route without legs.
LEMMA FailingSteps ==
  ASSUME RequestInv,
         CollectBreaks \/ NoLegs \/ \E called, retryable \in BOOLEAN : LegFails(called, retryable)
  PROVE  LaterStep
  <1>1. Sent \in {text, <<>>}
    BY DEF Sent
  <1>2. CASE CollectBreaks
    <2>1. req.kind = "chat" /\ screens = {} /\ pc \notin {"idle", "done"} /\ ~ req.stream
      BY <1>2, OnALane DEF CollectBreaks, ChatPcs, RequestInv, LaneFitsKind
    <2>2. Owed(Call("native", None, Sent, "broke")) = None
      BY <2>1, OwedByLane
    <2>3. Charges
      BY <1>1, <1>2, <2>2, CallUnpaid DEF CollectBreaks
    <2> QED BY <1>2, <2>1, <2>3, LaneFailsGoes, ChatGoes DEF CollectBreaks, Ends
  <1>3. ASSUME NEW called \in BOOLEAN, NEW retryable \in BOOLEAN, LegFails(called, retryable)
        PROVE  LaterStep
    <2>1. req.kind = "chat" /\ screens = {} /\ pc \notin {"idle", "done"} /\ pc \in {"native", "standard"}
      BY <1>3, OnALane DEF LegFails, ChatPcs
    <2>2. Owed(Call(pc, None, Sent, "failed")) = None
      BY <2>1, OwedByLane
    <2>3. Charges
      <3>1. CASE called
        BY <1>1, <1>3, <2>1, <2>2, <3>1, CallUnpaid DEF LegFails
      <3>2. CASE ~ called
        BY <1>3, <3>2 DEF LegFails, Charges
      <3> QED BY <3>1, <3>2
    <2>4. pc' \in {"native", "standard"} \/ Ends({"ok", "failed"})
      BY <1>3, <2>1, LaneFailsGoes DEF LegFails
    <2> QED BY <1>3, <2>1, <2>3, <2>4, ChatGoes DEF LegFails, Ends
  <1>4. CASE NoLegs
    <2>1. req.kind = "chat" /\ screens = {} /\ pc \notin {"idle", "done"}
      BY <1>4, OnALane DEF NoLegs, ChatPcs
    <2>2. Charges
      BY <1>4 DEF NoLegs, Charges
    <2> QED BY <1>4, <2>1, <2>2, ChatGoes DEF NoLegs, EndWith, Ends
  <1> QED BY <1>2, <1>3, <1>4

\* The Jev lane: a leg that decides is paid for, one that fails is not.
LEMMA JevSteps ==
  ASSUME RequestInv,
         \/ JevExhausted
         \/ \E kept : JevLegDecides(kept)
         \/ \E how \in {"retryable", "refused", "unreadable"} : JevLegFails(how)
  PROVE  LaterStep
  <1>1. /\ pc = "jev" /\ req.kind = "chat" /\ screens = {} /\ pc \notin {"idle", "done"}
        /\ UNCHANGED <<req, text, screens>>
    BY OnALane DEF JevExhausted, JevLaneEnds, JevLegDecides, JevLegFails, ChatPcs
  <1>2. CASE JevExhausted
    <2>1. Charges
      BY <1>2 DEF JevExhausted, JevLaneEnds, Charges
    <2>2. CASE req.extract # None
      BY <1>1, <1>2, <2>1, <2>2, ExtractGoes, ChatGoes DEF JevExhausted, Ends
    <2>3. CASE req.extract = None
      <3>1. pc' \in {"native", "standard"} \/ Ends({"failed", "bad_request"})
        BY <1>2, <2>3 DEF JevExhausted, EnterChatLane, ChatLane, EndWith, Ends
      <3> QED BY <1>1, <2>1, <3>1, ChatGoes DEF Ends
    <2> QED BY <2>2, <2>3
  <1>3. ASSUME NEW kept, JevLegDecides(kept) PROVE LaterStep
    <2>1. CASE req.extract # None
      <3>1. PICK survivors : ExtractFrom(survivors, survivors, FALSE)
        BY <1>3, <2>1 DEF JevLegDecides
      <3>2. Charges
        BY <1>3, <2>1, ChatCallPaid DEF JevLegDecides
      <3> QED BY <1>1, <3>1, <3>2, ExtractGoes, ChatGoes DEF Ends
    <2>2. CASE req.extract = None /\ req.stream
      <3>1. pc' = "stream" /\ Charges
        BY <1>3, <2>2 DEF JevLegDecides, Charges
      <3> QED BY <1>1, <2>2, <3>1, ChatGoes
    <2>3. CASE req.extract = None /\ ~ req.stream
      <3>1. /\ calls' = Append(calls, Call("jev", None, text, "ok"))
            /\ ReplyBuffered("jev", {})
        BY <1>3, <2>3 DEF JevLegDecides
      <3>2. Ends({"ok"}) /\ Charges
        BY <3>1, BufferedReplies, ChatCallPaid
      <3> QED BY <1>1, <3>2, ChatGoes DEF Ends
    <2> QED BY <2>1, <2>2, <2>3
  <1>4. ASSUME NEW how, JevLegFails(how) PROVE LaterStep
    <2>1. Owed(Call("jev", None, text, "failed")) = None
      BY OwedByLane
    <2>2. Charges
      BY <1>4, <2>1, CallUnpaid DEF JevLegFails
    <2>3. pc' = "jev" \/ Ends({"failed", "bad_request"})
      BY <1>4, <1>1 DEF JevLegFails, EndWith, Ends
    <2> QED BY <1>1, <2>2, <2>3, ChatGoes DEF Ends
  <1> QED BY <1>2, <1>3, <1>4

\* A streamed reply is one call and one row, whoever ends it.
LEMMA StreamSteps ==
  ASSUME RequestInv,
         AbandonChat \/ \E status \in {"ok", "error", "blocked"} : StreamEnds(status)
  PROVE  LaterStep
  <1>1. Sent \in {text, <<>>}
    BY DEF Sent
  <1>2. StreamLane \in {"jev", "native", "standard"}
    BY DEF StreamLane, ChatLane
  <1>3. ASSUME NEW status, StreamEnds(status) PROVE LaterStep
    <2>1. req.kind = "chat" /\ screens = {} /\ pc \notin {"idle", "done"} /\ req.stream
      BY <1>3, OnALane DEF StreamEnds, ChatPcs, RequestInv, LaneFitsKind
    <2>2. Charges
      BY <1>2, <1>3, <2>1, ChatCallPaid DEF StreamEnds
    <2>3. Ends({"ok"})
      BY <1>3 DEF StreamEnds, AnswerWith, Ends
    <2> QED BY <1>3, <2>1, <2>2, <2>3, ChatGoes DEF StreamEnds, Ends
  <1>4. ASSUME AbandonChat PROVE LaterStep
    <2>1. CASE /\ pc \in {"decide", "jev", "native", "standard"}
               /\ Dropped(pc, IF pc \in {"native", "standard"} THEN Sent ELSE text, "left", <<>>)
      <3> DEFINE seen == IF pc \in {"native", "standard"} THEN Sent ELSE text
      <3>1. seen \in {text, <<>>}
        BY <1>1
      <3> HIDE DEF seen
      <3>2. calls' = Append(calls, Call(pc, None, seen, "left")) /\ rows' = rows \o <<>>
        BY <2>1 DEF Dropped, seen
      <3>3. rows' = rows
        BY <3>2 DEF RequestInv, IsList
      <3>4. Owed(Call(pc, None, seen, "left")) = None
        BY <2>1, OwedByLane
      <3>5. Charges
        BY <2>1, <3>1, <3>2, <3>3, <3>4, CallUnpaid
      <3> QED BY <2>1, <3>5, OnALane, ChatGoes DEF Dropped, EndWith, Ends, ChatPcs
    <2>2. CASE pc = "collect" /\ Dropped("native", Sent, "quit", <<>>)
      <3>1. req.kind = "chat" /\ screens = {} /\ pc \notin {"idle", "done"} /\ ~ req.stream
        BY <2>2, OnALane DEF ChatPcs, RequestInv, LaneFitsKind
      <3>2. calls' = Append(calls, Call("native", None, Sent, "quit")) /\ rows' = rows \o <<>>
        BY <2>2 DEF Dropped
      <3>3. rows' = rows
        BY <3>2 DEF RequestInv, IsList
      <3>4. Owed(Call("native", None, Sent, "quit")) = None
        BY <3>1, OwedByLane
      <3>5. Charges
        BY <1>1, <3>2, <3>3, <3>4, CallUnpaid
      <3> QED BY <2>2, <3>1, <3>5, ChatGoes DEF Dropped, EndWith, Ends
    <2>3. CASE /\ pc = "stream"
               /\ \E status \in {"ok", "blocked"} :
                    Dropped(StreamLane, text, "quit", <<ChatRow(StreamLane, status)>>)
      <3>1. req.kind = "chat" /\ screens = {} /\ pc \notin {"idle", "done"} /\ req.stream
        BY <2>3, OnALane DEF ChatPcs, RequestInv, LaneFitsKind
      <3>2. PICK status : Dropped(StreamLane, text, "quit", <<ChatRow(StreamLane, status)>>)
        BY <2>3
      <3>3. rows' = Append(rows, ChatRow(StreamLane, status))
        BY <3>2, JoinsOne DEF Dropped, RequestInv
      <3>4. calls' = Append(calls, Call(StreamLane, None, text, "quit"))
        BY <1>2, <3>2 DEF Dropped
      <3>5. Charges
        BY <1>2, <3>1, <3>3, <3>4, ChatCallPaid
      <3> QED BY <3>1, <3>2, <3>5, ChatGoes DEF Dropped, EndWith, Ends
    <2> QED BY <1>4, <2>1, <2>2, <2>3 DEF AbandonChat
  <1> QED BY <1>3, <1>4

\* Whatever a chat request does once it is screened.
LEMMA ChatSteps ==
  ASSUME RequestInv,
         ChatWork \/ JevFails \/ (\E answers \in Answers : JevAnswers(answers)) \/ AbandonChat
  PROVE  LaterStep
  BY PlanningSteps, AnsweringSteps, FailingSteps, JevSteps, StreamSteps DEF ChatWork

-----------------------------------------------------------------------------
(* The other kinds of requests *)

\* An embedding's calls owe nothing; its one row comes with the reply.
LEMMA EmbedSteps ==
  ASSUME RequestInv, EmbedWork \/ AbandonEmbed
  PROVE  LaterStep
  <1> USE DEF LaterStep, Later, ChatPcs, GeminiPcs, LaneFitsKind, RefusedBy
  <1>1. ASSUME NEW came, pc = "embed", UNCHANGED <<req, text, screens, rows>>,
               calls' = Append(calls, Call("embed", None, text, came)),
               \/ pc' = "embed"
               \/ pc' = "done" /\ reply'.status = "left"
        PROVE  LaterStep
    <2>1. Owed(Call("embed", None, text, came)) = None
      BY OwedByLane
    <2>2. Charges
      BY <1>1, <2>1, CallUnpaid
    <2> QED BY <1>1, <2>2 DEF RequestInv
  <1>2. CASE EmbedStarts
    BY <1>2 DEF EmbedStarts, Screened, Charges
  <1>3. CASE BatchEmbeds
    <2>1. PICK came : calls' = Append(calls, Call("embed", None, text, came))
      BY <1>3 DEF BatchEmbeds
    <2> QED BY <1>1, <1>3, <2>1 DEF BatchEmbeds, Sending
  <1>4. CASE Embedded
    <2> DEFINE row == Row("embedding", "embedding", Head(walk).provider, "ok")
    <2>1. row.op = "embedding"
      BY DEF Row
    <2>2. UNCHANGED calls /\ rows' = Append(rows, row)
      BY <1>4 DEF Embedded
    <2> HIDE DEF row
    <2>3. EmbeddingRow
      BY <2>1, <2>2 DEF EmbeddingRow
    <2>4. pc = "embed" /\ pc' = "done" /\ reply'.status = "ok" /\ UNCHANGED <<req, text, screens>>
      BY <1>4 DEF Embedded, AnswerWith
    <2>5. Charges
      BY <2>3, <2>4 DEF Charges, RequestInv
    <2> QED BY <2>3, <2>4, <2>5 DEF RequestInv
  <1>5. CASE BatchFails
    BY <1>1, <1>5 DEF BatchFails, Sending
  <1>6. CASE NobodyEmbeds
    BY <1>6 DEF NobodyEmbeds, EndWith, Charges, RequestInv
  <1>7. CASE AbandonEmbed
    <2>1. /\ pc = "embed" /\ UNCHANGED <<req, text, screens>>
          /\ calls' = Append(calls, Call("embed", None, text, "left")) /\ rows' = rows \o <<>>
          /\ pc' = "done" /\ reply'.status = "left"
      BY <1>7 DEF AbandonEmbed, Sending, Dropped, EndWith
    <2>2. rows' = rows
      BY <2>1 DEF RequestInv, IsList
    <2> QED BY <1>1, <2>1, <2>2
  <1> QED BY <1>2, <1>3, <1>4, <1>5, <1>6, <1>7 DEF EmbedWork

\* A metered passthrough leg or an evaluation is paid for when its call is over,
\* unless the client left while a leg was called.
LEMMA PassthroughSteps ==
  ASSUME RequestInv, PassthroughWork \/ AbandonPassthrough
  PROVE  LaterStep
  <1> USE DEF LaterStep, Later, ChatPcs, GeminiPcs, LaneFitsKind, RefusedBy
  <1>1. ASSUME pc \in GeminiPcs \cup {"evaluate"}, UNCHANGED <<req, text, screens>>,
               \/ pc \in GeminiPcs /\ pc' \in GeminiPcs
               \/ pc' = "done" /\ reply'.status \in {"ok", "failed", "upstream_error", "left"},
               Charges
        PROVE  LaterStep
    BY <1>1 DEF RequestInv
  <1>2. ASSUME NEW lane \in {"single", "forward"}, NEW came,
               lane = "single" \/ came = "left",
               calls' = Append(calls, Call(lane, None, text, came)), rows' = rows
        PROVE  Charges
    <2>1. Owed(Call(lane, None, text, came)) = None
      BY <1>2, OwedByLane
    <2> QED BY <1>2, <2>1, CallUnpaid
  <1>3. ASSUME NEW came, came # "left", NEW status,
               calls' = Append(calls, Call("forward", None, text, came)),
               rows' = Append(rows, PassRow(status))
        PROVE  Charges
    <2> DEFINE row == PassRow(status)
    <2>1. row.op = "chat" /\ row.op \in Metered
      BY DEF PassRow, Row, Metered
    <2>2. Owed(Call("forward", None, text, came)) = "chat"
      BY <1>3, OwedByLane
    <2> HIDE DEF row
    <2>3. rows' = Append(rows, row)
      BY <1>3 DEF row
    <2> QED BY <1>3, <2>1, <2>2, <2>3, CallPaid
  <1>4. ASSUME NEW came, NEW status,
               calls' = Append(calls, Call("evaluate", None, text, came)),
               rows' = Append(rows, SystemRow(status))
        PROVE  Charges
    <2> DEFINE row == SystemRow(status)
    <2>1. row.op = "systemone" /\ row.op \in Metered
      BY DEF SystemRow, Row, Metered
    <2>2. Owed(Call("evaluate", None, text, came)) = "systemone"
      BY OwedByLane
    <2> HIDE DEF row
    <2>3. rows' = Append(rows, row)
      BY <1>4 DEF row
    <2> QED BY <1>4, <2>1, <2>2, <2>3, CallPaid
  <1>5. CASE GeminiStarts
    BY <1>5 DEF GeminiStarts, Screened, Charges
  <1>6. CASE SystemOneStarts
    BY <1>6 DEF SystemOneStarts, Screened, Charges
  <1>7. CASE LegAccepts
    BY <1>7, <1>1 DEF LegAccepts, Charges
  <1>8. CASE LegUnreachable
    <2>1. Charges
      BY <1>3, <1>8 DEF LegUnreachable
    <2> QED BY <1>1, <1>8, <2>1 DEF LegUnreachable, EndWith
  <1>9. ASSUME NEW retryable \in BOOLEAN, LegRefuses(retryable) PROVE LaterStep
    <2>1. Charges
      BY <1>3, <1>9 DEF LegRefuses
    <2> QED BY <1>1, <1>9, <2>1 DEF LegRefuses, UpstreamError, AnswerWith
  <1>10. ASSUME NEW came \in {"ok", "broke"}, SingleEnds(came) PROVE LaterStep
    <2>1. Charges
      BY <1>2, <1>10 DEF SingleEnds
    <2> QED BY <1>1, <1>10, <2>1 DEF SingleEnds, PassedOn, AnswerWith, EndWith
  <1>11. ASSUME NEW came \in {"ok", "broke"}, BodyEnds(came) PROVE LaterStep
    <2>1. Charges
      BY <1>3, <1>11 DEF BodyEnds
    <2> QED BY <1>1, <1>11, <2>1 DEF BodyEnds, PassedOn, AnswerWith, EndWith
  <1>12. ASSUME NEW came \in {"ok", "broke"}, SseEnds(came) PROVE LaterStep
    <2>1. Charges
      BY <1>3, <1>12 DEF SseEnds
    <2> QED BY <1>1, <1>12, <2>1 DEF SseEnds, PassedOn, AnswerWith
  <1>13. ASSUME NEW how \in {"ok", "refused", "unreachable"}, Evaluated(how) PROVE LaterStep
    <2>1. Charges
      BY <1>4, <1>13 DEF Evaluated
    <2> QED BY <1>1, <1>13, <2>1 DEF Evaluated, PassedOn, UpstreamError, AnswerWith, EndWith
  <1>14. CASE AbandonPassthrough
    <2>1. ASSUME NEW lane, NEW came, NEW row, lane # "guard", Dropped(lane, text, came, row)
          PROVE  /\ calls' = Append(calls, Call(lane, None, text, came)) /\ rows' = rows \o row
                 /\ pc' = "done" /\ reply'.status = "left" /\ UNCHANGED <<req, text, screens>>
      BY <2>1 DEF Dropped, EndWith
    <2>2. CASE pc \in {"forward", "single"} /\ Dropped(pc, text, "left", <<>>)
      <3>1. rows' = rows \o <<>> /\ calls' = Append(calls, Call(pc, None, text, "left"))
        BY <2>1, <2>2
      <3>2. rows' = rows
        BY <3>1 DEF RequestInv, IsList
      <3>3. Charges
        BY <1>2, <2>2, <3>1, <3>2
      <3> QED BY <1>1, <2>1, <2>2, <3>3
    <2>3. CASE pc \in {"body", "sse"} /\ Dropped("forward", text, "quit", <<PassRow("ok")>>)
      <3>1. rows' = rows \o <<PassRow("ok")>> /\ IsList(rows)
        BY <2>3 DEF Dropped, RequestInv
      <3>2. rows' = Append(rows, PassRow("ok"))
        BY <3>1, JoinsOne
      <3>3. Charges
        BY <1>3, <2>1, <2>3, <3>2
      <3> QED BY <1>1, <2>1, <2>3, <3>3
    <2>4. CASE pc = "evaluate" /\ Dropped("evaluate", text, "left", <<SystemRow("ok")>>)
      <3>1. rows' = rows \o <<SystemRow("ok")>> /\ IsList(rows)
        BY <2>4 DEF Dropped, RequestInv
      <3>2. rows' = Append(rows, SystemRow("ok"))
        BY <3>1, JoinsOne
      <3>3. Charges
        BY <1>4, <2>1, <2>4, <3>2
      <3> QED BY <1>1, <2>1, <2>4, <3>3
    <2> QED BY <1>14, <2>2, <2>3, <2>4 DEF AbandonPassthrough
  <1> QED BY <1>5, <1>6, <1>7, <1>8, <1>9, <1>10, <1>11, <1>12, <1>13, <1>14
          DEF PassthroughWork

-----------------------------------------------------------------------------
(* Screening *)

\* What a step of screening pays for: a scan writes the gateway's own row if it
\* blocks, a classifier's answer its row, and any other call none.
ScreenCharges ==
  \/ UNCHANGED <<calls, rows>>
  \/ UNCHANGED calls /\ \E r : rows' = Append(rows, r) /\ r.op = "guard_input"
  \/ \E c : /\ calls' = Append(calls, c) /\ c.lane = "guard"
            /\ \/ rows' = rows /\ Owed(c) \notin Metered
               \/ \E r : rows' = Append(rows, r) /\ r.op = Owed(c) /\ r.op \in Metered

ScreeningStep ==
  /\ req' = req /\ pc \in {"screen", "classify"} /\ pc' \in {"screen", "classify", "done"}
  /\ pc' = "done" => reply'.status \in RefusedBy \cup {"left"}
  /\ IsBody(req, text') /\ ScreenCharges

\* Whatever screening does, the body stays one of its kind, and the rows follow the
\* calls.
LEMMA ScreeningSteps ==
  ASSUME RequestInv, Screening \/ AbandonScreening
  PROVE  ScreeningStep
  <1> USE DEF ScreeningStep, RefusedBy
  <1>1. ASSUME NEW came, came # "ok", pc = "classify",
               calls' = Append(calls, ClassifierCall(came)), rows' = rows
        PROVE  ScreenCharges
    <2> DEFINE c == ClassifierCall(came)
    <2>1. c.lane = "guard" /\ Owed(c) = None
      BY <1>1, OwedByLane DEF ClassifierCall
    <2> HIDE DEF c
    <2>2. calls' = Append(calls, c) /\ Owed(c) \notin Metered
      BY <1>1, <2>1, LoadsAssumption DEF c, Metered
    <2> QED BY <1>1, <2>1, <2>2 DEF ScreenCharges
  <1>2. pc \in {"screen", "classify"} => req.kind \in Kinds /\ IsBody(req, text)
    BY DEF RequestInv
  <1>3. CASE ScreenUndefined
    BY <1>2, <1>3 DEF ScreenUndefined, ScreenCharges
  <1>4. CASE ScreenInput
    <2>1. PICK scan \in {Scan(Policy, Segments(req, text))} :
            /\ text' = WrittenBack(req, text, scan.left)
            /\ IF scan.blocked
               THEN EndWith("content_blocked") /\ rows' = Append(rows, InputBlockRow)
               ELSE pc' \in {"screen", "classify"} /\ rows' = rows
      BY <1>4 DEF ScreenInput
    <2>2. req' = req /\ pc = "screen" /\ calls' = calls
      BY <1>4 DEF ScreenInput
    <2>3. IsBody(req, text')
      BY <1>2, <2>1, <2>2, BodyScreened
    <2>4. InputBlockRow.op = "guard_input"
      BY DEF InputBlockRow, Row
    <2>5. ScreenCharges
      BY <2>1, <2>2, <2>4 DEF ScreenCharges
    <2> QED BY <2>1, <2>2, <2>3, <2>5 DEF EndWith
  <1>5. ASSUME NEW reached, ClassifierScores(reached) PROVE ScreeningStep
    <2> DEFINE c == ClassifierCall("ok")
               row == ClassifierRow(IF ScoresBlock(Policy, reached) THEN "blocked" ELSE "ok")
    <2>1. c.lane = "guard" /\ Owed(c) = "guard_classifier"
      BY OwedByLane DEF ClassifierCall
    <2>2. row.op = "guard_classifier" /\ row.op \in Metered
      BY DEF ClassifierRow, Row, Metered
    <2>3. calls' = Append(calls, c) /\ rows' = Append(rows, row)
      BY <1>5 DEF ClassifierScores
    <2> HIDE DEF c, row
    <2>4. ScreenCharges
      BY <2>1, <2>2, <2>3 DEF ScreenCharges
    <2> QED BY <1>2, <1>5, <2>4 DEF ClassifierScores, EndWith
  <1>6. ASSUME NEW retryable, ClassifierFails(retryable) PROVE ScreeningStep
    <2>1. ScreenCharges
      BY <1>1, <1>6 DEF ClassifierFails
    <2> QED BY <1>2, <1>6, <2>1 DEF ClassifierFails, GaveUp, EndWith
  <1>7. CASE AbandonScreening
    <2>1. calls' = Append(calls, ClassifierCall("left")) /\ rows' = rows \o <<>>
      BY <1>7 DEF AbandonScreening, Dropped, ClassifierCall
    <2>2. rows' = rows
      BY <2>1 DEF RequestInv, IsList
    <2>3. ScreenCharges
      BY <1>1, <1>7, <2>1, <2>2 DEF AbandonScreening
    <2> QED BY <1>2, <1>7, <2>3 DEF AbandonScreening, Dropped, EndWith
  <1> QED BY <1>3, <1>4, <1>5, <1>6, <1>7 DEF Screening

-----------------------------------------------------------------------------
(* The process *)

\* A request comes in as one of those the configuration lists, with nothing done.
Arrived ==
  \E r \in Loads[load].requests :
    \E error \in {None, "unknown_model", "bad_request"} : \E policies :
      /\ Begin(r, error, policies)
      /\ error = None => Enforced(r) \subseteq policies

\* An arriving request is to be screened under every enforced policy it falls under,
\* unless it ends at once.
LEMMA Arriving ==
  ASSUME Arrive
  PROVE  Arrived /\ phase = "up" /\ UNCHANGED <<gw, registryVars, phase, load, crashes>>
  <1>1. PICK r \in Loads[load].requests :
          \/ r.kind = "chat"      /\ Served(ChatArrives(r))
          \/ r.kind = "embed"     /\ Served(EmbedArrives(r))
          \/ r.kind = "gemini"    /\ Served(GeminiArrives(r))
          \/ r.kind = "systemone" /\ Served(SystemOneArrives(r))
    BY DEF Arrive
  <1>2. CASE r.kind = "chat" /\ Served(ChatArrives(r))
    <2>1. Enforced(r) \subseteq {PolicyOf(gw.table, r.alias)}
      BY <1>2 DEF Enforced, NamedBy
    <2> QED BY <1>2, <2>1 DEF Served, ChatArrives, Arrived
  <1>3. CASE r.kind = "embed" /\ Served(EmbedArrives(r))
    <2>1. Enforced(r) \subseteq {IF gw.embeds[r.alias].policy = None THEN "default"
                                ELSE gw.embeds[r.alias].policy}
      BY <1>3 DEF Enforced, NamedBy
    <2> QED BY <1>3, <2>1 DEF Served, EmbedArrives, Arrived
  <1>4. CASE r.kind = "gemini" /\ Served(GeminiArrives(r))
    <2> DEFINE policies == IF r.action \in NonContent THEN {}
                           ELSE PassthroughPolicies(gw.table, r.model)
    <2>1. Enforced(r) \subseteq policies
      BY <1>4 DEF Enforced, NamedBy, PassthroughPolicies, ChatAliases, IsVertex
    <2>2. \E error \in {None, "unknown_model", "bad_request"} : Begin(r, error, policies)
      BY <1>4 DEF Served, GeminiArrives
    <2> QED BY <1>4, <2>1, <2>2 DEF Served, Arrived
  <1>5. CASE r.kind = "systemone" /\ Served(SystemOneArrives(r))
    <2>1. Enforced(r) \subseteq {"default"}
      BY <1>5 DEF Enforced, NamedBy
    <2> QED BY <1>5, <2>1 DEF Served, SystemOneArrives, Arrived
  <1> QED BY <1>1, <1>2, <1>3, <1>4, <1>5

\* What the steps of a request come down to: screening, what comes after it, being
\* forgotten; and what does not touch it.
LEMMA RequestSteps ==
  ASSUME RequestInv, Next
  PROVE  \/ UNCHANGED requestVars /\ (pc # "idle" => UNCHANGED <<gw, phase, load>>) /\ load' = load
         \/ Arrived /\ phase = "up" /\ UNCHANGED <<gw, phase, load>>
         \/ pc \in {"screen", "classify"} /\ (Screening \/ AbandonScreening) /\ ScreeningStep
               /\ UNCHANGED <<gw, phase, load>>
         \/ LaterStep /\ UNCHANGED <<gw, phase, load>>
         \/ Forget
  <1>1. CASE Launch \/ Seed \/ Listen \/ Crash \/ Agents \/ Time
    BY <1>1 DEF Launch, Seed, Listen, Crash, Agents, Time, RequestInv
  <1>2. CASE Arrive
    BY <1>2, Arriving
  <1>3. CASE Work \/ Decision \/ Abandon
    <2>1. UNCHANGED <<gw, phase, load>>
      BY <1>3 DEF Work, Decision, Abandon, Served
    <2>2. \/ Screening \/ AbandonScreening
          \/ ChatWork \/ JevFails \/ (\E answers \in Answers : JevAnswers(answers)) \/ AbandonChat
          \/ EmbedWork \/ AbandonEmbed
          \/ PassthroughWork \/ AbandonPassthrough
      BY <1>3 DEF Work, Decision, Abandon, Served
    <2>3. CASE Screening \/ AbandonScreening
      <3>1. ScreeningStep
        BY <2>3, ScreeningSteps
      <3> QED BY <2>1, <2>3, <3>1 DEF ScreeningStep
    <2>4. CASE ~ (Screening \/ AbandonScreening)
      <3>1. LaterStep
        BY <2>2, <2>4, ChatSteps, EmbedSteps, PassthroughSteps
      <3> QED BY <2>1, <3>1
    <2> QED BY <2>3, <2>4
  <1> QED BY <1>1, <1>2, <1>3 DEF Next

\* The calls and the rows of a request only grow, one at a time.
LEMMA OneAtATime ==
  ASSUME RequestInv, Charges \/ ScreenCharges
  PROVE  /\ IsList(calls') /\ IsList(rows')
  <1>1. IsList(calls) /\ IsList(rows)
    BY DEF RequestInv
  <1>2. ASSUME NEW s, NEW t, IsList(s), t = s \/ \E x : t = Append(s, x)
        PROVE  t \in Seq(Range(t))
    <2>1. ASSUME NEW x PROVE IsList(Append(s, x))
      BY <1>2, AppendAny
    <2>2. IsList(t)
      BY <1>2, <2>1
    <2> QED BY <2>2 DEF IsList
  <1>3. calls' = calls \/ \E c : calls' = Append(calls, c)
    BY DEF Charges, ScreenCharges, EmbeddingRow
  <1>4. rows' = rows \/ \E r : rows' = Append(rows, r)
    BY DEF Charges, ScreenCharges, EmbeddingRow
  <1>5. calls' \in Seq(Range(calls')) /\ rows' \in Seq(Range(rows'))
    BY <1>1, <1>2, <1>3, <1>4
  <1> QED BY <1>5 DEF IsList

\* A request is served by a process that is up; its body has places of its kind.
LEMMA RequestInvariant == Spec => []RequestInv
  <1>1. Init => RequestInv
    BY NoElement DEF Init, NoRequest, RequestInv, LaneFitsKind, Later, ChatPcs, GeminiPcs
  <1>2. RequestInv /\ [Next]_vars => RequestInv'
    <2> SUFFICES ASSUME RequestInv, [Next]_vars
                 PROVE  RequestInv'
      OBVIOUS
    <2> USE DEF Later, ChatPcs, GeminiPcs
    <2>1. CASE UNCHANGED vars
      BY <2>1 DEF vars, requestVars, RequestInv, LaneFitsKind
    <2>2. CASE UNCHANGED requestVars /\ (pc # "idle" => UNCHANGED <<gw, phase, load>>) /\ load' = load
      BY <2>2 DEF requestVars, RequestInv, LaneFitsKind
    <2>3. CASE Arrived /\ phase = "up" /\ UNCHANGED <<gw, phase, load>>
      <3>1. PICK r \in Loads[load].requests : \E error, policies : Begin(r, error, policies)
        BY <2>3 DEF Arrived
      <3>2. ~ Loads[load].agents /\ r # None /\ r.kind \in Kinds /\ IsBody(r, r.text)
        <4>1. /\ ~ Loads[load].agents /\ r # None /\ r.kind \in Kinds
              /\ r.text \in Seq([at : Places(r), shows : SUBSET STRING])
          BY LoadsAssumption DEF RequestInv
        <4> DEFINE Part == [at : Places(r), shows : SUBSET STRING]
        <4>2. r.text \in Seq(Part)
          BY <4>1
        <4> HIDE DEF Part
        <4>3. \A i \in DOMAIN r.text : r.text[i] \in Part
          BY <4>2
        <4> QED BY <4>1, <4>3 DEF IsBody, Part
      <3>3. /\ req' = r /\ text' = r.text /\ UNCHANGED <<calls, rows>>
            /\ pc' = "screen" \/ pc' = "done"
        BY <3>1 DEF Begin, EndWith
      <3>4. IsList(calls') /\ IsList(rows')
        <4>1. IsList(calls) /\ IsList(rows)
          BY DEF RequestInv
        <4> QED BY <3>3, <4>1 DEF IsList
      <3>5. IsBody(req', text') /\ req' # None /\ req'.kind \in Kinds
        BY <3>2, <3>3
      <3>6. LaneFitsKind' /\ pc' \in {"screen", "done"}
        BY <3>3 DEF LaneFitsKind
      <3>7. load' \in DOMAIN Loads /\ phase' = "up" /\ ~ Loads[load'].agents
        BY <2>3, <3>2 DEF RequestInv
      <3> QED BY <3>4, <3>5, <3>6, <3>7 DEF RequestInv
    <2>4. CASE ScreeningStep /\ UNCHANGED <<gw, phase, load>>
      <3>1. IsList(calls') /\ IsList(rows')
        BY <2>4, OneAtATime DEF ScreeningStep
      <3> QED BY <2>4, <3>1 DEF ScreeningStep, RequestInv, LaneFitsKind
    <2>5. CASE LaterStep /\ UNCHANGED <<gw, phase, load>>
      <3>1. IsList(calls') /\ IsList(rows')
        BY <2>5, OneAtATime DEF LaterStep
      <3> QED BY <2>5, <3>1 DEF LaterStep, RequestInv
    <2>6. CASE Forget
      BY <2>6, NoElement DEF Forget, RequestInv, LaneFitsKind
    <2> QED BY <2>1, <2>2, <2>3, <2>4, <2>5, <2>6, RequestSteps
  <1> QED BY <1>1, <1>2, PTL DEF Spec

-----------------------------------------------------------------------------
(* What upstreams see *)

Clear(p) ==
  ClearOf(req, text, Wanting(p, "mask")) /\ ClearOf(req, text, Wanting(p, "block"))

\* A call that shows nothing it may not.
Safe(c) ==
  IF c.lane = "guard"
  THEN /\ ~ Shows(c, Wanting(c.policy, "mask"))
       /\ c.policy \in Enforced(req) => ~ Shows(c, Wanting(c.policy, "block"))
  ELSE \A p \in Enforced(req) : ~ Shows(c, Wanting(p, "mask")) /\ ~ Shows(c, Wanting(p, "block"))

\* How many rows say a request was blocked.
BlockedIn(s) == Cardinality({i \in DOMAIN s : s[i].status = "blocked"})

\* What BlockedReachesNobody says of a request that is refused.
Refused ==
  /\ \A c \in Range(calls) : c.lane = "guard"
  /\ BlockedIn(rows) = IF reply.status = "content_blocked" THEN 1 ELSE 0

\* Every enforced policy is still to come, or the body is clear of what it wants.
ScreenInv ==
  /\ \A p \in Enforced(req) :
       /\ pc \in {"screen"} \cup Later => p \in screens \/ Clear(p)
       /\ pc = "classify" => p \in screens \ {Current} \/ Clear(p)
  /\ pc \in {"screen", "classify"} =>
       /\ \A c \in Range(calls) : c.lane = "guard"
       /\ \A r \in Range(rows) : r.status # "blocked"
  /\ \A c \in Range(calls) : Safe(c)
  /\ (pc = "done" /\ reply.status \in RefusedBy) => Refused

\* What a gateway asks of a request does not change while it serves it.
LEMMA SameRules ==
  ASSUME gw' = gw, req' = req
  PROVE  /\ Enforced(req)' = Enforced(req)
         /\ \A p, action : Wanting(p, action)' = Wanting(p, action)
         /\ \A c : Safe(c) => Safe(c)'
  <1>1. Enforced(req)' = Enforced(req)
    BY DEF Enforced, NamedBy, PolicyOf
  <1>2. ASSUME NEW p, NEW action PROVE Wanting(p, action)' = Wanting(p, action)
    BY DEF Wanting
  <1>3. ASSUME NEW c, NEW scanners PROVE Shows(c, scanners)' <=> Shows(c, scanners)
    BY DEF Shows
  <1>4. ASSUME NEW c, NEW p, NEW action
        PROVE  Shows(c, Wanting(p, action))' <=> Shows(c, Wanting(p, action))
    BY <1>2 DEF Shows
  <1>5. ASSUME NEW c, Safe(c) PROVE Safe(c)'
    BY <1>1, <1>4, <1>5 DEF Safe
  <1> QED BY <1>1, <1>2, <1>5

\* What is called with the body once it is clear, or with no body, sees nothing.
LEMMA ClearCallIsSafe ==
  ASSUME NEW c, c.lane # "guard", c.text \in {text, <<>>}, \A p \in Enforced(req) : Clear(p)
  PROVE  Safe(c)
  BY DEF Safe, Shows, Clear, ClearOf

\* A classifier sees nothing its policy masks, nor, if that policy is enforced and
\* let the body pass, anything it blocks.
LEMMA ClassifierCallIsSafe ==
  ASSUME RequestInv, pc = "classify", NEW came,
         Current \in Enforced(req) => Clear(Current)
  PROVE  Safe(ClassifierCall(came))
  <1> DEFINE c == ClassifierCall(came)
  <1>1. c.lane = "guard" /\ c.policy = Current /\ c.text = Classified
    BY OwedByLane DEF ClassifierCall
  <1>2. req.kind \in Kinds /\ IsBody(req, text)
    BY DEF RequestInv
  <1>3. \A k \in DOMAIN Classified :
          /\ \A s \in Classified[k] \cap DOMAIN Policy.wants : Policy.wants[s] # "mask"
          /\ \A scanners : ClearOf(req, text, scanners) => Classified[k] \cap scanners = {}
    BY <1>2, ClassifiedIsClear DEF Classified
  <1> HIDE DEF c
  <1>4. ~ Shows(c, Wanting(Current, "mask"))
    BY <1>1, <1>3 DEF Shows, Wanting, Policy
  <1>5. Current \in Enforced(req) => ~ Shows(c, Wanting(Current, "block"))
    BY <1>1, <1>3 DEF Shows, Clear
  <1>6. Safe(c)
    BY <1>1, <1>4, <1>5 DEF Safe
  <1> QED BY <1>6 DEF c

\* Where no row is blocked there are none, and one is written by a block.
LEMMA BlockedRows ==
  ASSUME NEW s, IsList(s), \A r \in Range(s) : r.status # "blocked"
  PROVE  /\ BlockedIn(s) = 0
         /\ \A x : x.status = "blocked" => BlockedIn(Append(s, x)) = 1
  <1>1. \A i \in DOMAIN s : s[i].status # "blocked"
    BY DEF Range
  <1>2. {i \in DOMAIN s : s[i].status = "blocked"} = {}
    BY <1>1
  <1>3. ASSUME NEW x, x.status = "blocked"
        PROVE  BlockedIn(Append(s, x)) = 1
    <2> DEFINE t == Append(s, x)
    <2>1. /\ Len(s) \in Nat /\ DOMAIN s = 1..Len(s) /\ DOMAIN t = 1..(Len(s) + 1)
          /\ \A i \in 1..Len(s) : t[i] = s[i]
          /\ t[Len(s) + 1] = x
      BY AppendAny
    <2> HIDE DEF t
    <2>2. {i \in DOMAIN t : t[i].status = "blocked"} = {Len(s) + 1}
      BY <1>1, <1>3, <2>1
    <2>3. Cardinality({Len(s) + 1}) = 1
      BY FS_Singleton
    <2> QED BY <2>2, <2>3 DEF t, BlockedIn
  <1> QED BY <1>2, <1>3, FS_EmptySet DEF BlockedIn

\* Calls stay safe when a safe one is added.
LEMMA CallsStaySafe ==
  ASSUME RequestInv, gw' = gw, req' = req, \A c \in Range(calls) : Safe(c),
         calls' = calls \/ \E c : calls' = Append(calls, c) /\ Safe(c)
  PROVE  \A c \in Range(calls') : Safe(c)'
  <1>1. \A c \in Range(calls') : c \in Range(calls) \/ Safe(c)
    <2>1. IsList(calls)
      BY DEF RequestInv
    <2>2. ASSUME NEW c, calls' = Append(calls, c), Safe(c)
          PROVE  \A d \in Range(calls') : d \in Range(calls) \/ Safe(d)
      <3>1. Range(Append(calls, c)) = Range(calls) \cup {c}
        BY <2>1, AppendAny
      <3>2. Range(calls') = Range(calls) \cup {c}
        BY <2>2, <3>1
      <3> QED BY <2>2, <3>2
    <2> QED BY <2>2
  <1>2. \A c : Safe(c) => Safe(c)'
    BY SameRules
  <1> QED BY <1>1, <1>2

\* Taking a policy off the list is right once the body is clear for it.
LEMMA PolicyDone ==
  ASSUME gw' = gw, req' = req, text' = text, screens' = screens \ {Current},
         \A p \in Enforced(req) : p \in screens \ {Current} \/ Clear(p)
  PROVE  \A p \in Enforced(req)' : p \in screens' \/ Clear(p)'
  <1>1. Enforced(req)' = Enforced(req)
    BY SameRules
  <1>2. ASSUME NEW p, Clear(p) PROVE Clear(p)'
    <2>1. Wanting(p, "mask")' = Wanting(p, "mask") /\ Wanting(p, "block")' = Wanting(p, "block")
      BY DEF Wanting
    <2> QED BY <1>2, <2>1 DEF Clear
  <1> QED BY <1>1, <1>2

\* A policy nobody defined is not enforced.
LEMMA UndefinedIsScreened ==
  ASSUME RequestInv, ScreenInv, ScreenUndefined, gw' = gw
  PROVE  ScreenInv'
  <1>1. \A p \in Enforced(req) : p \in screens \ {Current} \/ Clear(p)
    BY DEF ScreenInv, ScreenUndefined, Enforced
  <1>2. \A p \in Enforced(req)' : p \in screens' \/ Clear(p)'
    BY <1>1, PolicyDone DEF ScreenUndefined
  <1>3. \A c \in Range(calls') : Safe(c)'
    BY CallsStaySafe DEF ScreenInv, ScreenUndefined
  <1> QED BY <1>2, <1>3 DEF ScreenInv, ScreenUndefined

\* A scan leaves the body clear for its policy, or refuses the request with a row.
LEMMA InputIsScreened ==
  ASSUME RequestInv, ScreenInv, ScreenInput, gw' = gw
  PROVE  ScreenInv'
  <1> DEFINE scan == Scan(Policy, Segments(req, text))
             next == WrittenBack(req, text, scan.left)
  <1>1. /\ req' = req /\ calls' = calls /\ text' = next /\ pc = "screen"
        /\ IF scan.blocked
           THEN pc' = "done" /\ reply'.status = "content_blocked" /\ rows' = Append(rows, InputBlockRow)
           ELSE /\ rows' = rows
                /\ \/ pc' = "classify" /\ screens' = screens
                   \/ pc' = "screen" /\ screens' = screens \ {Current}
    BY DEF ScreenInput, EndWith
  <1>2. /\ \A scanners : ClearOf(req, text, scanners) => ClearOf(req, next, scanners)
        /\ Policy.enforce /\ ~ scan.blocked =>
             ClearOf(req, next, Wanting(Current, "mask")) /\ ClearOf(req, next, Wanting(Current, "block"))
    <2>1. req.kind \in Kinds /\ IsBody(req, text)
      BY <1>1 DEF RequestInv
    <2> QED BY <2>1, BodyScreened DEF Wanting, Policy
  <1>3. \A c \in Range(calls') : Safe(c)'
    BY <1>1, CallsStaySafe DEF ScreenInv
  <1> HIDE DEF scan, next
  <1>4. Enforced(req)' = Enforced(req)
    BY <1>1, SameRules
  <1>5. ASSUME NEW p, ClearOf(req, next, Wanting(p, "mask")), ClearOf(req, next, Wanting(p, "block"))
        PROVE  Clear(p)'
    <2>1. Wanting(p, "mask")' = Wanting(p, "mask") /\ Wanting(p, "block")' = Wanting(p, "block")
      BY DEF Wanting
    <2> QED BY <1>1, <1>5, <2>1 DEF Clear
  <1>6. ASSUME NEW p \in Enforced(req), ~ scan.blocked
        PROVE  p \in screens \ {Current} \/ Clear(p)'
    <2>1. CASE p = Current
      <3>1. Policy.enforce
        BY <2>1 DEF Enforced, Policy
      <3> QED BY <1>2, <1>5, <1>6, <2>1, <3>1
    <2>2. CASE p # Current
      <3>1. p \in screens \/ Clear(p)
        BY <1>1 DEF ScreenInv
      <3> QED BY <1>2, <1>5, <2>2, <3>1 DEF Clear
    <2> QED BY <2>1, <2>2
  <1>7. CASE scan.blocked
    <2>1. InputBlockRow.status = "blocked"
      BY DEF InputBlockRow, Row
    <2>2. IsList(rows) /\ \A r \in Range(rows) : r.status # "blocked"
      BY <1>1 DEF RequestInv, ScreenInv
    <2>3. BlockedIn(rows') = 1
      BY <1>1, <1>7, <2>1, <2>2, BlockedRows
    <2>4. Refused'
      BY <1>1, <1>7, <2>3 DEF ScreenInv, Refused
    <2> QED BY <1>1, <1>3, <1>7, <2>4 DEF ScreenInv, Later, ChatPcs, GeminiPcs
  <1>8. CASE ~ scan.blocked
    <2>1. screens' = screens => Current' = Current
      BY DEF Current, Position, FirstOf
    <2>2. /\ \A c \in Range(calls') : c.lane = "guard"
          /\ \A r \in Range(rows') : r.status # "blocked"
      BY <1>1, <1>8 DEF ScreenInv
    <2>3. \A p \in Enforced(req)' :
            /\ pc' \in {"screen"} \cup Later => p \in screens' \/ Clear(p)'
            /\ pc' = "classify" => p \in screens' \ {Current'} \/ Clear(p)'
      BY <1>1, <1>4, <1>6, <1>8, <2>1 DEF Later, ChatPcs, GeminiPcs
    <2> QED BY <1>1, <1>3, <1>8, <2>2, <2>3 DEF ScreenInv
  <1> QED BY <1>7, <1>8

\* A classifier is called with what it may see; its verdict lets the request go on
\* with the other policies, or refuses it with the row of its answer, or with none.
LEMMA ClassifierScreens ==
  ASSUME RequestInv, ScreenInv, gw' = gw,
         (\E reached : ClassifierScores(reached)) \/ (\E retryable : ClassifierFails(retryable))
           \/ AbandonScreening
  PROVE  ScreenInv'
  <1>1. /\ pc = "classify" /\ req' = req /\ text' = text
        /\ \E came : calls' = Append(calls, ClassifierCall(came))
    BY DEF ClassifierScores, ClassifierFails, AbandonScreening, Dropped, ClassifierCall
  <1>2. \A p \in Enforced(req) : p \in screens \ {Current} \/ Clear(p)
    BY <1>1 DEF ScreenInv
  <1>3. PICK came : calls' = Append(calls, ClassifierCall(came))
    BY <1>1
  <1> DEFINE c == ClassifierCall(came)
  <1>4. Safe(c) /\ c.lane = "guard"
    <2>1. Current \in Enforced(req) => Clear(Current)
      BY <1>2
    <2> QED BY <1>1, <2>1, ClassifierCallIsSafe, OwedByLane DEF ClassifierCall
  <1> HIDE DEF c
  <1>5. IsList(rows) /\ (\A r \in Range(rows) : r.status # "blocked") /\ IsList(calls)
    BY <1>1 DEF RequestInv, ScreenInv
  <1>6. (\A d \in Range(calls') : d.lane = "guard") /\ calls' = Append(calls, c)
    <2>1. Range(Append(calls, c)) = Range(calls) \cup {c}
      BY <1>5, AppendAny
    <2>2. \A d \in Range(calls) : d.lane = "guard"
      BY <1>1 DEF ScreenInv
    <2>3. calls' = Append(calls, c)
      BY <1>3 DEF c
    <2> QED BY <1>4, <2>1, <2>2, <2>3
  <1>7. \A d \in Range(calls') : Safe(d)'
    BY <1>1, <1>4, <1>6, CallsStaySafe DEF ScreenInv
  <1> USE DEF Later, ChatPcs, GeminiPcs
  <1>8. ASSUME pc' = "screen", screens' = screens \ {Current},
               \A r \in Range(rows') : r.status # "blocked"
        PROVE  ScreenInv'
    <2>1. \A p \in Enforced(req)' : p \in screens' \/ Clear(p)'
      BY <1>1, <1>2, <1>8, PolicyDone
    <2> QED BY <1>6, <1>7, <1>8, <2>1 DEF ScreenInv
  <1>9. ASSUME pc' = "done", reply'.status \in RefusedBy,
               BlockedIn(rows') = IF reply'.status = "content_blocked" THEN 1 ELSE 0
        PROVE  ScreenInv'
    <2>1. Refused'
      BY <1>6, <1>9 DEF Refused
    <2> QED BY <1>7, <1>9, <2>1 DEF ScreenInv
  <1>10. ASSUME NEW reached, ClassifierScores(reached) PROVE ScreenInv'
    <2> DEFINE row == ClassifierRow(IF ScoresBlock(Policy, reached) THEN "blocked" ELSE "ok")
    <2>1. row.status = IF ScoresBlock(Policy, reached) THEN "blocked" ELSE "ok"
      BY DEF ClassifierRow, Row
    <2>2. rows' = Append(rows, row)
      BY <1>10 DEF ClassifierScores
    <2> HIDE DEF row
    <2>3. CASE ScoresBlock(Policy, reached)
      <3>1. BlockedIn(rows') = 1
        BY <1>5, <2>1, <2>2, <2>3, BlockedRows
      <3>2. pc' = "done" /\ reply'.status = "content_blocked"
        BY <1>10, <2>3 DEF ClassifierScores, EndWith
      <3> QED BY <1>9, <3>1, <3>2 DEF RefusedBy
    <2>4. CASE ~ ScoresBlock(Policy, reached)
      <3>1. Range(Append(rows, row)) = Range(rows) \cup {row}
        BY <1>5, AppendAny
      <3>2. \A r \in Range(rows') : r.status # "blocked"
        BY <1>5, <2>1, <2>2, <2>4, <3>1
      <3> QED BY <1>8, <1>10, <2>4, <3>2 DEF ClassifierScores
    <2> QED BY <2>3, <2>4
  <1>11. ASSUME NEW retryable, ClassifierFails(retryable) PROVE ScreenInv'
    <2>1. rows' = rows /\ BlockedIn(rows) = 0
      BY <1>5, <1>11, BlockedRows DEF ClassifierFails
    <2>2. CASE UNCHANGED <<pc, screens>>
      <3>1. Enforced(req)' = Enforced(req) /\ Current' = Current
        BY <1>1, <2>2, SameRules DEF Current, Position, FirstOf
      <3>2. ASSUME NEW p, Clear(p) PROVE Clear(p)'
        <4>1. Wanting(p, "mask")' = Wanting(p, "mask") /\ Wanting(p, "block")' = Wanting(p, "block")
          BY DEF Wanting
        <4> QED BY <1>1, <3>2, <4>1 DEF Clear
      <3>3. \A p \in Enforced(req)' : p \in screens' \ {Current'} \/ Clear(p)'
        BY <1>2, <2>2, <3>1, <3>2
      <3> QED BY <1>1, <1>5, <1>6, <1>7, <2>1, <2>2, <3>3 DEF ScreenInv
    <2>3. CASE GaveUp
      <3>1. \/ pc' = "done" /\ reply'.status = "guard_unavailable"
            \/ pc' = "screen" /\ screens' = screens \ {Current}
        BY <2>3 DEF GaveUp, EndWith
      <3> QED BY <1>5, <1>8, <1>9, <2>1, <3>1 DEF RefusedBy
    <2> QED BY <1>11, <2>2, <2>3 DEF ClassifierFails
  <1>12. CASE AbandonScreening
    <2>1. pc' = "done" /\ reply'.status = "left"
      BY <1>12 DEF AbandonScreening, Dropped, EndWith
    <2> QED BY <1>7, <2>1 DEF ScreenInv, RefusedBy
  <1> QED BY <1>10, <1>11, <1>12

\* After screening, nobody is called but with a body that is clear, and nobody is
\* refused any more.
LEMMA LaterIsSafe ==
  ASSUME RequestInv, ScreenInv, LaterStep, gw' = gw
  PROVE  ScreenInv'
  <1> USE DEF Later, ChatPcs, GeminiPcs
  <1>1. /\ req' = req /\ text' = text /\ screens' = {} /\ screens = {}
        /\ pc' \in Later \cup {"done"} /\ (pc' = "done" => reply'.status \notin RefusedBy)
    BY DEF LaterStep
  <1>2. \A p \in Enforced(req) : Clear(p)
    BY DEF LaterStep, RequestInv, ScreenInv
  <1>3. calls' = calls \/ \E c : calls' = Append(calls, c) /\ Safe(c)
    <2>1. \/ calls' = calls
          \/ \E c : calls' = Append(calls, c) /\ c.lane # "guard" /\ c.text \in {text, <<>>}
      BY DEF LaterStep, Charges, EmbeddingRow
    <2> QED BY <1>2, <2>1, ClearCallIsSafe
  <1>4. \A c \in Range(calls') : Safe(c)'
    BY <1>1, <1>3, CallsStaySafe DEF ScreenInv
  <1>5. \A p \in Enforced(req)' : Clear(p)'
    <2>1. Enforced(req)' = Enforced(req)
      BY <1>1, SameRules
    <2>2. ASSUME NEW p, Clear(p) PROVE Clear(p)'
      <3>1. Wanting(p, "mask")' = Wanting(p, "mask") /\ Wanting(p, "block")' = Wanting(p, "block")
        BY DEF Wanting
      <3> QED BY <1>1, <2>2, <3>1 DEF Clear
    <2> QED BY <1>2, <2>1, <2>2
  <1> QED BY <1>1, <1>4, <1>5 DEF ScreenInv

\* While a request is screened every enforced policy is either still to come or
\* finds nothing more to do.
LEMMA ScreenInvariant == Spec => []ScreenInv
  <1>1. Init => ScreenInv
    BY NoElement DEF Init, NoRequest, ScreenInv, Later, ChatPcs, GeminiPcs
  <1>2. RequestInv /\ ScreenInv /\ [Next]_vars => ScreenInv'
    <2> SUFFICES ASSUME RequestInv, ScreenInv, [Next]_vars
                 PROVE  ScreenInv'
      OBVIOUS
    <2> USE DEF Later, ChatPcs, GeminiPcs
    <2>1. ASSUME UNCHANGED requestVars, gw' = gw PROVE ScreenInv'
      <3>1. req' = req /\ text' = text /\ screens' = screens /\ pc' = pc /\ calls' = calls
              /\ rows' = rows /\ reply' = reply
        BY <2>1 DEF requestVars
      <3>2. Enforced(req)' = Enforced(req) /\ (\A c \in Range(calls') : Safe(c)')
        BY <2>1, <3>1, SameRules DEF ScreenInv
      <3>3. ASSUME NEW p, Clear(p) PROVE Clear(p)'
        <4>1. Wanting(p, "mask")' = Wanting(p, "mask") /\ Wanting(p, "block")' = Wanting(p, "block")
          BY <2>1 DEF Wanting
        <4> QED BY <3>1, <3>3, <4>1 DEF Clear
      <3>4. Current' = Current
        BY <3>1 DEF Current, Position, FirstOf
      <3>5. Refused => Refused'
        BY <3>1 DEF Refused
      <3> QED BY <3>1, <3>2, <3>3, <3>4, <3>5 DEF ScreenInv
    <2>2. CASE UNCHANGED requestVars /\ pc = "idle"
      <3>1. pc' = "idle" /\ calls' = <<>>
        BY <2>2 DEF requestVars, RequestInv
      <3> QED BY <3>1, NoElement DEF ScreenInv
    <2>3. CASE Arrived /\ UNCHANGED <<gw, phase, load>>
      <3>1. PICK r \in Loads[load].requests, error \in {None, "unknown_model", "bad_request"} :
              \E policies : Begin(r, error, policies) /\ (error = None => Enforced(r) \subseteq policies)
        BY <2>3 DEF Arrived
      <3>2. req' = r /\ calls' = <<>> /\ rows' = <<>>
        BY <3>1 DEF Begin, RequestInv
      <3>3. Enforced(req)' = Enforced(r)
        BY <2>3, <3>2 DEF Enforced, NamedBy, PolicyOf
      <3>4. \/ pc' = "screen" /\ Enforced(r) \subseteq screens'
            \/ pc' = "done" /\ reply'.status \in {"unknown_model", "bad_request"}
        BY <3>1 DEF Begin, EndWith
      <3> QED BY <3>2, <3>3, <3>4, NoElement DEF ScreenInv, RefusedBy
    <2>4. CASE (Screening \/ AbandonScreening) /\ UNCHANGED <<gw, phase, load>>
      BY <2>4, UndefinedIsScreened, InputIsScreened, ClassifierScreens DEF Screening
    <2>5. CASE LaterStep /\ UNCHANGED <<gw, phase, load>>
      BY <2>5, LaterIsSafe
    <2>6. CASE Forget
      <3>1. pc' = "idle" /\ calls' = <<>>
        BY <2>6 DEF Forget
      <3> QED BY <3>1, NoElement DEF ScreenInv
    <2>7. CASE UNCHANGED vars
      BY <2>1, <2>7 DEF vars
    <2> QED BY <2>1, <2>2, <2>3, <2>4, <2>5, <2>6, <2>7, RequestSteps
  <1> QED BY <1>1, <1>2, RequestInvariant, PTL DEF Spec

\* No upstream sees, in a place that is screened, what an enforced policy of the
\* request masks, and no classifier what its own policy masks.
THEOREM MaskingHolds == Spec => []MaskedTextOnly
  <1>1. ScreenInv => MaskedTextOnly
    BY DEF ScreenInv, Safe, MaskedTextOnly
  <1> QED BY <1>1, ScreenInvariant, PTL

\* No upstream sees what an enforced policy of the request blocks; a request that is
\* refused has called nobody but classifiers, and one row says it was blocked unless
\* no classifier could be reached.
THEOREM BlockingHolds == Spec => []BlockedReachesNobody
  <1>1. ScreenInv => BlockedReachesNobody
    BY DEF ScreenInv, Safe, Refused, RefusedBy, BlockedIn, BlockedReachesNobody
  <1> QED BY <1>1, ScreenInvariant, PTL

-----------------------------------------------------------------------------
(* What the ledger is told *)

Ops  == [i \in DOMAIN rows |-> rows[i].op]
Dues == [i \in DOMAIN calls |-> Owed(calls[i])]
Embeddings == IF pc = "done" /\ req.kind = "embed" /\ reply.status = "ok" THEN 1 ELSE 0

\* At every moment there is one row for each call that owes it, and none else but
\* the embedding's.
RowsInv ==
  pc # "idle" =>
    /\ \A op \in Metered : Count(Ops, op) = Count(Dues, op)
    /\ Count(Ops, "embedding") = Embeddings
    /\ \A op \in Metered \cup {"embedding"} : Count(Ops, op) \in Nat /\ Count(Dues, op) \in Nat

\* One more row is one more of its operation.
LEMMA OneMoreRow ==
  ASSUME IsList(rows), NEW r, rows' = Append(rows, r), NEW op
  PROVE  Count(Ops', op) = Count(Ops, op) + (IF r.op = op THEN 1 ELSE 0)
  <1>1. /\ Len(rows) \in Nat /\ DOMAIN rows = 1..Len(rows) /\ DOMAIN rows' = 1..(Len(rows) + 1)
        /\ \A i \in 1..Len(rows) : rows'[i] = rows[i]
        /\ rows'[Len(rows) + 1] = r
    <2>1. /\ Len(rows) \in Nat /\ DOMAIN rows = 1..Len(rows)
          /\ DOMAIN Append(rows, r) = 1..(Len(rows) + 1)
          /\ \A i \in 1..Len(rows) : Append(rows, r)[i] = rows[i]
          /\ Append(rows, r)[Len(rows) + 1] = r
      BY AppendAny
    <2> QED BY <2>1
  <1>2. /\ DOMAIN Ops = 1..Len(rows) /\ DOMAIN Ops' = 1..(Len(rows) + 1)
        /\ \A i \in 1..Len(rows) : Ops'[i] = Ops[i]
        /\ Ops'[Len(rows) + 1] = r.op
    BY <1>1 DEF Ops
  <1>3. Count(Ops', op) = Count(Ops, op) + (IF Ops'[Len(rows) + 1] = op THEN 1 ELSE 0)
    BY <1>1, <1>2, CountGrows
  <1> QED BY <1>2, <1>3

\* One more call is one more of the row it owes.
LEMMA OneMoreCall ==
  ASSUME IsList(calls), NEW c, calls' = Append(calls, c), req' = req, NEW op
  PROVE  Count(Dues', op) = Count(Dues, op) + (IF Owed(c) = op THEN 1 ELSE 0)
  <1>1. /\ Len(calls) \in Nat /\ DOMAIN calls = 1..Len(calls) /\ DOMAIN calls' = 1..(Len(calls) + 1)
        /\ \A i \in 1..Len(calls) : calls'[i] = calls[i]
        /\ calls'[Len(calls) + 1] = c
    <2>1. /\ Len(calls) \in Nat /\ DOMAIN calls = 1..Len(calls)
          /\ DOMAIN Append(calls, c) = 1..(Len(calls) + 1)
          /\ \A i \in 1..Len(calls) : Append(calls, c)[i] = calls[i]
          /\ Append(calls, c)[Len(calls) + 1] = c
      BY AppendAny
    <2> QED BY <2>1
  <1>2. /\ DOMAIN Dues = 1..Len(calls) /\ DOMAIN Dues' = 1..(Len(calls) + 1)
        /\ \A i \in 1..Len(calls) : Dues[i] = Owed(calls[i])
        /\ \A i \in 1..(Len(calls) + 1) : Dues'[i] = Owed(calls'[i])
    <2>1. \A i : Owed(calls[i])' = Owed(calls'[i])
      BY DEF Owed
    <2> QED BY <1>1, <2>1 DEF Dues
  <1>3. /\ \A i \in 1..Len(calls) : Dues'[i] = Dues[i]
        /\ Dues'[Len(calls) + 1] = Owed(c)
    BY <1>1, <1>2
  <1>4. Count(Dues', op) = Count(Dues, op) + (IF Dues'[Len(calls) + 1] = op THEN 1 ELSE 0)
    BY <1>1, <1>2, <1>3, CountGrows
  <1> QED BY <1>3, <1>4

\* What a step charges keeps the accounts balanced.
LEMMA ChargesBalance ==
  ASSUME RequestInv, RowsInv, pc \notin {"idle", "done"}, req' = req,
         \/ UNCHANGED <<calls, rows>> /\ Embeddings' = 0
         \/ EmbeddingRow /\ Embeddings' = 1
         \/ /\ UNCHANGED calls /\ Embeddings' = 0
            /\ \E r : rows' = Append(rows, r) /\ r.op = "guard_input"
         \/ /\ Embeddings' = 0
            /\ \E c : /\ calls' = Append(calls, c)
                     /\ \/ rows' = rows /\ Owed(c) \notin Metered
                        \/ \E r : rows' = Append(rows, r) /\ r.op = Owed(c) /\ r.op \in Metered
  PROVE  RowsInv'
  <1> USE DEF Metered
  <1>1. IsList(calls) /\ IsList(rows)
    BY DEF RequestInv
  <1>2. /\ \A op \in Metered : Count(Ops, op) = Count(Dues, op)
        /\ Count(Ops, "embedding") = 0
        /\ \A op \in Metered \cup {"embedding"} : Count(Ops, op) \in Nat /\ Count(Dues, op) \in Nat
    BY DEF RowsInv, Embeddings
  <1>3. UNCHANGED rows => Ops' = Ops
    BY DEF Ops
  <1>4. UNCHANGED calls => Dues' = Dues
    BY DEF Dues, Owed
  <1>5. ASSUME \A op \in Metered : /\ Count(Ops', op) = Count(Dues', op)
                                    /\ Count(Ops', op) \in Nat
               , Count(Ops', "embedding") = Embeddings', Count(Ops', "embedding") \in Nat,
               Count(Dues', "embedding") \in Nat
        PROVE  RowsInv'
    BY <1>5 DEF RowsInv
  <1>6. CASE UNCHANGED <<calls, rows>> /\ Embeddings' = 0
    BY <1>2, <1>3, <1>4, <1>5, <1>6
  <1>7. CASE EmbeddingRow /\ Embeddings' = 1
    <2>1. PICK r : rows' = Append(rows, r) /\ r.op = "embedding"
      BY <1>7 DEF EmbeddingRow
    <2>2. \A op : Count(Ops', op) = Count(Ops, op) + (IF r.op = op THEN 1 ELSE 0)
      BY <1>1, <2>1, OneMoreRow
    <2>3. Dues' = Dues
      BY <1>4, <1>7 DEF EmbeddingRow
    <2> QED BY <1>2, <1>5, <1>7, <2>1, <2>2, <2>3
  <1>8. ASSUME UNCHANGED calls, Embeddings' = 0,
               NEW r, rows' = Append(rows, r), r.op = "guard_input"
        PROVE  RowsInv'
    <2>1. \A op : Count(Ops', op) = Count(Ops, op) + (IF r.op = op THEN 1 ELSE 0)
      BY <1>1, <1>8, OneMoreRow
    <2> QED BY <1>2, <1>4, <1>5, <1>8, <2>1
  <1>9. ASSUME Embeddings' = 0, NEW c, calls' = Append(calls, c),
               \/ rows' = rows /\ Owed(c) \notin Metered
               \/ \E r : rows' = Append(rows, r) /\ r.op = Owed(c) /\ r.op \in Metered
        PROVE  RowsInv'
    <2>1. \A op : Count(Dues', op) = Count(Dues, op) + (IF Owed(c) = op THEN 1 ELSE 0)
      BY <1>1, <1>9, OneMoreCall
    <2>2. CASE rows' = rows /\ Owed(c) \notin Metered
      <3>1. Ops' = Ops
        BY <1>3, <2>2
      <3>2. \A op \in Metered : Count(Dues', op) = Count(Dues, op) + 0 /\ Count(Dues, op) \in Nat
        BY <1>2, <2>1, <2>2
      <3>3. Count(Dues', "embedding") \in Nat
        BY <1>2, <2>1
      <3>4. \A op \in Metered : Count(Ops', op) = Count(Dues', op) /\ Count(Ops', op) \in Nat
        BY <1>2, <3>1, <3>2
      <3> QED BY <1>2, <1>5, <1>9, <3>1, <3>3, <3>4
    <2>3. ASSUME NEW r, rows' = Append(rows, r), r.op = Owed(c), r.op \in Metered
          PROVE  RowsInv'
      <3>1. \A op : Count(Ops', op) = Count(Ops, op) + (IF r.op = op THEN 1 ELSE 0)
        BY <1>1, <2>3, OneMoreRow
      <3>2. \A op \in Metered : Count(Ops', op) = Count(Dues', op) /\ Count(Ops', op) \in Nat
        <4> TAKE op \in Metered
        <4>1. Count(Ops, op) = Count(Dues, op) /\ Count(Ops, op) \in Nat
          BY <1>2
        <4>2. r.op = Owed(c)
          BY <2>3
        <4> QED BY <2>1, <3>1, <4>1, <4>2
      <3>3. Count(Ops', "embedding") = 0 /\ Count(Dues', "embedding") \in Nat
        <4>1. r.op # "embedding"
          BY <2>3
        <4> QED BY <1>2, <2>1, <3>1, <4>1
      <3> QED BY <1>5, <1>9, <3>2, <3>3
    <2> QED BY <1>9, <2>2, <2>3
  <1> QED BY <1>6, <1>7, <1>8, <1>9

\* The rows written so far account for the calls that are over.
LEMMA RowsInvariant == Spec => []RowsInv
  <1>1. Init => RowsInv
    BY DEF Init, NoRequest, RowsInv
  <1>2. RequestInv /\ RowsInv /\ [Next]_vars => RowsInv'
    <2> SUFFICES ASSUME RequestInv, RowsInv, [Next]_vars
                 PROVE  RowsInv'
      OBVIOUS
    <2>1. CASE UNCHANGED requestVars
      <3>1. Ops' = Ops /\ Dues' = Dues /\ Embeddings' = Embeddings /\ pc' = pc
        BY <2>1 DEF requestVars, Ops, Dues, Owed, Embeddings
      <3> QED BY <3>1 DEF RowsInv
    <2>2. CASE Arrived
      <3>1. PICK r \in Loads[load].requests, error \in {None, "unknown_model", "bad_request"} :
              \E policies : Begin(r, error, policies)
        BY <2>2 DEF Arrived
      <3>2. /\ calls' = <<>> /\ rows' = <<>>
            /\ \/ pc' = "screen"
               \/ pc' = "done" /\ reply'.status \in {"unknown_model", "bad_request"}
        BY <3>1 DEF Begin, EndWith, RequestInv
      <3>3. Embeddings' = 0
        BY <3>2 DEF Embeddings
      <3>4. \A op : {i \in DOMAIN Ops' : Ops'[i] = op} = {} /\ {i \in DOMAIN Dues' : Dues'[i] = op} = {}
        BY <3>2 DEF Ops, Dues
      <3>5. \A op : Count(Ops', op) = 0 /\ Count(Dues', op) = 0
        BY <3>4, FS_EmptySet DEF Count
      <3> QED BY <3>3, <3>5 DEF RowsInv
    <2>3. CASE pc \in {"screen", "classify"} /\ ScreeningStep
      <3>1. Embeddings' = 0
        BY <2>3 DEF ScreeningStep, Embeddings, RefusedBy
      <3> QED BY <2>3, <3>1, ChargesBalance DEF ScreeningStep, ScreenCharges
    <2>4. CASE LaterStep
      <3>1. req' = req /\ pc \notin {"idle", "done"} /\ Charges
        BY <2>4 DEF LaterStep
      <3>2. CASE req.kind = "embed" /\ pc' = "done" /\ reply'.status = "ok"
        <4>1. Embeddings' = 1
          BY <3>1, <3>2 DEF Embeddings
        <4>2. EmbeddingRow
          BY <2>4, <3>2 DEF LaterStep
        <4> QED BY <3>1, <4>1, <4>2, ChargesBalance
      <3>3. CASE ~ (req.kind = "embed" /\ pc' = "done" /\ reply'.status = "ok")
        <4>1. Embeddings' = 0
          BY <3>1, <3>3 DEF Embeddings
        <4> QED BY <3>1, <3>3, <4>1, ChargesBalance DEF Charges
      <3> QED BY <3>2, <3>3
    <2>5. CASE Forget
      BY <2>5 DEF Forget, RowsInv
    <2>6. UNCHANGED vars => UNCHANGED requestVars
      BY DEF vars
    <2> QED BY <2>1, <2>2, <2>3, <2>4, <2>5, <2>6, RequestSteps
  <1> QED BY <1>1, <1>2, RequestInvariant, PTL DEF Spec

\* The rows of a request that is over are those its calls owe, whatever it called and
\* whoever broke off when, and an embedding's one row.
THEOREM RowsMatchCalls == Spec => []RowsAccountForCalls
  <1>1. RequestInv /\ RowsInv => RowsAccountForCalls
    <2> SUFFICES ASSUME RequestInv, RowsInv, pc = "done"
                 PROVE  RowsAccountForCalls
      BY DEF RowsAccountForCalls
    <2>1. ASSUME NEW op
          PROVE  /\ {i \in DOMAIN rows : rows[i].op = op} = {i \in DOMAIN Ops : Ops[i] = op}
                 /\ {i \in DOMAIN calls : Owed(calls[i]) = op} = {i \in DOMAIN Dues : Dues[i] = op}
      BY DEF Ops, Dues
    <2> QED BY <2>1 DEF RowsInv, RowsAccountForCalls, Count, Metered, Embeddings
  <1> QED BY <1>1, RequestInvariant, RowsInvariant, PTL

-----------------------------------------------------------------------------
(* Which vector an input gets *)

\* The numbers of an interval in their order are the interval.
LEMMA SortedInterval ==
  ASSUME NEW a \in Nat, NEW n \in Nat,
         NEW s \in [1..n -> a..(a + n - 1)], \A i, j \in 1..n : i < j => s[i] < s[j]
  PROVE  \A i \in 1..n : s[i] = a + i - 1
  <1> DEFINE Low  == {i \in 1..n : ~ (s[i] >= a + i - 1)}
             High == {k \in 0..(n - 1) : ~ (s[n - k] <= a + (n - k) - 1)}
  <1>1. \A i \in 1..n : s[i] \in Nat /\ s[i] >= a /\ s[i] <= a + n - 1
    OBVIOUS
  <1>2. Low = {}
    <2> SUFFICES ASSUME Low # {} PROVE FALSE
      OBVIOUS
    <2>1. PICK i \in Low : \A k \in Low : i <= k
      <3>1. Low \subseteq Nat
        OBVIOUS
      <3> HIDE DEF Low
      <3> QED BY <3>1, LeastOf
    <2>2. i \in 1..n /\ ~ (s[i] >= a + i - 1) /\ i # 1
      BY <1>1
    <2>3. i - 1 \in 1..n /\ i - 1 < i /\ i - 1 \notin Low
      BY <2>1, <2>2
    <2>4. s[i - 1] >= a + (i - 1) - 1 /\ s[i - 1] < s[i]
      BY <2>2, <2>3
    <2>5. s[i] \in Nat /\ s[i - 1] \in Nat
      BY <1>1, <2>2, <2>3
    <2> QED BY <2>2, <2>4, <2>5
  <1>3. High = {}
    <2> SUFFICES ASSUME High # {} PROVE FALSE
      OBVIOUS
    <2>1. PICK k \in High : \A m \in High : k <= m
      <3>1. High \subseteq Nat
        OBVIOUS
      <3> HIDE DEF High
      <3> QED BY <3>1, LeastOf
    <2>2. k \in 0..(n - 1) /\ ~ (s[n - k] <= a + (n - k) - 1) /\ k # 0
      <3>1. k \in 0..(n - 1) /\ ~ (s[n - k] <= a + (n - k) - 1) /\ n - k \in 1..n
        OBVIOUS
      <3>2. CASE k = 0
        <4>1. n - k = n /\ n \in 1..n
          BY <3>1, <3>2
        <4>2. s[n] <= a + n - 1
          BY <1>1, <4>1
        <4> QED BY <3>1, <4>1, <4>2
      <3> QED BY <3>1, <3>2
    <2>3. k - 1 \in 0..(n - 1) /\ k - 1 < k /\ k - 1 \notin High
      <3>1. k - 1 \in 0..(n - 1) /\ k - 1 < k /\ ~ (k <= k - 1)
        BY <2>2
      <3> HIDE DEF High
      <3> QED BY <2>1, <3>1
    <2>4. n - k \in 1..n /\ n - (k - 1) \in 1..n /\ n - k < n - (k - 1)
      BY <2>2, <2>3
    <2>5. s[n - (k - 1)] <= a + (n - (k - 1)) - 1 /\ s[n - k] < s[n - (k - 1)]
      BY <2>3, <2>4
    <2>6. s[n - k] \in Nat /\ s[n - (k - 1)] \in Nat
      BY <1>1, <2>4
    <2> QED BY <2>2, <2>4, <2>5, <2>6
  <1>4. ASSUME NEW i \in 1..n PROVE s[i] = a + i - 1
    <2>1. s[i] >= a + i - 1
      BY <1>2
    <2>2. n - i \in 0..(n - 1) /\ n - (n - i) = i
      OBVIOUS
    <2>3. s[i] <= a + i - 1
      BY <1>3, <2>2
    <2> QED BY <1>1, <2>1, <2>3
  <1> QED BY <1>4

\* An answer that leaves no input of the batch out has them all in order.
LEMMA WholeAnswer ==
  ASSUME NEW a \in Nat, NEW b \in Nat, a <= b, NEW vectors \in LegAnswersFor(a..b),
         Range(vectors) = a..b
  PROVE  /\ IsList(vectors) /\ Len(vectors) = b - a + 1
         /\ \A i \in 1..(b - a + 1) : vectors[i] = a + i - 1
  <1> DEFINE n == b - a + 1
  <1>1. PICK kept \in SUBSET (a..b) : vectors \in Sorted(kept)
    <2>1. ASSUME NEW kept \in Some(a..b) PROVE kept \subseteq a..b
      BY DEF Some
    <2>2. CASE vectors \in VertexAnswers(a..b)
      BY <2>1, <2>2 DEF VertexAnswers
    <2>3. CASE vectors \in OpenAiAnswers(a..b)
      <3>0. PICK kept \in Some(a..b) : \E data \in SetToSeqs(kept) : vectors \in Sorted(Range(data))
        BY <2>3 DEF OpenAiAnswers
      <3>1. PICK data \in SetToSeqs(kept) : vectors \in Sorted(Range(data))
        BY <3>0
      <3>2. Range(data) \subseteq kept
        BY <3>1 DEF SetToSeqs, Range
      <3> QED BY <2>1, <3>1, <3>2
    <2> QED BY <2>2, <2>3 DEF LegAnswersFor
  <1>2. kept = a..b
    <2>1. Range(vectors) \subseteq kept
      BY <1>1 DEF Sorted, Range
    <2> QED BY <2>1
  <1>3. Cardinality(a..b) = n /\ n \in Nat
    <2>1. Cardinality(a..b) = IF a > b THEN 0 ELSE b - a + 1
      BY FS_Interval
    <2> QED BY <2>1
  <1>4. vectors \in [1..n -> a..b] /\ \A i, j \in 1..n : i < j => vectors[i] < vectors[j]
    BY <1>1, <1>2, <1>3 DEF Sorted
  <1>5. b = a + n - 1
    OBVIOUS
  <1> HIDE DEF n
  <1>6. \A i \in 1..n : vectors[i] = a + i - 1
    <2>1. vectors \in [1..n -> a..(a + n - 1)]
      BY <1>4, <1>5
    <2> QED BY <1>3, <1>4, <2>1, SortedInterval
  <1>7. vectors = [i \in 1..n |-> vectors[i]]
    BY <1>4
  <1>8. IsList(vectors) /\ Len(vectors) = n
    BY <1>3, <1>7, ListOf
  <1> QED BY <1>6, <1>8 DEF n

\* The first n inputs, each by its own vector.
InTheirOrder(vectors, n) == IsList(vectors) /\ Len(vectors) = n /\ \A i \in 1..n : vectors[i] = i

\* Vectors of the first inputs and those of the next batch.
LEMMA NextBatch ==
  ASSUME NEW vectors, NEW a \in Nat, a >= 1, NEW b \in Nat, a <= b, InTheirOrder(vectors, a - 1),
         NEW more \in LegAnswersFor(a..b), Range(more) = a..b
  PROVE  InTheirOrder(vectors \o more, b)
  <1>1. /\ IsList(more) /\ Len(more) = b - a + 1
        /\ \A i \in 1..(b - a + 1) : more[i] = a + i - 1
    BY WholeAnswer
  <1>2. IsList(vectors) /\ Len(vectors) = a - 1 /\ \A i \in 1..(a - 1) : vectors[i] = i
    BY DEF InTheirOrder
  <1>3. /\ IsList(vectors \o more) /\ Len(vectors \o more) = Len(vectors) + Len(more)
        /\ \A i \in 1..Len(vectors) : (vectors \o more)[i] = vectors[i]
        /\ \A i \in 1..Len(more) : (vectors \o more)[Len(vectors) + i] = more[i]
    BY <1>1, <1>2, PutTogether
  <1> DEFINE all == vectors \o more
  <1> HIDE DEF all
  <1>4. ASSUME NEW i \in 1..b PROVE all[i] = i
    <2>1. CASE i <= a - 1
      BY <1>2, <1>3, <2>1 DEF all
    <2>2. CASE ~ (i <= a - 1)
      <3>1. i - (a - 1) \in 1..(b - a + 1) /\ (a - 1) + (i - (a - 1)) = i
        BY <2>2
      <3>2. all[i] = more[i - (a - 1)]
        BY <1>1, <1>2, <1>3, <3>1 DEF all
      <3>3. more[i - (a - 1)] = a + (i - (a - 1)) - 1
        BY <1>1, <3>1
      <3> QED BY <3>1, <3>2, <3>3
    <2> QED BY <2>1, <2>2
  <1>5. IsList(all) /\ Len(all) = b
    BY <1>1, <1>2, <1>3 DEF all
  <1> QED BY <1>4, <1>5 DEF InTheirOrder, all

\* The reply's items of such vectors.
LEMMA ItemsFollow ==
  ASSUME NEW vectors, NEW n \in Nat, InTheirOrder(vectors, n)
  PROVE  /\ Cardinality(BuildResponse(vectors)) = n
         /\ \A d \in BuildResponse(vectors) : d.embedding = d.index + 1
  <1> DEFINE Item(i) == [index |-> i - 1, embedding |-> i]
             items == {Item(i) : i \in 1..n}
  <1>1. DOMAIN vectors = 1..n /\ \A i \in 1..n : vectors[i] = i
    BY ListShape DEF InTheirOrder
  <1>2. BuildResponse(vectors) = items
    BY <1>1 DEF BuildResponse
  <1>3. \A d \in items : d.embedding = d.index + 1
    OBVIOUS
  <1>4. Cardinality(items) = n
    <2> DEFINE f == [i \in 1..n |-> Item(i)]
    <2>1. f \in Bijection(1..n, items)
      <3>1. \A i, j \in 1..n : Item(i) = Item(j) => i = j
        <4> TAKE i, j \in 1..n
        <4>1. Item(i).embedding = i /\ Item(j).embedding = j
          OBVIOUS
        <4> QED BY <4>1
      <3> HIDE DEF Item
      <3> QED BY <3>1 DEF Bijection, Injection, Surjection, IsInjective
    <2>2. IsFiniteSet(1..n) /\ Cardinality(1..n) = n
      <3>1. IsFiniteSet(1..n) /\ Cardinality(1..n) = IF 1 > n THEN 0 ELSE n - 1 + 1
        BY FS_Interval
      <3> QED BY <3>1
    <2> HIDE DEF f, items
    <2>3. ExistsBijection(1..n, items)
      BY <2>1 DEF ExistsBijection
    <2> QED BY <2>2, <2>3, FS_Bijection
  <1> QED BY <1>2, <1>3, <1>4

\* The last number of an interval is its end.
LEMMA LastOfInterval ==
  ASSUME NEW a \in Nat, NEW b \in Nat, a <= b
  PROVE  Max(a..b) = b
  <1>1. b \in a..b /\ \A y \in a..b : b >= y
    OBVIOUS
  <1>2. \A x \in a..b : (\A y \in a..b : x >= y) => x = b
    OBVIOUS
  <1> QED BY <1>1, <1>2 DEF Max

\* The smaller of two numbers is one of them.
LEMMA SmallerOfTwo ==
  ASSUME NEW a \in Nat, NEW b \in Nat
  PROVE  Min({a, b}) \in {a, b} /\ Min({a, b}) <= a /\ Min({a, b}) <= b
  <1>1. \E x \in {a, b} : \A y \in {a, b} : x =< y
    OBVIOUS
  <1>2. Min({a, b}) \in {a, b} /\ \A y \in {a, b} : Min({a, b}) =< y
    BY <1>1 DEF Min
  <1> QED BY <1>2

\* No call of the leg in use left an input out.
Whole == \A c \in Range(calls) : c.leg = Head(walk) => c.came # "short"

\* While a leg embeds, its vectors are those of the inputs it was sent so far.
EmbedInv ==
  /\ pc # "idle" => IsList(text) /\ Len(text) = Len(req.text)
  /\ pc = "embed" =>
       /\ work = [next |-> work.next, vectors |-> work.vectors]
       /\ work.next \in 1..(Len(text) + 1)
       /\ Whole => InTheirOrder(work.vectors, work.next - 1)
  /\ (pc = "done" /\ req.kind = "embed" /\ reply.status = "ok" /\ Whole) =>
       \E vectors : InTheirOrder(vectors, Len(req.text)) /\ work.data = BuildResponse(vectors)

\* The first of no vectors.
LEMMA NoVectors == InTheirOrder(<<>>, 0)
  BY NoElement, EmptySeq DEF InTheirOrder

\* A step of an embedding after screening.
LEMMA EmbedWorks ==
  ASSUME RequestInv, EmbedInv, req.kind = "embed", EmbedWork \/ AbandonEmbed
  PROVE  EmbedInv'
  <1>1. IsList(text) /\ Len(text) = Len(req.text) /\ pc # "idle" /\ Len(text) \in Nat
    <2>1. pc # "idle"
      BY DEF EmbedWork, EmbedStarts, Screened, BatchEmbeds, Embedded, BatchFails, NobodyEmbeds,
             AbandonEmbed, Sending
    <2>2. IsList(text) /\ Len(text) = Len(req.text)
      BY <2>1 DEF EmbedInv
    <2> QED BY <2>1, <2>2, ListShape
  <1>2. /\ UNCHANGED <<req, text>>
        /\ pc' \in {"embed", "done"}
    BY DEF EmbedWork, EmbedStarts, BatchEmbeds, Embedded, BatchFails, NobodyEmbeds,
           AbandonEmbed, Sending, Dropped, AnswerWith, EndWith
  <1>3. ASSUME pc' = "embed", work' = FromTheFirst PROVE EmbedInv'
    <2>1. work'.next = 1 /\ work'.vectors = <<>> /\ work' = [next |-> work'.next, vectors |-> work'.vectors]
      BY <1>3 DEF FromTheFirst
    <2>2. work'.next \in 1..(Len(text) + 1) /\ work'.next - 1 = 0
      BY <1>1, <2>1
    <2> QED BY <1>1, <1>2, <1>3, <2>1, <2>2, NoVectors DEF EmbedInv
  <1>4. ASSUME pc' = "done", reply'.status # "ok" PROVE EmbedInv'
    BY <1>1, <1>2, <1>4 DEF EmbedInv
  <1>5. CASE EmbedStarts
    BY <1>3, <1>5 DEF EmbedStarts
  <1>6. CASE BatchFails
    BY <1>3, <1>6 DEF BatchFails, Sending
  <1>7. CASE NobodyEmbeds
    BY <1>4, <1>7 DEF NobodyEmbeds, EndWith
  <1>8. CASE AbandonEmbed
    BY <1>4, <1>8 DEF AbandonEmbed, Dropped, EndWith
  <1>9. CASE BatchEmbeds
    <2> DEFINE a == work.next
               b == Min({work.next + BatchLimit - 1, Len(text)})
    <2>1. pc = "embed" /\ pc' = "embed" /\ walk' = walk /\ a <= Len(text) /\ Batch = a..b
      BY <1>9 DEF BatchEmbeds, Sending, Batch
    <2>2. a \in 1..(Len(text) + 1) /\ (Whole => InTheirOrder(work.vectors, a - 1))
      BY <2>1 DEF EmbedInv
    <2>3. BatchLimit \in Nat /\ BatchLimit >= 1
      BY BatchesHoldSomething DEF BatchLimit
    <2>4. b \in Nat /\ a \in Nat /\ a >= 1 /\ a <= b /\ b <= Len(text)
      <3>1. work.next + BatchLimit - 1 \in Nat /\ work.next + BatchLimit - 1 >= a /\ a \in Nat
        BY <1>1, <2>2, <2>3
      <3> HIDE DEF b
      <3>2. b \in {work.next + BatchLimit - 1, Len(text)} /\ b <= Len(text)
        BY <1>1, <3>1, SmallerOfTwo DEF b
      <3> QED BY <1>1, <2>1, <2>2, <3>1, <3>2
    <2>5. PICK vectors \in LegAnswersFor(a..b) :
            /\ calls' = Append(calls, Call("embed", None, text, IF Range(vectors) = a..b THEN "ok" ELSE "short"))
            /\ work' = [next |-> Max(a..b) + 1, vectors |-> work.vectors \o vectors]
      BY <1>9, <2>1 DEF BatchEmbeds
    <2> HIDE DEF a, b
    <2>6. Max(a..b) = b
      BY <2>4, LastOfInterval
    <2>7. /\ work'.next = b + 1 /\ work'.vectors = work.vectors \o vectors
          /\ work' = [next |-> work'.next, vectors |-> work'.vectors]
      BY <2>5, <2>6
    <2>8. ASSUME Whole' PROVE InTheirOrder(work'.vectors, work'.next - 1)
      <3> DEFINE c == Call("embed", None, text, IF Range(vectors) = a..b THEN "ok" ELSE "short")
      <3>1. IsList(calls) /\ c.leg = Head(walk) /\ c.came = IF Range(vectors) = a..b THEN "ok" ELSE "short"
        BY DEF RequestInv, IsList, Call
      <3> HIDE DEF c
      <3>2. calls' = Append(calls, c)
        BY <2>5 DEF c
      <3>3. Range(calls') = Range(calls) \cup {c}
        BY <3>1, <3>2, AppendAny DEF IsList
      <3>4. Whole /\ c.came # "short"
        BY <2>1, <2>8, <3>1, <3>3 DEF Whole
      <3>5. InTheirOrder(work.vectors, a - 1) /\ Range(vectors) = a..b
        BY <2>2, <3>1, <3>4
      <3>6. InTheirOrder(work.vectors \o vectors, b)
        BY <2>4, <3>5, NextBatch
      <3>7. work'.next - 1 = b
        BY <2>4, <2>7
      <3> QED BY <2>7, <3>6, <3>7
    <2>9. work'.next \in 1..(Len(text) + 1)
      BY <1>1, <2>4, <2>7
    <2> QED BY <1>1, <1>2, <2>1, <2>7, <2>8, <2>9 DEF EmbedInv
  <1>10. CASE Embedded
    <2>1. /\ pc = "embed" /\ ~ (work.next <= Len(text)) /\ pc' = "done"
          /\ UNCHANGED <<calls, walk>> /\ work' = [data |-> BuildResponse(work.vectors)]
      BY <1>10 DEF Embedded, Sending, AnswerWith
    <2>2. work.next \in 1..(Len(text) + 1) /\ (Whole => InTheirOrder(work.vectors, work.next - 1))
      BY <2>1 DEF EmbedInv
    <2>3. work.next - 1 = Len(text)
      BY <1>1, <2>1, <2>2
    <2>4. Whole' => Whole
      BY <2>1 DEF Whole
    <2>5. work'.data = BuildResponse(work.vectors)
      BY <2>1
    <2>6. Whole' => InTheirOrder(work.vectors, Len(req.text))
      BY <1>1, <2>2, <2>3, <2>4
    <2> QED BY <1>1, <1>2, <2>1, <2>5, <2>6 DEF EmbedInv
  <1> QED BY <1>5, <1>6, <1>7, <1>8, <1>9, <1>10 DEF EmbedWork

\* What the other kinds of requests do is no step of an embedding.
LEMMA NoEmbedding ==
  ASSUME RequestInv,
         \/ ChatWork \/ JevFails \/ (\E answers \in Answers : JevAnswers(answers)) \/ AbandonChat
         \/ PassthroughWork \/ AbandonPassthrough
  PROVE  req.kind # "embed"
  <1>1. (pc \in ChatPcs => req.kind = "chat") /\ (pc \in GeminiPcs => req.kind = "gemini")
          /\ (pc = "evaluate" => req.kind = "systemone")
    BY DEF RequestInv, LaneFitsKind
  <1>2. CASE ChatWork \/ JevFails \/ (\E answers \in Answers : JevAnswers(answers)) \/ AbandonChat
    <2>1. req.kind = "chat" \/ pc \in ChatPcs
      BY <1>2 DEF ChatWork, JevFails, JevAnswers, JevTimesOut, Decided, PlanStatic, PlanTiered, Screened,
                  LegAnswers, Collected, LegFails, NoLegs, CollectBreaks, JevExhausted, JevLaneEnds,
                  JevLegDecides, JevLegFails, StreamEnds, AbandonChat, ChatPcs
    <2> QED BY <1>1, <2>1
  <1>3. CASE PassthroughWork \/ AbandonPassthrough
    <2>1. req.kind \in {"gemini", "systemone"} \/ pc \in GeminiPcs \cup {"evaluate"}
      BY <1>3 DEF PassthroughWork, GeminiStarts, LegUnreachable, LegAccepts, SystemOneStarts, LegRefuses,
                  SingleEnds, BodyEnds, SseEnds, Evaluated, AbandonPassthrough, Screened, GeminiPcs
    <2> QED BY <1>1, <2>1
  <1> QED BY <1>2, <1>3

\* An embedding's steps, apart from those of the other kinds.
LEMMA EmbeddingSteps ==
  ASSUME RequestInv, Next
  PROVE  \/ UNCHANGED requestVars
         \/ Arrived
         \/ (Screening \/ AbandonScreening) /\ ScreeningStep
         \/ req.kind = "embed" /\ (EmbedWork \/ AbandonEmbed)
         \/ req.kind # "embed" /\ LaterStep
         \/ Forget
  <1>1. CASE Launch \/ Seed \/ Listen \/ Crash \/ Agents \/ Time
    BY <1>1 DEF Launch, Seed, Listen, Crash, Agents, Time
  <1>2. CASE Arrive
    BY <1>2, Arriving
  <1>3. CASE Work \/ Decision \/ Abandon
    <2>1. \/ Screening \/ AbandonScreening
          \/ EmbedWork \/ AbandonEmbed
          \/ \/ ChatWork \/ JevFails \/ (\E answers \in Answers : JevAnswers(answers)) \/ AbandonChat
             \/ PassthroughWork \/ AbandonPassthrough
      BY <1>3 DEF Work, Decision, Abandon, Served
    <2>2. CASE EmbedWork \/ AbandonEmbed
      <3>1. req.kind = "embed" \/ pc = "embed"
        BY <2>2 DEF EmbedWork, EmbedStarts, Screened, BatchEmbeds, Embedded, BatchFails, NobodyEmbeds,
                    AbandonEmbed, Sending
      <3> QED BY <2>2, <3>1 DEF RequestInv, LaneFitsKind
    <2> QED BY <2>1, <2>2, NoEmbedding, ScreeningSteps, ChatSteps, PassthroughSteps
  <1> QED BY <1>1, <1>2, <1>3 DEF Next

\* Screening leaves a body its parts.
LEMMA PartsStay ==
  ASSUME IsList(text), Screening \/ AbandonScreening
  PROVE  IsList(text') /\ Len(text') = Len(text)
  <1>1. text' = text \/ \E left : text' = WrittenBack(req, text, left)
    BY DEF Screening, AbandonScreening, Dropped, ScreenUndefined, ScreenInput, ClassifierScores, ClassifierFails
  <1>2. DOMAIN text = 1..Len(text) /\ Len(text) \in Nat
    BY ListShape
  <1>3. ASSUME NEW left PROVE IsList(WrittenBack(req, text, left)) /\ Len(WrittenBack(req, text, left)) = Len(text)
    <2> DEFINE next == WrittenBack(req, text, left)
    <2>1. next = [i \in 1..Len(text) |-> next[i]]
      BY <1>2 DEF WrittenBack
    <2> HIDE DEF next
    <2>2. IsList(next) /\ Len(next) = Len(text)
      BY <1>2, <2>1, ListOf
    <2> QED BY <2>2 DEF next
  <1> QED BY <1>1, <1>3

\* A leg has the vectors of the inputs it was sent so far, in their order, and none
\* of the leg before it.
LEMMA EmbedInvariant == Spec => []EmbedInv
  <1>1. Init => EmbedInv
    BY DEF Init, NoRequest, EmbedInv
  <1>2. RequestInv /\ EmbedInv /\ [Next]_vars => EmbedInv'
    <2> SUFFICES ASSUME RequestInv, EmbedInv, [Next]_vars
                 PROVE  EmbedInv'
      OBVIOUS
    <2>1. ASSUME UNCHANGED requestVars PROVE EmbedInv'
      BY <2>1 DEF requestVars, EmbedInv, Whole
    <2>2. CASE Arrived
      <3>1. PICK r \in Loads[load].requests, error \in {None, "unknown_model", "bad_request"} :
              \E policies : Begin(r, error, policies)
        BY <2>2 DEF Arrived
      <3>2. r.text \in Seq([at : Places(r), shows : SUBSET STRING])
        BY LoadsAssumption DEF RequestInv
      <3>3. req' = r /\ text' = r.text
        BY <3>1 DEF Begin
      <3>4. IsList(r.text)
        <4>1. Len(r.text) \in Nat /\ r.text \in [1..Len(r.text) -> Range(r.text)]
          BY <3>2 DEF Range
        <4> QED BY <4>1 DEF IsList
      <3>5. pc' = "screen" \/ (pc' = "done" /\ reply'.status # "ok")
        BY <3>1 DEF Begin, EndWith
      <3> QED BY <3>3, <3>4, <3>5 DEF EmbedInv
    <2>3. CASE (Screening \/ AbandonScreening) /\ ScreeningStep
      <3>1. /\ req' = req /\ pc # "idle" /\ pc' \in {"screen", "classify", "done"}
            /\ pc' = "done" => reply'.status # "ok"
        BY <2>3 DEF ScreeningStep, RefusedBy
      <3>2. IsList(text') /\ Len(text') = Len(req.text)
        BY <2>3, <3>1, PartsStay DEF EmbedInv
      <3> QED BY <3>1, <3>2 DEF EmbedInv
    <2>4. CASE req.kind = "embed" /\ (EmbedWork \/ AbandonEmbed)
      BY <2>4, EmbedWorks
    <2>5. CASE req.kind # "embed" /\ LaterStep
      <3>1. req' = req /\ text' = text /\ pc # "idle" /\ pc' # "embed"
        BY <2>5 DEF LaterStep, LaneFitsKind
      <3> QED BY <2>5, <3>1 DEF EmbedInv
    <2>6. CASE Forget
      BY <2>6 DEF Forget, EmbedInv
    <2>7. CASE UNCHANGED vars
      BY <2>1, <2>7 DEF vars
    <2> QED BY <2>1, <2>2, <2>3, <2>4, <2>5, <2>6, <2>7, EmbeddingSteps
  <1> QED BY <1>1, <1>2, RequestInvariant, PTL DEF Spec

\* Unless the leg that served it left an input out, an embedding's item n is the
\* vector of input n, whatever legs failed before and whatever order answers came in.
THEOREM VectorsFollow == Spec => []VectorsFollowInputs
  <1>1. RequestInv /\ EmbedInv => VectorsFollowInputs
    <2> SUFFICES ASSUME EmbedInv, pc = "done", req.kind = "embed", reply.status = "ok", Whole
                 PROVE  Cardinality(work.data) = Len(req.text) /\ \A d \in work.data : d.embedding = d.index + 1
      BY DEF VectorsFollowInputs, Whole
    <2>1. PICK vectors : InTheirOrder(vectors, Len(req.text)) /\ work.data = BuildResponse(vectors)
      BY DEF EmbedInv
    <2>2. Len(req.text) \in Nat
      BY <2>1, ListShape DEF InTheirOrder
    <2> QED BY <2>1, <2>2, ItemsFollow
  <1> QED BY <1>1, RequestInvariant, EmbedInvariant, PTL

-----------------------------------------------------------------------------
(* Who owns an agent id *)

Agent == [by : STRING, left : Nat \cup {Forever}]
SeedAgent == [id : Ids, by : STRING, ttl : Nat \cup {Forever}]

\* The k-th card that came is the first for id i.
FirstCard(k, i) ==
  k \in 1..Len(fetched) /\ fetched[k].id = i /\ \A j \in 1..(k - 1) : fetched[j].id # i

\* While seeds are dealt with, the registry is what the cards that came make it.
RegistryInv ==
  /\ load \in DOMAIN Loads /\ phase \in {"down", "refused", "seeding", "up"}
  /\ agents \in [Ids -> Agent \cup {NoAgent}]
  /\ seeds \in Seq(SeedAgent) /\ fetched \in Seq(SeedAgent)
  /\ phase \in {"down", "refused"} => fetched = <<>> /\ \A i \in Ids : agents[i] = NoAgent
  /\ phase = "seeding" =>
       \A i \in Ids :
         \/ agents[i] = NoAgent /\ \A k \in 1..Len(fetched) : fetched[k].id # i
         \/ agents[i] # NoAgent /\ \E k \in 1..Len(fetched) : FirstCard(k, i) /\ agents[i].by = fetched[k].by

\* An agent that is there before and after a step is still its writer's.
WritersKept ==
  \A i \in Ids : (agents[i] # NoAgent /\ agents'[i] # NoAgent) => agents'[i].by = agents[i].by

\* Registering keeps whoever is there.
LEMMA RegisterKeeps ==
  ASSUME RegistryInv, NEW id \in Ids, NEW by \in STRING, NEW ttl \in Nat \cup {Forever},
         TryRegister(id, by, ttl)
  PROVE  /\ agents' \in [Ids -> Agent \cup {NoAgent}] /\ WritersKept
         /\ \A i \in Ids \ {id} : agents'[i] = agents[i]
         /\ agents[id] # NoAgent => agents'[id] = agents[id]
         /\ agents[id] = NoAgent => agents'[id] # NoAgent /\ agents'[id].by = by
  <1> DEFINE new == [by |-> by, left |-> ttl]
  <1>1. new \in Agent /\ new # NoAgent /\ new.by = by
    BY RegistryAssumption DEF Agent
  <1>2. agents' = IF agents[id] = NoAgent THEN [agents EXCEPT ![id] = new] ELSE agents
    BY DEF TryRegister
  <1>3. agents \in [Ids -> Agent \cup {NoAgent}]
    BY DEF RegistryInv
  <1> HIDE DEF new
  <1> QED BY <1>1, <1>2, <1>3 DEF WritersKept

\* Time leaves an agent to its writer.
LEMMA AgeKeeps ==
  ASSUME RegistryInv, AgentsAge
  PROVE  /\ agents' \in [Ids -> Agent \cup {NoAgent}] /\ WritersKept
         /\ \A i \in Ids : agents[i] = NoAgent => agents'[i] = NoAgent
         /\ \A i \in Ids : agents[i] # NoAgent =>
              agents'[i] # NoAgent /\ agents'[i].by = agents[i].by
  <1>1. agents \in [Ids -> Agent \cup {NoAgent}]
    BY DEF RegistryInv
  <1>2. ASSUME NEW a \in Agent, a.left \notin {0, Forever}
        PROVE  /\ [a EXCEPT !.left = @ - 1] \in Agent
               /\ [a EXCEPT !.left = @ - 1] # NoAgent /\ [a EXCEPT !.left = @ - 1].by = a.by
    <2>1. a.left - 1 \in Nat
      BY <1>2 DEF Agent
    <2>2. [a EXCEPT !.left = @ - 1] \in Agent /\ [a EXCEPT !.left = @ - 1].by = a.by
      BY <2>1 DEF Agent
    <2> QED BY <2>2, RegistryAssumption DEF Agent
  <1>3. /\ DOMAIN agents' = Ids
        /\ \A i \in Ids : agents'[i] =
             IF agents[i] = NoAgent \/ agents[i].left \in {0, Forever} THEN agents[i]
             ELSE [agents[i] EXCEPT !.left = @ - 1]
        /\ agents' = [i \in Ids |-> agents'[i]]
    BY DEF AgentsAge
  <1>4. ASSUME NEW i \in Ids
        PROVE  /\ agents'[i] \in Agent \cup {NoAgent}
               /\ agents[i] = NoAgent => agents'[i] = NoAgent
               /\ agents[i] # NoAgent => agents'[i] # NoAgent /\ agents'[i].by = agents[i].by
    <2>1. CASE agents[i] = NoAgent \/ agents[i].left \in {0, Forever}
      BY <1>1, <1>3, <2>1
    <2>2. CASE agents[i] # NoAgent /\ agents[i].left \notin {0, Forever}
      <3>1. agents[i] \in Agent
        BY <1>1, <2>2
      <3>2. agents'[i] = [agents[i] EXCEPT !.left = @ - 1]
        BY <1>3, <2>2
      <3> QED BY <1>2, <2>2, <3>1, <3>2
    <2> QED BY <2>1, <2>2
  <1>5. agents' \in [Ids -> Agent \cup {NoAgent}]
    BY <1>3, <1>4
  <1> QED BY <1>4, <1>5 DEF WritersKept

\* The other operations only take expired or deregistered agents out.
LEMMA OperationsKeep ==
  ASSUME RegistryInv,
         (\E i \in Ids : DeregisterAgent(i) \/ ResolveAgent(i)) \/ ListAgents
  PROVE  agents' \in [Ids -> Agent \cup {NoAgent}] /\ WritersKept
  <1>1. agents \in [Ids -> Agent \cup {NoAgent}]
    BY DEF RegistryInv
  <1>2. CASE ListAgents
    BY <1>1, <1>2 DEF ListAgents, WritersKept
  <1>3. ASSUME NEW i \in Ids, DeregisterAgent(i) \/ ResolveAgent(i)
        PROVE  agents' \in [Ids -> Agent \cup {NoAgent}] /\ WritersKept
    BY <1>1, <1>3 DEF DeregisterAgent, ResolveAgent, WritersKept
  <1> QED BY <1>2, <1>3

\* A card that comes makes its agent the id's, if it is the first.
LEMMA SeedingKeeps ==
  ASSUME RegistryInv, phase = "seeding", Seed
  PROVE  RegistryInv' /\ WritersKept
  <1>1. UNCHANGED <<phase, load>> /\ (SeedFetched \/ SeedRetried \/ SeedSkipped)
    BY DEF Seed
  <1>2. /\ load \in DOMAIN Loads /\ agents \in [Ids -> Agent \cup {NoAgent}]
        /\ seeds \in Seq(SeedAgent) /\ fetched \in Seq(SeedAgent)
        /\ \A i \in Ids :
             \/ agents[i] = NoAgent /\ \A k \in 1..Len(fetched) : fetched[k].id # i
             \/ agents[i] # NoAgent
                 /\ \E k \in 1..Len(fetched) : FirstCard(k, i) /\ agents[i].by = fetched[k].by
    BY DEF RegistryInv
  <1>3. seeds # <<>> => Head(seeds) \in SeedAgent /\ Tail(seeds) \in Seq(SeedAgent)
    BY <1>2, HeadTailProperties
  <1>4. CASE SeedRetried \/ SeedSkipped
    <2>1. UNCHANGED <<agents, fetched>> /\ seeds' \in Seq(SeedAgent)
      BY <1>2, <1>3, <1>4 DEF SeedRetried, SeedSkipped
    <2>2. \A k, i : FirstCard(k, i)' <=> FirstCard(k, i)
      BY <2>1 DEF FirstCard
    <2> QED BY <1>1, <1>2, <2>1, <2>2 DEF RegistryInv, WritersKept
  <1>5. CASE SeedFetched
    <2> DEFINE seed == Head(seeds)
    <2>1. /\ seed \in SeedAgent /\ seeds' \in Seq(SeedAgent)
          /\ TryRegister(seed.id, seed.by, seed.ttl)
          /\ fetched' = Append(fetched, seed)
      BY <1>3, <1>5 DEF SeedFetched
    <2> HIDE DEF seed
    <2>2. PICK n \in Nat : n = Len(fetched)
      BY <1>2
    <2>3. /\ fetched' \in Seq(SeedAgent) /\ Len(fetched') = n + 1
          /\ \A k \in 1..n : fetched'[k] = fetched[k]
          /\ fetched'[n + 1] = seed
      BY <1>2, <2>1, <2>2, AppendProperties
    <2>4. /\ agents' \in [Ids -> Agent \cup {NoAgent}] /\ WritersKept
          /\ \A i \in Ids \ {seed.id} : agents'[i] = agents[i]
          /\ agents[seed.id] # NoAgent => agents'[seed.id] = agents[seed.id]
          /\ agents[seed.id] = NoAgent => agents'[seed.id] # NoAgent /\ agents'[seed.id].by = seed.by
      BY <2>1, RegisterKeeps DEF SeedAgent
    <2>5. ASSUME NEW k \in 1..n, NEW i, FirstCard(k, i)
          PROVE  k \in 1..Len(fetched') /\ FirstCard(k, i)' /\ fetched'[k].by = fetched[k].by
      <3>1. k \in 1..(n + 1) /\ \A j \in 1..(k - 1) : j \in 1..n
        BY <2>2
      <3> QED BY <2>2, <2>3, <2>5, <3>1 DEF FirstCard
    <2>6. ASSUME NEW i \in Ids
          PROVE  \/ agents'[i] = NoAgent /\ \A k \in 1..Len(fetched') : fetched'[k].id # i
                 \/ agents'[i] # NoAgent
                     /\ \E k \in 1..Len(fetched') : FirstCard(k, i)' /\ agents'[i].by = fetched'[k].by
      <3>1. CASE agents[i] # NoAgent
        <4>1. PICK k \in 1..n : FirstCard(k, i) /\ agents[i].by = fetched[k].by
          BY <1>2, <2>2, <3>1
        <4>2. agents'[i] = agents[i]
          BY <2>4, <3>1
        <4> QED BY <2>5, <3>1, <4>1, <4>2
      <3>2. CASE agents[i] = NoAgent /\ i # seed.id
        <4>1. \A k \in 1..n : fetched[k].id # i
          BY <1>2, <2>2, <3>2
        <4>2. \A k \in 1..(n + 1) : k \in 1..n \/ k = n + 1
          BY <2>2
        <4>3. agents'[i] = NoAgent
          BY <2>4, <3>2
        <4> QED BY <2>3, <3>2, <4>1, <4>2, <4>3
      <3>3. CASE agents[i] = NoAgent /\ i = seed.id
        <4>1. \A k \in 1..n : fetched[k].id # i
          BY <1>2, <2>2, <3>3
        <4>2. n + 1 \in 1..(n + 1) /\ (\A j \in 1..(n + 1 - 1) : j \in 1..n)
          BY <2>2
        <4>3. FirstCard(n + 1, i)'
          <5>1. \A j \in 1..(n + 1 - 1) : fetched'[j].id # i
            BY <2>3, <4>1, <4>2
          <5> QED BY <2>3, <3>3, <4>2, <5>1 DEF FirstCard
        <4>4. agents'[i] # NoAgent /\ agents'[i].by = fetched'[n + 1].by
          BY <2>3, <2>4, <3>3
        <4>5. n + 1 \in 1..Len(fetched')
          BY <2>3, <4>2
        <4> QED BY <4>3, <4>4, <4>5
      <3> QED BY <3>1, <3>2, <3>3
    <2> QED BY <1>1, <1>2, <2>1, <2>3, <2>4, <2>6 DEF RegistryInv
  <1> QED BY <1>1, <1>4, <1>5

\* No step makes an id change hands, and what is registered while seeds are dealt
\* with is what the cards that came say.
LEMMA RegistrySteps ==
  ASSUME RegistryInv, [Next]_vars
  PROVE  RegistryInv' /\ WritersKept
  <1>1. ASSUME UNCHANGED <<registryVars, load>>, phase' = phase \/ (phase' = "up" /\ phase = "seeding")
        PROVE  RegistryInv' /\ WritersKept
    <2>1. UNCHANGED <<agents, seeds, fetched>> /\ \A k, i : FirstCard(k, i)' <=> FirstCard(k, i)
      BY <1>1 DEF registryVars, FirstCard
    <2> QED BY <1>1, <2>1 DEF RegistryInv, WritersKept
  <1>2. CASE Launch
    <2>1. /\ phase \in {"down", "refused"} /\ UNCHANGED <<agents, fetched, load>>
          /\ \/ phase' = "refused" /\ seeds' = <<>>
             \/ phase' = "seeding" /\ seeds' = Loads[load].files.seeds
      BY <1>2 DEF Launch
    <2>2. seeds' \in Seq(SeedAgent)
      BY <2>1, LoadsAssumption DEF RegistryInv, SeedAgent
    <2>3. fetched = <<>> /\ Len(fetched) = 0 /\ \A i \in Ids : agents[i] = NoAgent
      BY <2>1 DEF RegistryInv
    <2> QED BY <2>1, <2>2, <2>3 DEF RegistryInv, WritersKept
  <1>3. CASE Seed
    BY <1>3, SeedingKeeps DEF Seed
  <1>4. CASE Listen
    BY <1>1, <1>4 DEF Listen
  <1>5. CASE Crash
    <2>1. /\ phase' = "down" /\ load' = load /\ fetched' = <<>> /\ seeds' = <<>>
          /\ agents' = [i \in Ids |-> NoAgent]
      BY <1>5 DEF Crash
    <2> QED BY <2>1 DEF RegistryInv, WritersKept
  <1>6. CASE Agents
    <2>1. phase = "up" /\ UNCHANGED <<phase, load, seeds, fetched>>
      BY <1>6 DEF Agents, RegisterAgent, DeregisterAgent, ResolveAgent, ListAgents
    <2>2. \/ \E i \in Ids, w \in Writers, ttl \in Ttls : TryRegister(i, w, ttl)
          \/ (\E i \in Ids : DeregisterAgent(i) \/ ResolveAgent(i)) \/ ListAgents
      BY <1>6 DEF Agents, RegisterAgent
    <2>3. agents' \in [Ids -> Agent \cup {NoAgent}] /\ WritersKept
      <3>1. ASSUME NEW i \in Ids, NEW w \in Writers, NEW ttl \in Ttls, TryRegister(i, w, ttl)
            PROVE  agents' \in [Ids -> Agent \cup {NoAgent}] /\ WritersKept
        <4>1. w \in STRING /\ ttl \in Nat \cup {Forever}
          BY RegistryAssumption
        <4> QED BY <3>1, <4>1, RegisterKeeps
      <3> QED BY <2>2, <3>1, OperationsKeep
    <2> QED BY <2>1, <2>3 DEF RegistryInv
  <1>7. CASE Time
    <2>1. UNCHANGED <<phase, load, seeds, fetched>> /\ AgentsAge
      BY <1>7 DEF Time, AgentsAge
    <2>2. \A k, i : FirstCard(k, i)' <=> FirstCard(k, i)
      BY <2>1 DEF FirstCard
    <2> QED BY <2>1, <2>2, AgeKeeps DEF RegistryInv
  <1>8. CASE Arrive \/ Work \/ Decision \/ Abandon \/ Forget
    <2>1. UNCHANGED <<registryVars, load, phase>>
      BY <1>8, Arriving DEF Work, Decision, Abandon, Forget, Served
    <2> QED BY <1>1, <2>1
  <1>9. CASE UNCHANGED vars
    BY <1>1, <1>9 DEF vars
  <1> QED BY <1>2, <1>3, <1>4, <1>5, <1>6, <1>7, <1>8, <1>9 DEF Next

\* What the registry holds, and why.
LEMMA RegistryInvariant == Spec => []RegistryInv
  <1>1. Init => RegistryInv
    BY DEF Init, NewRegistry, RegistryInv
  <1>2. RegistryInv /\ [Next]_vars => RegistryInv'
    BY RegistrySteps
  <1> QED BY <1>1, <1>2, PTL DEF Spec

\* An id stays with its first writer until it is taken out of the registry, and when
\* the process starts to serve it is the first seed's whose card came.
THEOREM IdsKeepTheirWriter == Spec => FirstWriterKeepsTheId
  <1> DEFINE Step ==
        \A i \in Ids :
          /\ (agents[i] # NoAgent /\ agents'[i] # NoAgent) => agents'[i].by = agents[i].by
          /\ (phase = "seeding" /\ phase' = "up") =>
               IF \E k \in DOMAIN fetched : fetched[k].id = i
               THEN agents[i].by = fetched[Position(fetched, LAMBDA s : s.id = i)].by
               ELSE agents[i] = NoAgent
  <1>1. ASSUME RegistryInv, NEW i \in Ids, NEW k \in 1..Len(fetched), FirstCard(k, i)
        PROVE  Position(fetched, LAMBDA s : s.id = i) = k
    <2> DEFINE First(j) == fetched[j].id = i /\ \A h \in 1..(j - 1) : ~ fetched[h].id = i
    <2>1. DOMAIN fetched = 1..Len(fetched) /\ Len(fetched) \in Nat
      BY <1>1 DEF RegistryInv
    <2>2. First(k) /\ k \in DOMAIN fetched
      BY <1>1, <2>1 DEF FirstCard
    <2>3. ASSUME NEW j \in DOMAIN fetched, First(j) PROVE j = k
      <3>1. ~ (j < k) /\ ~ (k < j)
        BY <2>1, <2>2, <2>3
      <3> QED BY <2>1, <3>1
    <2>4. (CHOOSE j \in DOMAIN fetched : First(j)) = k
      <3> HIDE DEF First
      <3> QED BY <2>2, <2>3
    <2> QED BY <2>2, <2>4 DEF Position, FirstOf
  <1>2. RegistryInv /\ [Next]_vars => [Step]_vars
    <2> SUFFICES ASSUME RegistryInv, [Next]_vars, NEW i \in Ids
                 PROVE  /\ (agents[i] # NoAgent /\ agents'[i] # NoAgent) => agents'[i].by = agents[i].by
                        /\ (phase = "seeding" /\ phase' = "up") =>
                             IF \E k \in DOMAIN fetched : fetched[k].id = i
                             THEN agents[i].by = fetched[Position(fetched, LAMBDA s : s.id = i)].by
                             ELSE agents[i] = NoAgent
      OBVIOUS
    <2>1. (agents[i] # NoAgent /\ agents'[i] # NoAgent) => agents'[i].by = agents[i].by
      BY RegistrySteps DEF WritersKept
    <2>2. CASE phase = "seeding"
      <3>1. DOMAIN fetched = 1..Len(fetched)
        BY DEF RegistryInv
      <3>2. CASE agents[i] = NoAgent /\ \A k \in 1..Len(fetched) : fetched[k].id # i
        BY <2>1, <3>1, <3>2
      <3>3. ASSUME NEW k \in 1..Len(fetched), FirstCard(k, i), agents[i].by = fetched[k].by
            PROVE  /\ \E j \in DOMAIN fetched : fetched[j].id = i
                   /\ agents[i].by = fetched[Position(fetched, LAMBDA s : s.id = i)].by
        <4>1. Position(fetched, LAMBDA s : s.id = i) = k
          BY <1>1, <3>3
        <4>2. \E j \in DOMAIN fetched : fetched[j].id = i
          BY <3>1, <3>3 DEF FirstCard
        <4> QED BY <3>3, <4>1, <4>2
      <3> QED BY <2>1, <2>2, <3>2, <3>3 DEF RegistryInv
    <2> QED BY <2>1, <2>2
  <1> QED BY <1>2, RegistryInvariant, PTL DEF Spec, FirstWriterKeepsTheId

-----------------------------------------------------------------------------
(* Plans.  A list of legs goes through the legs of some tiers when each of   *)
(* them has its place in it, once: where an element comes from says, for any *)
(* route, what order a plan has and what it leaves out.                      *)

AreTiers(tiers) == IsList(tiers) /\ \A t \in DOMAIN tiers : IsTier(tiers[t])

\* The places of tiers' legs, and of those that can serve.
LegAt(tiers, p) == tiers[p.tier].legs[p.leg]
Place(t, c) == [tier |-> t, leg |-> c]
LegPlaces(tiers) == UNION {{Place(t, c) : c \in DOMAIN tiers[t].legs} : t \in DOMAIN tiers}
PlacesFor(tiers, vertex) ==
  {p \in LegPlaces(tiers) : vertex => LegAt(tiers, p).provider = "vertex"}

AblePlaces(legs, vertex) == {c \in DOMAIN legs : vertex => legs[c].provider = "vertex"}

\* The order of an escalation over n tiers from start on.
Before(n, start, p, q) ==
  \/ RankFrom(n, start, p.tier) < RankFrom(n, start, q.tier)
  \/ p.tier = q.tier /\ p.leg < q.leg

\* A place is one of a leg.
LEMMA PlaceIs ==
  ASSUME NEW tiers, NEW t \in DOMAIN tiers, NEW c \in DOMAIN tiers[t].legs
  PROVE  /\ Place(t, c).tier = t /\ Place(t, c).leg = c
         /\ Place(t, c) \in LegPlaces(tiers) /\ LegAt(tiers, Place(t, c)) = tiers[t].legs[c]
  BY DEF LegPlaces, LegAt, Place

\* And what is a place is one of some leg.
LEMMA PlaceHas ==
  ASSUME NEW tiers, NEW q \in LegPlaces(tiers)
  PROVE  /\ q = Place(q.tier, q.leg) /\ q.tier \in DOMAIN tiers
         /\ q.leg \in DOMAIN tiers[q.tier].legs /\ LegAt(tiers, q) = tiers[q.tier].legs[q.leg]
  BY DEF LegPlaces, LegAt, Place

SameModel(l, m) == l.provider = m.provider /\ l.model = m.model

\* The places of legs of n tiers.
PlacesOf(places, n) == \A p \in places : p.tier \in 1..n /\ p.leg \in Nat

\* at takes the places of the list s to those given, in the order of an escalation.
Enumerates(at, s, n, start, places) ==
  /\ \A k \in DOMAIN s : at[k] \in places
  /\ \A k, l \in DOMAIN s : k < l => Before(n, start, at[k], at[l])
  /\ \A p \in places : \E k \in DOMAIN s : at[k] = p

\* The list s goes through the legs at these places.
GoesThrough(at, s, tiers, start, places) ==
  /\ Enumerates(at, s, Len(tiers), start, places)
  /\ \A k \in DOMAIN s : SameModel(s[k], LegAt(tiers, at[k]))

\* A plan goes through all legs of its tiers, and says of each which tier it is of.
LEMMA OrderGoesThrough ==
  ASSUME NEW tiers, AreTiers(tiers), NEW start \in 1..Len(tiers), NEW policy
  PROVE  LET p == OrderLegs(tiers, start, policy) IN
         /\ IsList(p)
         /\ \E at : /\ \A k \in DOMAIN p : p[k].tier = at[k].tier
                    /\ GoesThrough(at, LegsOf(p), tiers, start, LegPlaces(tiers))
  <1> DEFINE n == Len(tiers)
             e == EscalationOrder(n, start)
             R(t) == [k \in DOMAIN tiers[t].legs |->
                       [leg |-> [tiers[t].legs[k] EXCEPT !.effort = Stamped(tiers[t].effort, policy)],
                        tier |-> t]]
             ss == [i \in DOMAIN e |-> R(e[i])]
             p == OrderLegs(tiers, start, policy)
  <1>1. p = FlattenSeq(ss)
    BY DEF OrderLegs, FlatMap
  <1>2. n \in Nat /\ DOMAIN tiers = 1..n /\ start \in Nat /\ start >= 1 /\ start <= n + 1
    BY ListShape DEF AreTiers
  <1>3. /\ IsList(e) /\ DOMAIN e = 1..n
        /\ \A i \in 1..n : e[i] \in 1..n /\ RankFrom(n, start, e[i]) = i - 1
        /\ \A t \in 1..n : \E i \in 1..n : e[i] = t
    <2> HIDE DEF n
    <2> QED BY <1>2, EscalationIs
  <1> HIDE DEF e, p
  <1>4. ASSUME NEW t \in 1..n
        PROVE  /\ IsList(R(t)) /\ DOMAIN R(t) = DOMAIN tiers[t].legs
               /\ \A k \in DOMAIN R(t) : /\ R(t)[k].tier = t /\ SameModel(R(t)[k].leg, tiers[t].legs[k])
    <2>1. AreLegs(tiers[t].legs)
      BY <1>2 DEF AreTiers, IsTier
    <2>2. DOMAIN tiers[t].legs = 1..Len(tiers[t].legs) /\ Len(tiers[t].legs) \in Nat
      BY <2>1, ListShape DEF AreLegs
    <2> DEFINE r == R(t)
    <2>3. r = [k \in 1..Len(tiers[t].legs) |-> r[k]] /\ DOMAIN r = DOMAIN tiers[t].legs
      BY <2>2
    <2>4. ASSUME NEW k \in DOMAIN tiers[t].legs
          PROVE  r[k].tier = t /\ SameModel(r[k].leg, tiers[t].legs[k])
      <3>1. IsLeg(tiers[t].legs[k])
        BY <2>1 DEF AreLegs
      <3>2. r[k] = [leg |-> [tiers[t].legs[k] EXCEPT !.effort = Stamped(tiers[t].effort, policy)], tier |-> t]
        OBVIOUS
      <3> QED BY <3>1, <3>2 DEF IsLeg, SameModel
    <2> HIDE DEF r
    <2>5. IsList(r)
      BY <2>2, <2>3, ListOf
    <2> QED BY <2>3, <2>4, <2>5 DEF r
  <1>5. /\ IsList(ss) /\ DOMAIN ss = 1..n
        /\ \A i \in 1..n : IsList(ss[i]) /\ DOMAIN ss[i] = DOMAIN tiers[e[i]].legs
        /\ \A i \in 1..n : \A k \in DOMAIN ss[i] :
             ss[i][k].tier = e[i] /\ SameModel(ss[i][k].leg, tiers[e[i]].legs[k])
    <2>1. ss = [i \in 1..n |-> ss[i]] /\ DOMAIN ss = 1..n /\ \A i \in 1..n : ss[i] = R(e[i])
      BY <1>3
    <2> HIDE DEF ss, R, n
    <2>2. IsList(ss)
      BY <1>2, <2>1, ListOf
    <2>3. ASSUME NEW i \in 1..n
          PROVE  /\ IsList(ss[i]) /\ DOMAIN ss[i] = DOMAIN tiers[e[i]].legs
                 /\ \A k \in DOMAIN ss[i] :
                      ss[i][k].tier = e[i] /\ SameModel(ss[i][k].leg, tiers[e[i]].legs[k])
      <3>1. e[i] \in 1..n /\ ss[i] = R(e[i])
        BY <1>3, <2>1
      <3> QED BY <1>4, <3>1
    <2> QED BY <2>1, <2>2, <2>3
  <1> HIDE DEF ss, R
  <1>6. IsList(p)
    BY <1>1, <1>5, FlattenReads
  <1>7. PICK row, col : Reads(row, col, p, ss)
    BY <1>1, <1>5, FlattenReads
  <1> DEFINE at == [k \in DOMAIN p |-> Place(e[row[k]], col[k])]
             legs == LegsOf(p)
  <1>8. ASSUME NEW k \in DOMAIN p
        PROVE  /\ row[k] \in 1..n /\ col[k] \in DOMAIN tiers[e[row[k]]].legs /\ col[k] \in Nat
               /\ at[k] = Place(e[row[k]], col[k]) /\ at[k].tier = e[row[k]] /\ at[k].leg = col[k]
               /\ e[row[k]] \in DOMAIN tiers
               /\ p[k].tier = e[row[k]] /\ SameModel(p[k].leg, tiers[e[row[k]]].legs[col[k]])
    <2>1. row[k] \in 1..n /\ col[k] \in DOMAIN ss[row[k]] /\ p[k] = ss[row[k]][col[k]]
      BY <1>5, <1>7 DEF Reads
    <2>2. col[k] \in DOMAIN tiers[e[row[k]]].legs
      BY <1>5, <2>1
    <2>3. IsList(tiers[e[row[k]]].legs)
      BY <1>2, <1>3, <2>1 DEF AreTiers, IsTier, AreLegs
    <2>4. DOMAIN tiers[e[row[k]]].legs \subseteq Nat
      BY <2>3, ListShape
    <2>5. col[k] \in DOMAIN ss[row[k]] /\ ss[row[k]][col[k]].tier = e[row[k]]
            /\ SameModel(ss[row[k]][col[k]].leg, tiers[e[row[k]]].legs[col[k]])
      BY <1>5, <2>1
    <2>6. e[row[k]] \in DOMAIN tiers
      BY <1>2, <1>3, <2>1
    <2>7. at[k] = Place(e[row[k]], col[k])
      OBVIOUS
    <2>8. Place(e[row[k]], col[k]).tier = e[row[k]] /\ Place(e[row[k]], col[k]).leg = col[k]
      BY DEF Place
    <2> HIDE DEF at, n
    <2> QED BY <2>1, <2>2, <2>4, <2>5, <2>6, <2>7, <2>8
  <1>9. DOMAIN legs = DOMAIN p /\ \A k \in DOMAIN p : legs[k] = p[k].leg
    BY DEF LegsOf
  <1> HIDE DEF at, legs
  <1>10. ASSUME NEW k \in DOMAIN legs
         PROVE  at[k] \in LegPlaces(tiers) /\ SameModel(legs[k], LegAt(tiers, at[k]))
    <2>1. k \in DOMAIN p
      BY <1>9
    <2>2. at[k] \in LegPlaces(tiers) /\ LegAt(tiers, at[k]) = tiers[e[row[k]]].legs[col[k]]
      BY <1>8, <2>1, PlaceIs
    <2> QED BY <1>8, <1>9, <2>1, <2>2
  <1>11. ASSUME NEW k \in DOMAIN legs, NEW l \in DOMAIN legs, k < l
         PROVE  Before(n, start, at[k], at[l])
    <2>1. row[k] < row[l] \/ (row[k] = row[l] /\ col[k] < col[l])
      BY <1>7, <1>9, <1>11 DEF Reads
    <2>2. RankFrom(n, start, e[row[k]]) = row[k] - 1 /\ RankFrom(n, start, e[row[l]]) = row[l] - 1
      BY <1>3, <1>8, <1>9
    <2> HIDE DEF n
    <2>3. row[k] < row[l] => RankFrom(n, start, e[row[k]]) < RankFrom(n, start, e[row[l]])
      BY <1>2, <1>8, <1>9, <2>2
    <2> QED BY <1>8, <1>9, <2>1, <2>3 DEF Before
  <1>12. ASSUME NEW q \in LegPlaces(tiers) PROVE \E k \in DOMAIN legs : at[k] = q
    <2>1. q = Place(q.tier, q.leg) /\ q.tier \in 1..n /\ q.leg \in DOMAIN tiers[q.tier].legs
      BY <1>2, PlaceHas
    <2>2. PICK i \in 1..n : e[i] = q.tier
      BY <1>3, <2>1
    <2>3. i \in DOMAIN ss /\ q.leg \in DOMAIN ss[i]
      BY <1>5, <2>1, <2>2
    <2>4. PICK k \in DOMAIN p : row[k] = i /\ col[k] = q.leg
      BY <1>7, <2>3 DEF Reads
    <2> QED BY <1>8, <1>9, <2>1, <2>2, <2>4
  <1>13. GoesThrough(at, legs, tiers, start, LegPlaces(tiers))
    BY <1>10, <1>11, <1>12 DEF GoesThrough, Enumerates
  <1> QED BY <1>6, <1>8, <1>13 DEF p, legs

\* Which legs of a tier can serve, and that nothing else of it changes.
LEMMA EligibleIs ==
  ASSUME NEW tiers, AreTiers(tiers), NEW vertex
  PROVE  LET left == EligibleTiers(tiers, vertex) IN
         /\ AreTiers(left) /\ Len(left) = Len(tiers) /\ DOMAIN left = DOMAIN tiers
         /\ \A t \in DOMAIN tiers : \E pos :
              ReadsAt(pos, left[t].legs, tiers[t].legs, AblePlaces(tiers[t].legs, vertex))
  <1> DEFINE left == EligibleTiers(tiers, vertex)
             s(t) == tiers[t].legs
             able(t) == AblePlaces(s(t), vertex)
  <1>1. DOMAIN tiers = 1..Len(tiers) /\ Len(tiers) \in Nat
    BY ListShape DEF AreTiers
  <1>2. /\ left = [t \in 1..Len(tiers) |-> left[t]] /\ DOMAIN left = DOMAIN tiers
        /\ \A t \in DOMAIN tiers : left[t] = [tiers[t] EXCEPT !.legs = ElementsAt(@, able(t))]
    BY <1>1 DEF EligibleTiers, Filter, AblePlaces
  <1> HIDE DEF left
  <1>3. IsList(left) /\ Len(left) = Len(tiers)
    BY <1>1, <1>2, ListOf
  <1>4. ASSUME NEW t \in DOMAIN tiers
        PROVE  IsTier(left[t]) /\ \E pos : ReadsAt(pos, left[t].legs, s(t), able(t))
    <2>1. /\ tiers[t] = [name |-> tiers[t].name, effort |-> tiers[t].effort, legs |-> s(t)]
          /\ IsList(s(t)) /\ \A c \in DOMAIN s(t) : IsLeg(s(t)[c])
      BY DEF AreTiers, IsTier, AreLegs
    <2>2. able(t) \subseteq DOMAIN s(t)
      BY DEF AblePlaces
    <2>3. left[t] = [name |-> tiers[t].name, effort |-> tiers[t].effort, legs |-> ElementsAt(s(t), able(t))]
      BY <1>2, <2>1
    <2> HIDE DEF s, able
    <2>4. IsList(ElementsAt(s(t), able(t)))
      BY <2>1, <2>2, ElementsAtReads
    <2>5. PICK pos : ReadsAt(pos, ElementsAt(s(t), able(t)), s(t), able(t))
      BY <2>1, <2>2, ElementsAtReads
    <2>6. \A k \in DOMAIN left[t].legs : IsLeg(left[t].legs[k])
      BY <2>1, <2>2, <2>3, <2>5 DEF ReadsAt
    <2> QED BY <2>3, <2>4, <2>5, <2>6 DEF IsTier, AreLegs
  <1> QED BY <1>2, <1>3, <1>4 DEF AreTiers, left

\* What goes through the legs left of a route's tiers goes through those of the
\* route that can serve.
LEMMA ThroughTheEligible ==
  ASSUME NEW tiers, AreTiers(tiers), NEW vertex, NEW start \in 1..Len(tiers), NEW at, NEW s,
         GoesThrough(at, s, EligibleTiers(tiers, vertex), start, LegPlaces(EligibleTiers(tiers, vertex)))
  PROVE  \E b : /\ \A k \in DOMAIN s : b[k].tier = at[k].tier
               /\ GoesThrough(b, s, tiers, start, PlacesFor(tiers, vertex))
  <1> DEFINE left == EligibleTiers(tiers, vertex)
             able(t) == AblePlaces(tiers[t].legs, vertex)
             Pos(t) == CHOOSE pos : ReadsAt(pos, left[t].legs, tiers[t].legs, able(t))
             b == [k \in DOMAIN s |-> Place(at[k].tier, Pos(at[k].tier)[at[k].leg])]
             n == Len(tiers)
  <1>1. /\ AreTiers(left) /\ Len(left) = n /\ DOMAIN left = DOMAIN tiers
        /\ \A t \in DOMAIN tiers : \E pos : ReadsAt(pos, left[t].legs, tiers[t].legs, able(t))
    BY EligibleIs
  <1>2. \A t \in DOMAIN tiers : ReadsAt(Pos(t), left[t].legs, tiers[t].legs, able(t))
    <2> HIDE DEF left, able
    <2> QED BY <1>1
  <1>3. DOMAIN tiers = 1..n /\ n \in Nat
    BY ListShape DEF AreTiers
  <1>4. \A t \in DOMAIN tiers : DOMAIN tiers[t].legs \subseteq Nat /\ DOMAIN left[t].legs \subseteq Nat
    BY <1>1, ListShape DEF AreTiers, IsTier, AreLegs
  <1> HIDE DEF left, Pos
  <1>5. ASSUME NEW k \in DOMAIN s
        PROVE  /\ at[k].tier \in DOMAIN tiers /\ at[k].leg \in DOMAIN left[at[k].tier].legs
               /\ at[k] = Place(at[k].tier, at[k].leg)
               /\ SameModel(s[k], left[at[k].tier].legs[at[k].leg])
    <2>1. at[k] \in LegPlaces(left) /\ SameModel(s[k], LegAt(left, at[k]))
      BY DEF GoesThrough, Enumerates, left
    <2> QED BY <1>1, <2>1, PlaceHas
  <1>6. ASSUME NEW k \in DOMAIN s
        PROVE  /\ b[k].tier = at[k].tier /\ b[k].leg = Pos(at[k].tier)[at[k].leg]
               /\ b[k].leg \in able(at[k].tier) /\ b[k].leg \in Nat
               /\ tiers[at[k].tier].legs[b[k].leg] = left[at[k].tier].legs[at[k].leg]
    <2>1. b[k] = Place(at[k].tier, Pos(at[k].tier)[at[k].leg])
      OBVIOUS
    <2>2. PICK t \in DOMAIN tiers : t = at[k].tier
      BY <1>5
    <2>3. PICK c \in DOMAIN left[t].legs : c = at[k].leg
      BY <1>5, <2>2
    <2>4. \A c2 : c2 \in able(t) => c2 \in Nat
      BY <1>4, <2>2 DEF AblePlaces
    <2> HIDE DEF b, able
    <2>5. ReadsAt(Pos(t), left[t].legs, tiers[t].legs, able(t))
      BY <1>2, <2>2
    <2>6. Pos(t)[c] \in able(t) /\ left[t].legs[c] = tiers[t].legs[Pos(t)[c]]
      BY <2>3, <2>5 DEF ReadsAt
    <2> QED BY <2>1, <2>2, <2>3, <2>4, <2>6 DEF Place
  <1>7. b = [k \in DOMAIN s |-> b[k]] /\ \A k \in DOMAIN s : b[k] = Place(b[k].tier, b[k].leg)
    BY DEF Place
  <1> HIDE DEF b
  <1>8. ASSUME NEW k \in DOMAIN s
        PROVE  b[k] \in PlacesFor(tiers, vertex) /\ SameModel(s[k], LegAt(tiers, b[k]))
    <2>1. b[k] \in LegPlaces(tiers) /\ LegAt(tiers, b[k]) = tiers[at[k].tier].legs[b[k].leg]
      BY <1>5, <1>6, <1>7, PlaceIs DEF AblePlaces
    <2> QED BY <1>5, <1>6, <2>1 DEF PlacesFor, AblePlaces
  <1>9. ASSUME NEW k \in DOMAIN s, NEW l \in DOMAIN s, k < l PROVE Before(n, start, b[k], b[l])
    <2>1. Before(n, start, at[k], at[l])
      BY <1>1, <1>9 DEF GoesThrough, Enumerates, left
    <2>2. CASE RankFrom(n, start, at[k].tier) < RankFrom(n, start, at[l].tier)
      BY <1>6, <2>2 DEF Before
    <2>3. CASE at[k].tier = at[l].tier /\ at[k].leg < at[l].leg
      <3> DEFINE t == at[k].tier
      <3>1. t \in DOMAIN tiers /\ at[k].leg \in DOMAIN left[t].legs /\ at[l].leg \in DOMAIN left[t].legs
        BY <1>5, <2>3
      <3>2. Pos(t)[at[k].leg] < Pos(t)[at[l].leg]
        BY <1>2, <2>3, <3>1 DEF ReadsAt
      <3> QED BY <1>6, <2>3, <3>2 DEF Before
    <2> QED BY <2>1, <2>2, <2>3 DEF Before
  <1>10. ASSUME NEW q \in PlacesFor(tiers, vertex) PROVE \E k \in DOMAIN s : b[k] = q
    <2>1. q = Place(q.tier, q.leg) /\ q.tier \in DOMAIN tiers /\ q.leg \in able(q.tier)
      <3>1. q \in LegPlaces(tiers) /\ (vertex => LegAt(tiers, q).provider = "vertex")
        BY DEF PlacesFor
      <3> QED BY <3>1, PlaceHas DEF AblePlaces
    <2>2. PICK c \in DOMAIN left[q.tier].legs : Pos(q.tier)[c] = q.leg
      BY <1>2, <2>1 DEF ReadsAt
    <2>3. Place(q.tier, c) \in LegPlaces(left) /\ Place(q.tier, c).tier = q.tier /\ Place(q.tier, c).leg = c
      BY <1>1, <2>1, <2>2, PlaceIs
    <2>4. PICK k \in DOMAIN s : at[k] = Place(q.tier, c)
      BY <2>3 DEF GoesThrough, Enumerates, left
    <2>5. at[k].tier = q.tier /\ at[k].leg = c
      BY <2>3, <2>4
    <2>6. b[k].tier = q.tier /\ b[k].leg = q.leg
      BY <1>6, <2>2, <2>4, <2>5
    <2> QED BY <1>7, <2>1, <2>6
  <1>11. GoesThrough(b, s, tiers, start, PlacesFor(tiers, vertex))
    BY <1>8, <1>9, <1>10 DEF GoesThrough, Enumerates
  <1> QED BY <1>6, <1>11

\* The Vertex legs of what goes through all legs go through the Vertex legs.
LEMMA ThroughTheVertex ==
  ASSUME NEW tiers, NEW start, NEW at, NEW s, IsList(s),
         GoesThrough(at, s, tiers, start, LegPlaces(tiers))
  PROVE  /\ IsList(VertexLegs(s))
         /\ \E b : GoesThrough(b, VertexLegs(s), tiers, start, PlacesFor(tiers, TRUE))
  <1> DEFINE places == {i \in DOMAIN s : IsVertex(s[i])}
             v == ElementsAt(s, places)
  <1>1. VertexLegs(s) = v
    BY DEF VertexLegs, Filter
  <1>2. places \subseteq DOMAIN s /\ DOMAIN s \subseteq Nat
    BY ListShape
  <1>3. IsList(v)
    BY <1>2, ElementsAtReads
  <1>4. PICK pos : ReadsAt(pos, v, s, places)
    BY <1>2, ElementsAtReads
  <1> DEFINE b == [k \in DOMAIN v |-> at[pos[k]]]
  <1> HIDE DEF v
  <1>5. ASSUME NEW k \in DOMAIN v
        PROVE  /\ pos[k] \in DOMAIN s /\ v[k] = s[pos[k]] /\ b[k] = at[pos[k]] /\ s[pos[k]].provider = "vertex"
               /\ at[pos[k]] \in LegPlaces(tiers) /\ SameModel(s[pos[k]], LegAt(tiers, at[pos[k]]))
    BY <1>4 DEF ReadsAt, GoesThrough, Enumerates, IsVertex
  <1> HIDE DEF b
  <1>6. \A k \in DOMAIN v : b[k] \in PlacesFor(tiers, TRUE) /\ SameModel(v[k], LegAt(tiers, b[k]))
    BY <1>5 DEF PlacesFor, SameModel
  <1>7. \A k, l \in DOMAIN v : k < l => Before(Len(tiers), start, b[k], b[l])
    BY <1>4, <1>5 DEF ReadsAt, GoesThrough, Enumerates
  <1>8. ASSUME NEW q \in PlacesFor(tiers, TRUE) PROVE \E k \in DOMAIN v : b[k] = q
    <2>1. q \in LegPlaces(tiers) /\ LegAt(tiers, q).provider = "vertex"
      BY DEF PlacesFor
    <2>2. PICK i \in DOMAIN s : at[i] = q
      BY <2>1 DEF GoesThrough, Enumerates
    <2>3. i \in places
      BY <2>1, <2>2 DEF GoesThrough, Enumerates, SameModel, IsVertex
    <2> QED BY <1>4, <1>5, <2>2, <2>3 DEF ReadsAt
  <1>9. GoesThrough(b, v, tiers, start, PlacesFor(tiers, TRUE))
    BY <1>6, <1>7, <1>8 DEF GoesThrough, Enumerates
  <1> QED BY <1>1, <1>3, <1>9

\* Two lists that go through the same places in the same order agree.
LEMMA Agree ==
  ASSUME NEW n, NEW start, NEW places,
         \A p, q \in places : ~ (Before(n, start, p, q) /\ Before(n, start, q, p)),
         NEW s, IsList(s), NEW t, IsList(t), NEW a, NEW b,
         Enumerates(a, s, n, start, places), Enumerates(b, t, n, start, places)
  PROVE  \A k \in DOMAIN s : k \in DOMAIN t /\ a[k] = b[k]
  <1> DEFINE B(p, q) == Before(n, start, p, q)
             T == {k \in DOMAIN s : ~ (k \in DOMAIN t /\ a[k] = b[k])}
  <1>1. \A p, q \in places : ~ (B(p, q) /\ B(q, p))
    OBVIOUS
  <1>2. /\ \A k \in DOMAIN s : a[k] \in places
        /\ \A k, l \in DOMAIN s : k < l => B(a[k], a[l])
        /\ \A p \in places : \E k \in DOMAIN s : a[k] = p
    BY DEF Enumerates
  <1>3. /\ \A k \in DOMAIN t : b[k] \in places
        /\ \A k, l \in DOMAIN t : k < l => B(b[k], b[l])
        /\ \A p \in places : \E k \in DOMAIN t : b[k] = p
    BY DEF Enumerates
  <1> HIDE DEF B
  <1>4. DOMAIN s = 1..Len(s) /\ Len(s) \in Nat /\ DOMAIN t = 1..Len(t) /\ Len(t) \in Nat
    BY ListShape
  <1>5. SUFFICES ASSUME T # {} PROVE FALSE
    OBVIOUS
  <1>6. PICK k \in T : \A l \in T : k <= l
    <2>1. T \subseteq Nat
      BY <1>4
    <2> HIDE DEF T
    <2> QED BY <1>5, <2>1, LeastOf
  <1>7. k \in DOMAIN s /\ k \in Nat
    BY <1>4
  <1>8. \A m \in DOMAIN s : m < k => m \in DOMAIN t /\ a[m] = b[m]
    <2> TAKE m \in DOMAIN s
    <2> HAVE m < k
    <2>1. m \notin T
      <3>1. m \in Nat
        BY <1>4
      <3> HIDE DEF T
      <3> QED BY <1>6, <1>7, <3>1
    <2> QED BY <2>1
  <1>9. PICK l \in DOMAIN t : b[l] = a[k]
    BY <1>2, <1>3, <1>7
  <1>10. l \in Nat /\ ~ (l < k)
    <2>1. l \in Nat /\ (l < k => l \in DOMAIN s)
      BY <1>4, <1>7
    <2>2. ASSUME l < k PROVE FALSE
      <3>1. a[l] = b[l] /\ B(a[l], a[k])
        BY <1>2, <1>7, <1>8, <2>1, <2>2
      <3> QED BY <1>1, <1>2, <1>7, <1>9, <3>1
    <2> QED BY <2>1, <2>2
  <1>11. k \in DOMAIN t
    BY <1>4, <1>7, <1>10
  <1>12. a[k] # b[k] /\ k < l
    <2>1. a[k] # b[k]
      BY <1>11
    <2> QED BY <1>7, <1>9, <1>10, <2>1
  <1>13. B(b[k], a[k])
    BY <1>3, <1>9, <1>11, <1>12
  <1>14. PICK m \in DOMAIN s : a[m] = b[k]
    BY <1>2, <1>3, <1>11
  <1>15. m \in Nat /\ ~ (m < k)
    <2>1. m \in Nat
      BY <1>4
    <2>2. ASSUME m < k PROVE FALSE
      <3>1. m \in DOMAIN t /\ b[m] = b[k] /\ B(b[m], b[k])
        BY <1>3, <1>8, <1>11, <1>14, <2>2
      <3> QED BY <1>1, <1>3, <1>11, <3>1
    <2> QED BY <2>1, <2>2
  <1>16. k < m
    BY <1>7, <1>12, <1>14, <1>15
  <1>17. B(a[k], b[k])
    BY <1>2, <1>7, <1>14, <1>16
  <1> QED BY <1>1, <1>2, <1>3, <1>7, <1>11, <1>13, <1>17

\* A list that goes through some places is as long as they are many.
LEMMA AsManyAsPlaces ==
  ASSUME NEW n \in Nat, NEW start \in Nat, NEW places, PlacesOf(places, n),
         NEW s, IsList(s), NEW at, Enumerates(at, s, n, start, places)
  PROVE  Len(s) = Cardinality(places)
  <1> DEFINE l == Len(s)
             f == [k \in 1..l |-> at[k]]
  <1>1. l \in Nat /\ DOMAIN s = 1..l
    BY ListShape
  <1> HIDE DEF l
  <1>2. f \in [1..l -> places]
    BY <1>1 DEF Enumerates
  <1>3. ASSUME NEW k \in 1..l, NEW m \in 1..l, f[k] = f[m] PROVE k = m
    <2>1. \A p \in places : ~ Before(n, start, p, p)
      BY DEF Before, RankFrom, PlacesOf
    <2>2. k < m => Before(n, start, at[k], at[m])
      BY <1>1 DEF Enumerates
    <2>3. m < k => Before(n, start, at[m], at[k])
      BY <1>1 DEF Enumerates
    <2>4. at[k] = at[m] /\ at[k] \in places
      BY <1>1, <1>3 DEF Enumerates
    <2> QED BY <2>1, <2>2, <2>3, <2>4
  <1>4. \A p \in places : \E k \in 1..l : f[k] = p
    BY <1>1 DEF Enumerates
  <1> HIDE DEF f
  <1>5. f \in Bijection(1..l, places)
    BY <1>2, <1>3, <1>4 DEF Bijection, Injection, Surjection, IsInjective
  <1>6. ExistsBijection(1..l, places)
    BY <1>5 DEF ExistsBijection
  <1>7. Cardinality(places) = l
    BY <1>1, <1>6, FS_CountingElements
  <1> QED BY <1>7 DEF l

\* The places of tiers' legs are places, in whichever order one comes first.
LEMMA PlacesFit ==
  ASSUME NEW tiers, AreTiers(tiers), NEW vertex, NEW start \in Nat
  PROVE  LET n == Len(tiers) places == PlacesFor(tiers, vertex) IN
         /\ n \in Nat /\ PlacesOf(places, n)
         /\ \A p, q \in places : ~ (Before(n, start, p, q) /\ Before(n, start, q, p))
  <1> DEFINE n == Len(tiers)
             places == PlacesFor(tiers, vertex)
  <1>1. n \in Nat /\ DOMAIN tiers = 1..n
    BY ListShape DEF AreTiers
  <1>2. ASSUME NEW p \in places PROVE p.tier \in 1..n /\ p.leg \in Nat
    <2>1. p \in LegPlaces(tiers)
      BY DEF PlacesFor
    <2>2. p.tier \in DOMAIN tiers /\ p.leg \in DOMAIN tiers[p.tier].legs
      BY <2>1, PlaceHas
    <2>3. IsList(tiers[p.tier].legs)
      BY <2>2 DEF AreTiers, IsTier, AreLegs
    <2>4. DOMAIN tiers[p.tier].legs \subseteq Nat
      BY <2>3, ListShape
    <2> QED BY <1>1, <2>2, <2>4
  <1> HIDE DEF n, places
  <1>3. ASSUME NEW p \in places, NEW q \in places
        PROVE  ~ (Before(n, start, p, q) /\ Before(n, start, q, p))
    <2>1. p.tier \in 1..n /\ p.leg \in Nat /\ q.tier \in 1..n /\ q.leg \in Nat
      BY <1>2
    <2> QED BY <1>1, <2>1 DEF Before, RankFrom
  <1> QED BY <1>1, <1>2, <1>3 DEF PlacesOf, n, places

\* m is the nearest of the tiers T to d: the first at or above it, or the last below.
NearestTo(m, d, T) ==
  /\ m \in T
  /\ IF m >= d THEN \A t \in T : t >= d => m <= t ELSE \A t \in T : t < d /\ t <= m

\* It does not matter whether an escalation starts at a tier or at the nearest one
\* that has legs.
LEMMA StartsAtNearest ==
  ASSUME NEW n \in Nat, NEW places, PlacesOf(places, n), NEW d \in 1..n, NEW m \in 1..n,
         NearestTo(m, d, {p.tier : p \in places})
  PROVE  \A p, q \in places : Before(n, d, p, q) <=> Before(n, m, p, q)
  <1> TAKE p, q \in places
  <1>1. p.tier \in 1..n /\ q.tier \in 1..n
    BY DEF PlacesOf
  <1>2. \A r \in places : IF m >= d THEN r.tier >= d => m <= r.tier ELSE r.tier < d /\ r.tier <= m
    BY DEF NearestTo
  <1>3. RankFrom(n, d, p.tier) < RankFrom(n, d, q.tier) <=> RankFrom(n, m, p.tier) < RankFrom(n, m, q.tier)
    <2>1. CASE m >= d
      <3>1. (p.tier >= d => m <= p.tier) /\ (q.tier >= d => m <= q.tier)
        BY <1>2, <2>1
      <3> QED BY <1>1, <2>1, <3>1 DEF RankFrom
    <2>2. CASE ~ (m >= d)
      <3>1. p.tier < d /\ p.tier <= m /\ q.tier < d /\ q.tier <= m
        BY <1>2, <2>2
      <3> QED BY <1>1, <2>2, <3>1 DEF RankFrom
    <2> QED BY <2>1, <2>2
  <1> QED BY <1>3 DEF Before

\* NearestServing is the nearest tier with legs.
LEMMA NearestIs ==
  ASSUME NEW tiers, IsList(tiers), NEW wanted \in Nat
  PROVE  LET serving == {t \in DOMAIN tiers : tiers[t].legs # <<>>} IN
         serving # {} => NearestTo(NearestServing(tiers, wanted), wanted, serving)
  <1> DEFINE serving == {t \in DOMAIN tiers : tiers[t].legs # <<>>}
             harder == {t \in serving : t >= wanted}
             Low(t) == \A u \in harder : t <= u
             High(t) == \A u \in serving : u <= t
             r == NearestServing(tiers, wanted)
  <1>1. DOMAIN tiers = 1..Len(tiers) /\ Len(tiers) \in Nat /\ serving \subseteq 1..Len(tiers) /\ serving \subseteq Nat
    BY ListShape
  <1>2. r = IF serving = {} THEN 0
            ELSE IF harder # {} THEN CHOOSE t \in harder : Low(t) ELSE CHOOSE t \in serving : High(t)
    BY Zenon DEF NearestServing
  <1> HIDE DEF serving
  <1>0. SUFFICES ASSUME serving # {} PROVE NearestTo(r, wanted, serving)
    BY DEF serving
  <1>3. CASE harder # {}
    <2>1. harder \subseteq Nat
      BY <1>1
    <2>2. \E t \in harder : Low(t)
      <3> HIDE DEF harder
      <3>1. \E t \in harder : \A u \in harder : t <= u
        BY <1>3, <2>1, LeastOf
      <3> QED BY <3>1
    <2>3. r = CHOOSE t \in harder : Low(t)
      BY <1>0, <1>2, <1>3
    <2> HIDE DEF Low, harder, r
    <2>4. r \in harder /\ Low(r)
      BY <2>2, <2>3
    <2> QED BY <2>4 DEF NearestTo, Low, harder, r
  <1>4. CASE harder = {}
    <2> DEFINE n == Len(tiers)
               T == {n - t : t \in serving}
    <2>1. T \subseteq Nat /\ T # {}
      <3>1. \A t \in serving : t \in 1..n /\ n \in Nat
        BY <1>1
      <3>2. \A t \in serving : n - t \in Nat
        BY <3>1
      <3>3. T # {}
        BY <1>0
      <3> QED BY <3>2, <3>3
    <2> HIDE DEF T
    <2>2. PICK m \in T : \A k \in T : m <= k
      BY <2>1, LeastOf
    <2>3. PICK t \in serving : m = n - t
      BY DEF T
    <2>4. ASSUME NEW u \in serving PROVE u <= t
      <3>1. n - u \in T
        BY DEF T
      <3>2. n - t <= n - u
        BY <2>2, <2>3, <3>1
      <3> QED BY <1>1, <3>2
    <2>5. \E v \in serving : High(v)
      BY <2>4
    <2>6. r = CHOOSE v \in serving : High(v)
      BY <1>0, <1>2, <1>4
    <2>7. \A v \in serving : ~ (v >= wanted)
      BY <1>4
    <2> HIDE DEF High, r, harder
    <2>8. r \in serving /\ High(r)
      BY <2>5, <2>6
    <2>9. \A v \in serving : v \in Nat
      BY <1>1
    <2>10. \A v \in serving : v < wanted /\ v <= r
      BY <2>7, <2>8, <2>9 DEF High
    <2> QED BY <2>7, <2>8, <2>10 DEF NearestTo, r
  <1> QED BY <1>3, <1>4

\* Some element is kept when some place is.
LEMMA SomeKept ==
  ASSUME NEW s, IsList(s), NEW places, places \subseteq DOMAIN s
  PROVE  ElementsAt(s, places) # <<>> <=> places # {}
  <1> DEFINE p == ElementsAt(s, places)
  <1>1. IsList(p)
    BY ElementsAtReads
  <1>2. PICK pos : ReadsAt(pos, p, s, places)
    BY ElementsAtReads
  <1> HIDE DEF p
  <1>3. DOMAIN p = {} <=> places = {}
    BY <1>2 DEF ReadsAt
  <1>4. DOMAIN p = {} <=> p = <<>>
    <2>1. DOMAIN p = 1..Len(p) /\ Len(p) \in Nat /\ p = [i \in 1..Len(p) |-> p[i]]
      BY <1>1, ListShape
    <2>2. ASSUME DOMAIN p = {} PROVE p = <<>>
      <3>1. Len(p) = 0
        BY <2>1, <2>2
      <3>2. p \in Seq(Range(p))
        BY <1>1 DEF IsList
      <3> QED BY <3>1, <3>2, EmptySeq
    <2> QED BY <2>2, NoElement
  <1> QED BY <1>3, <1>4 DEF p

\* The provider and the model of a place's leg, and of several places'.
ModelAt(tiers, q) == <<LegAt(tiers, q).provider, LegAt(tiers, q).model>>
ModelsAt(tiers, places) == {ModelAt(tiers, q) : q \in places}

\* The legs of what goes through some places are those of the places.
LEMMA ModelsOfPlaces ==
  ASSUME NEW tiers, NEW start, NEW places, NEW s, IsList(s), NEW at, GoesThrough(at, s, tiers, start, places)
  PROVE  /\ IsList(Models(s)) /\ Len(Models(s)) = Len(s) /\ DOMAIN Models(s) = DOMAIN s
         /\ \A k \in DOMAIN s : Models(s)[k] = ModelAt(tiers, at[k])
         /\ Range(Models(s)) = ModelsAt(tiers, places)
  <1>1. DOMAIN s = 1..Len(s) /\ Len(s) \in Nat
    BY ListShape
  <1> DEFINE m == Models(s)
  <1>2. m = [k \in 1..Len(s) |-> m[k]] /\ \A k \in DOMAIN s : m[k] = <<s[k].provider, s[k].model>>
    BY <1>1 DEF Models
  <1> HIDE DEF m
  <1>3. IsList(m) /\ Len(m) = Len(s) /\ DOMAIN m = DOMAIN s
    BY <1>1, <1>2, ListOf
  <1>4. /\ \A k \in DOMAIN s : at[k] \in places /\ SameModel(s[k], LegAt(tiers, at[k]))
        /\ \A q \in places : \E k \in DOMAIN s : at[k] = q
    BY DEF GoesThrough, Enumerates
  <1>5. \A k \in DOMAIN s : m[k] = ModelAt(tiers, at[k])
    BY <1>2, <1>4 DEF SameModel, ModelAt
  <1>6. Range(m) = ModelsAt(tiers, places)
    BY <1>3, <1>4, <1>5 DEF Range, ModelsAt
  <1> QED BY <1>3, <1>5, <1>6 DEF m

\* The route's default is one of its tiers.
LEMMA DefaultIsTier ==
  ASSUME NEW route, IsList(route.tiers), route.tiers # <<>>
  PROVE  DefaultIndex(route) \in 1..Len(route.tiers)
  <1> DEFINE tiers == route.tiers
             found == {i \in DOMAIN tiers : tiers[i].name = route.defaultTier}
  <1>1. DOMAIN tiers = 1..Len(tiers) /\ Len(tiers) \in Nat /\ Len(tiers) # 0
    BY ListShape, EmptySeq DEF IsList
  <1>2. Position(tiers, LAMBDA t : t.name = route.defaultTier) = FirstOf(found)
    BY DEF Position
  <1>3. DefaultIndex(route) = IF FirstOf(found) = 0 THEN 1 ELSE FirstOf(found)
    BY <1>2 DEF DefaultIndex
  <1>4. found \subseteq 1..Len(tiers) /\ found \subseteq Nat \ {0}
    BY <1>1
  <1>5. CASE found = {}
    BY <1>1, <1>3, <1>5 DEF FirstOf
  <1>6. CASE found # {}
    <2> HIDE DEF found
    <2>1. FirstOf(found) \in found
      BY <1>4, <1>6, FirstIs
    <2> QED BY <1>1, <1>3, <1>4, <2>1
  <1> QED BY <1>5, <1>6

\* The legs of a list that can serve.
AbleLegs(legs, vertex) == IF vertex THEN VertexLegs(legs) ELSE legs

\* The static order goes through the legs that can serve, from the default on.
LEMMA StaticGoesThrough ==
  ASSUME NEW route, AreTiers(route.tiers), route.tiers # <<>>, NEW vertex \in BOOLEAN
  PROVE  LET s == AbleLegs(StaticLegs(route), vertex) IN
         /\ IsList(s)
         /\ \E c : GoesThrough(c, s, route.tiers, DefaultIndex(route), PlacesFor(route.tiers, vertex))
  <1> DEFINE d == DefaultIndex(route)
             all == StaticLegs(route)
             p == OrderLegs(route.tiers, d, TierEffort(FALSE))
  <1>1. d \in 1..Len(route.tiers)
    BY DefaultIsTier DEF AreTiers
  <1>2. all = LegsOf(p)
    BY DEF StaticLegs
  <1> HIDE DEF d
  <1>3. IsList(p) /\ \E at : GoesThrough(at, LegsOf(p), route.tiers, d, LegPlaces(route.tiers))
    BY <1>1, OrderGoesThrough
  <1> HIDE DEF p
  <1>4. IsList(all)
    <2>1. LegsOf(p) = [i \in 1..Len(p) |-> LegsOf(p)[i]] /\ Len(p) \in Nat
      BY <1>3, ListShape DEF LegsOf
    <2> QED BY <1>2, <2>1, ListOf
  <1>5. PICK at : GoesThrough(at, all, route.tiers, d, LegPlaces(route.tiers))
    BY <1>2, <1>3
  <1> HIDE DEF all
  <1>6. CASE vertex
    BY <1>4, <1>5, <1>6, ThroughTheVertex DEF AbleLegs, all, d
  <1>7. CASE ~ vertex
    <2>1. PlacesFor(route.tiers, vertex) = LegPlaces(route.tiers)
      BY <1>7 DEF PlacesFor
    <2> QED BY <1>4, <1>5, <1>7, <2>1 DEF AbleLegs, all, d
  <1> QED BY <1>6, <1>7

\* Three ways to say which tiers can serve.
LEMMA ServingTiers ==
  ASSUME NEW tiers, AreTiers(tiers), NEW vertex \in BOOLEAN
  PROVE  LET T == {q.tier : q \in PlacesFor(tiers, vertex)}
             left == EligibleTiers(tiers, vertex)
         IN /\ {t \in DOMAIN left : left[t].legs # <<>>} = T
            /\ {t \in DOMAIN tiers : AbleLegs(tiers[t].legs, vertex) # <<>>} = T
  <1> DEFINE T == {q.tier : q \in PlacesFor(tiers, vertex)}
             left == EligibleTiers(tiers, vertex)
             able(t) == AblePlaces(tiers[t].legs, vertex)
  <1>1. \A t \in DOMAIN tiers : t \in T <=> able(t) # {}
    <2> TAKE t \in DOMAIN tiers
    <2>1. ASSUME NEW q \in PlacesFor(tiers, vertex), q.tier = t PROVE able(t) # {}
      <3>1. q \in LegPlaces(tiers) /\ (vertex => LegAt(tiers, q).provider = "vertex")
        BY DEF PlacesFor
      <3>2. q.leg \in able(t)
        BY <2>1, <3>1, PlaceHas DEF AblePlaces
      <3> QED BY <3>2
    <2>2. ASSUME NEW c \in able(t) PROVE t \in T
      <3>1. c \in DOMAIN tiers[t].legs /\ (vertex => tiers[t].legs[c].provider = "vertex")
        BY DEF AblePlaces
      <3>2. Place(t, c) \in PlacesFor(tiers, vertex) /\ Place(t, c).tier = t
        BY <3>1, PlaceIs DEF PlacesFor
      <3> QED BY <3>2
    <2> QED BY <2>1, <2>2
  <1>2. T \subseteq DOMAIN tiers
    BY PlaceHas DEF PlacesFor
  <1> HIDE DEF T
  <1>3. \A t \in DOMAIN tiers : IsList(tiers[t].legs) /\ able(t) \subseteq DOMAIN tiers[t].legs
    BY DEF AreTiers, IsTier, AreLegs, AblePlaces
  <1>4. ASSUME NEW t \in DOMAIN tiers PROVE left[t].legs # <<>> <=> able(t) # {}
    <2>1. left[t].legs = ElementsAt(tiers[t].legs, able(t))
      <3>1. left[t] = [tiers[t] EXCEPT !.legs = ElementsAt(@, able(t))]
        BY DEF EligibleTiers, Filter, AblePlaces
      <3>2. tiers[t] = [name |-> tiers[t].name, effort |-> tiers[t].effort, legs |-> tiers[t].legs]
        BY DEF AreTiers, IsTier
      <3> HIDE DEF left, able
      <3> QED BY <3>1, <3>2
    <2> HIDE DEF left, able
    <2> QED BY <1>3, <2>1, SomeKept
  <1>5. ASSUME NEW t \in DOMAIN tiers PROVE AbleLegs(tiers[t].legs, vertex) # <<>> <=> able(t) # {}
    <2>1. CASE vertex
      <3>1. VertexLegs(tiers[t].legs) = ElementsAt(tiers[t].legs, able(t))
        <4>1. able(t) = {i \in DOMAIN tiers[t].legs : IsVertex(tiers[t].legs[i])}
          BY <2>1 DEF AblePlaces, IsVertex
        <4> QED BY <4>1 DEF VertexLegs, Filter
      <3> HIDE DEF able
      <3> QED BY <1>3, <2>1, <3>1, SomeKept DEF AbleLegs
    <2>2. CASE ~ vertex
      <3>1. able(t) = DOMAIN tiers[t].legs
        BY <2>2 DEF AblePlaces
      <3>2. IsList(tiers[t].legs)
        BY <1>3
      <3>3. tiers[t].legs # <<>> <=> DOMAIN tiers[t].legs # {}
        <4> DEFINE s == tiers[t].legs
        <4>1. DOMAIN s = 1..Len(s) /\ Len(s) \in Nat /\ s \in Seq(Range(s))
          BY <3>2, ListShape DEF IsList
        <4> HIDE DEF s
        <4>2. DOMAIN s = {} => s = <<>>
          BY <4>1, EmptySeq
        <4>3. s = <<>> => DOMAIN s = {}
          BY NoElement
        <4> QED BY <4>2, <4>3 DEF s
      <3> QED BY <2>2, <3>1, <3>3 DEF AbleLegs
    <2> QED BY <2>1, <2>2
  <1>6. DOMAIN left = DOMAIN tiers
    BY EligibleIs
  <1> HIDE DEF left, able
  <1>7. {t \in DOMAIN left : left[t].legs # <<>>} = T
    BY <1>1, <1>2, <1>4, <1>6
  <1>8. {t \in DOMAIN tiers : AbleLegs(tiers[t].legs, vertex) # <<>>} = T
    BY <1>1, <1>2, <1>5
  <1> QED BY <1>7, <1>8 DEF T, left

\* What PlanFollowsDecision says of a plan for a route, made for vertex features or not.
Follows(p, route, vertex) ==
  LET static  == Models(AbleLegs(StaticLegs(route), vertex))
      planned == Models(Chain(p))
      serving == {t \in DOMAIN route.tiers : AbleLegs(route.tiers[t].legs, vertex) # <<>>}
      first   == p.legs[1].tier
  IN /\ Len(planned) = Len(static) /\ Range(planned) = Range(static)
     /\ IF p.outcome = "decided"
        THEN /\ first \in serving
             /\ \A t \in serving : IF first >= p.decided THEN t >= first \/ t < p.decided
                                   ELSE t <= first
        ELSE planned = static

\* A selection names a tier, and the route's default unless it was decided.
IsSelection(selection, route) ==
  /\ selection.tier \in Nat
  /\ selection.outcome # "decided" => selection.tier = DefaultIndex(route)

\* A plan for a route some tier of which can serve follows its selection.
LEMMA PlannedIs ==
  ASSUME NEW route, AreTiers(route.tiers), NEW vertex \in BOOLEAN, Servable(route, vertex),
         NEW selection, IsSelection(selection, route), NEW mode, NEW effort
  PROVE  Follows(TieredPlan(route, mode, selection, vertex, effort), route, vertex)
  <1> DEFINE tiers == route.tiers
             n == Len(tiers)
             left == EligibleTiers(tiers, vertex)
             has == {t \in DOMAIN left : left[t].legs # <<>>}
             places == PlacesFor(tiers, vertex)
             T == {q.tier : q \in places}
             want == selection.tier
             m == NearestServing(left, want)
             d == DefaultIndex(route)
             policy == IF effort THEN ClientEffort ELSE TierEffort(selection.bump)
             plan_ == TieredPlan(route, mode, selection, vertex, effort)
             order == OrderLegs(left, m, policy)
             chain == LegsOf(order)
             stat == AbleLegs(StaticLegs(route), vertex)
  <1>1. /\ n \in Nat /\ DOMAIN tiers = 1..n /\ AreTiers(left) /\ IsList(left) /\ Len(left) = n
        /\ DOMAIN left = 1..n /\ IsList(tiers)
    BY ListShape, EligibleIs DEF AreTiers
  <1>2. /\ plan_.decided = want /\ plan_.outcome = selection.outcome
        /\ m \in DOMAIN left => plan_.legs = order
    BY DEF TieredPlan
  <1>3. has = T /\ {t \in DOMAIN tiers : AbleLegs(tiers[t].legs, vertex) # <<>>} = T
    BY ServingTiers
  <1>4. NearestServing(left, 1) # 0
    BY DEF Servable
  <1>5. has # {}
    <2> SUFFICES ASSUME has = {} PROVE NearestServing(left, 1) = 0
      BY <1>4
    <2> QED BY Zenon DEF NearestServing
  <1>6. NearestTo(m, want, has)
    <2>1. want \in Nat
      BY DEF IsSelection
    <2> QED BY <1>1, <1>5, <2>1, NearestIs
  <1>7. m \in 1..n /\ m \in T /\ T # {} /\ plan_.legs = order
    <2>1. m \in 1..n /\ m \in T /\ T # {}
      BY <1>1, <1>3, <1>6 DEF NearestTo
    <2> QED BY <1>1, <1>2, <2>1
  <1>8. tiers # <<>> /\ d \in 1..n
    <2>1. tiers # <<>>
      BY <1>1, <1>7, NoElement
    <2> QED BY <1>1, <2>1, DefaultIsTier
  <1> HIDE DEF left, m, d, plan_, order, stat, n
  <1>9. /\ IsList(order)
        /\ \E at : /\ \A k \in DOMAIN order : order[k].tier = at[k].tier
                   /\ GoesThrough(at, LegsOf(order), left, m, LegPlaces(left))
    BY <1>1, <1>7, OrderGoesThrough DEF order
  <1>10. IsList(chain) /\ DOMAIN chain = DOMAIN order
    <2>1. chain = [i \in 1..Len(order) |-> chain[i]] /\ Len(order) \in Nat /\ DOMAIN chain = DOMAIN order
      BY <1>9, ListShape DEF LegsOf
    <2> QED BY <2>1, ListOf
  <1> HIDE DEF chain
  <1>11. PICK b : /\ \A k \in DOMAIN order : order[k].tier = b[k].tier
                  /\ GoesThrough(b, chain, tiers, m, places)
    <2>1. PICK at : /\ \A k \in DOMAIN order : order[k].tier = at[k].tier
                    /\ GoesThrough(at, chain, left, m, LegPlaces(left))
      BY <1>9 DEF chain
    <2>2. \E b : /\ \A k \in DOMAIN chain : b[k].tier = at[k].tier
                 /\ GoesThrough(b, chain, tiers, m, places)
      BY <1>7, <2>1, ThroughTheEligible DEF left, n
    <2> QED BY <1>10, <2>1, <2>2
  <1>12. IsList(stat) /\ \E c : GoesThrough(c, stat, tiers, d, places)
    BY <1>8, StaticGoesThrough DEF stat, d
  <1>13. PICK c : GoesThrough(c, stat, tiers, d, places)
    BY <1>12
  <1>14. \A start \in Nat : /\ PlacesOf(places, n)
                            /\ \A p, q \in places : ~ (Before(n, start, p, q) /\ Before(n, start, q, p))
    BY PlacesFit DEF n
  <1>15. Enumerates(b, chain, n, m, places) /\ Enumerates(c, stat, n, d, places)
    BY <1>11, <1>13 DEF GoesThrough, n
  <1> HIDE DEF places
  <1>16. Len(chain) = Len(stat)
    <2>1. Len(chain) = Cardinality(places)
      BY <1>1, <1>7, <1>10, <1>14, <1>15, AsManyAsPlaces
    <2>2. Len(stat) = Cardinality(places)
      BY <1>1, <1>8, <1>12, <1>14, <1>15, AsManyAsPlaces
    <2> QED BY <2>1, <2>2
  <1>17. /\ IsList(Models(chain)) /\ Len(Models(chain)) = Len(chain) /\ DOMAIN Models(chain) = DOMAIN chain
         /\ \A k \in DOMAIN chain : Models(chain)[k] = ModelAt(tiers, b[k])
         /\ IsList(Models(stat)) /\ Len(Models(stat)) = Len(stat) /\ DOMAIN Models(stat) = DOMAIN stat
         /\ \A k \in DOMAIN stat : Models(stat)[k] = ModelAt(tiers, c[k])
         /\ Range(Models(chain)) = Range(Models(stat))
    <2>1. /\ IsList(Models(chain)) /\ Len(Models(chain)) = Len(chain) /\ DOMAIN Models(chain) = DOMAIN chain
          /\ \A k \in DOMAIN chain : Models(chain)[k] = ModelAt(tiers, b[k])
          /\ Range(Models(chain)) = ModelsAt(tiers, places)
      BY <1>10, <1>11, ModelsOfPlaces
    <2>2. /\ IsList(Models(stat)) /\ Len(Models(stat)) = Len(stat) /\ DOMAIN Models(stat) = DOMAIN stat
          /\ \A k \in DOMAIN stat : Models(stat)[k] = ModelAt(tiers, c[k])
          /\ Range(Models(stat)) = ModelsAt(tiers, places)
      BY <1>12, <1>13, ModelsOfPlaces
    <2> QED BY <2>1, <2>2
  <1>18. plan_.legs[1].tier = m
    <2>1. PICK q \in places : q.tier = m
      BY <1>7
    <2>2. PICK k \in DOMAIN chain : b[k] = q
      BY <1>15, <2>1 DEF Enumerates
    <2>3. DOMAIN chain = 1..Len(chain) /\ Len(chain) \in Nat /\ 1 \in DOMAIN chain
      BY <1>10, <2>2, ListShape
    <2>4. order[1].tier = b[1].tier /\ b[1] \in places
      BY <1>10, <1>11, <1>15, <2>3 DEF Enumerates
    <2>5. b[1].tier \in 1..n
      BY <1>1, <1>14, <2>4 DEF PlacesOf
    <2>6. CASE k = 1
      BY <1>7, <2>1, <2>2, <2>4, <2>6
    <2>7. CASE k # 1
      <3>1. Before(n, m, b[1], b[k])
        BY <1>15, <2>2, <2>3, <2>7 DEF Enumerates
      <3>2. RankFrom(n, m, m) = 0 /\ RankFrom(n, m, b[1].tier) >= 0
        BY <1>1, <1>7, <2>5 DEF RankFrom
      <3>3. b[1].tier = m
        <4>1. b[1].tier = b[k].tier \/ RankFrom(n, m, b[1].tier) < RankFrom(n, m, b[k].tier)
          BY <3>1 DEF Before
        <4>2. b[k].tier = m
          BY <2>1, <2>2
        <4>3. RankFrom(n, m, b[1].tier) \in Nat
          BY <1>1, <1>7, <2>5 DEF RankFrom
        <4> QED BY <3>2, <4>1, <4>2, <4>3
      <3> QED BY <1>7, <2>4, <3>3
    <2> QED BY <2>6, <2>7
  <1>19. ASSUME selection.outcome # "decided" PROVE Models(chain) = Models(stat)
    <2>1. want = d
      BY <1>19 DEF IsSelection, d
    <2>2. NearestTo(m, d, T)
      BY <1>3, <1>6, <2>1
    <2>3. \A p, q \in places : Before(n, d, p, q) <=> Before(n, m, p, q)
      BY <1>1, <1>7, <1>8, <1>14, <2>2, StartsAtNearest
    <2>4. Enumerates(b, chain, n, d, places)
      BY <1>15, <2>3 DEF Enumerates
    <2>5. \A k \in DOMAIN chain : k \in DOMAIN stat /\ b[k] = c[k]
      BY <1>1, <1>8, <1>10, <1>12, <1>14, <1>15, <2>4, Agree
    <2>6. \A k \in 1..Len(Models(chain)) : Models(chain)[k] = Models(stat)[k]
      BY <1>10, <1>17, <2>5, ListShape
    <2> QED BY <1>16, <1>17, <2>6, SameList
  <1>20. \A t \in T : IF m >= want THEN t >= m \/ t < want ELSE t <= m
    <2>1. \A t \in T : t \in Nat
      BY <1>1, <1>14 DEF PlacesOf
    <2>2. want \in Nat
      BY DEF IsSelection
    <2> HIDE DEF T, want
    <2> QED BY <1>1, <1>3, <1>6, <1>7, <2>1, <2>2 DEF NearestTo
  <1>21. Chain(plan_) = chain
    BY <1>7 DEF Chain, chain
  <1> QED BY <1>2, <1>3, <1>7, <1>16, <1>17, <1>18, <1>19, <1>20, <1>21 DEF Follows, plan_, stat

-----------------------------------------------------------------------------
(* The table of routes and what startup leaves of it: providers of legs are  *)
(* all that credentials can tell apart.                                      *)

ProvidersOf(legs) == {l.provider : l \in Range(legs)}
ProvidersIn(tiers) == {LegAt(tiers, q).provider : q \in LegPlaces(tiers)}

\* A list without providers is empty.
LEMMA NoProvider ==
  ASSUME NEW legs, IsList(legs)
  PROVE  legs = <<>> <=> ProvidersOf(legs) = {}
  <1>1. DOMAIN legs = 1..Len(legs) /\ Len(legs) \in Nat /\ legs \in Seq(Range(legs))
    BY ListShape DEF IsList
  <1>2. CASE legs = <<>>
    BY <1>2, NoElement DEF ProvidersOf
  <1>3. CASE legs # <<>>
    <2>1. 1 \in DOMAIN legs
      BY <1>1, <1>3, EmptySeq
    <2> QED BY <1>3, <2>1 DEF ProvidersOf, Range
  <1> QED BY <1>2, <1>3

\* What dropping providers leaves of some legs.
LEMMA KeptIs ==
  ASSUME NEW legs, IsList(legs), NEW drop
  PROVE  LET left == Kept(legs, drop) IN
         /\ IsList(left) /\ ProvidersOf(left) = ProvidersOf(legs) \ drop
         /\ AreLegs(legs) => AreLegs(left)
  <1> DEFINE places == {i \in DOMAIN legs : legs[i].provider \notin drop}
             left == ElementsAt(legs, places)
  <1>1. Kept(legs, drop) = left
    BY DEF Kept, Filter
  <1>2. places \subseteq DOMAIN legs
    OBVIOUS
  <1>3. IsList(left) /\ Range(left) = {legs[i] : i \in places}
    BY <1>2, ElementsAtReads, ElementsAtRange
  <1> HIDE DEF left
  <1>4. AreLegs(legs) => AreLegs(left)
    BY <1>3 DEF Range, AreLegs
  <1>5. ProvidersOf(left) = ProvidersOf(legs) \ drop
    BY <1>3 DEF ProvidersOf, Range
  <1> QED BY <1>1, <1>3, <1>4, <1>5

\* A route Jev can decide.
IsJevRoute(route) ==
  /\ route = [tiers |-> route.tiers, defaultTier |-> route.defaultTier,
              minConfidence |-> route.minConfidence, reasoningThreshold |-> route.reasoningThreshold]
  /\ AreTiers(route.tiers) /\ Len(route.tiers) >= 2
  /\ \A t \in DOMAIN route.tiers : route.tiers[t].legs # <<>>
  /\ \E t \in Range(route.tiers) : t.name = route.defaultTier

\* The static order has the legs of the tiers, and so has their list.
LEMMA StaticProviders ==
  ASSUME NEW route, AreTiers(route.tiers), route.tiers # <<>>
  PROVE  IsList(StaticLegs(route)) /\ ProvidersOf(StaticLegs(route)) = ProvidersIn(route.tiers)
  <1> DEFINE s == StaticLegs(route)
             d == DefaultIndex(route)
             places == PlacesFor(route.tiers, FALSE)
  <1>1. IsList(s) /\ \E c : GoesThrough(c, s, route.tiers, d, places)
    BY StaticGoesThrough DEF AbleLegs
  <1>2. PICK c : GoesThrough(c, s, route.tiers, d, places)
    BY <1>1
  <1>3. places = LegPlaces(route.tiers)
    BY DEF PlacesFor
  <1>4. ProvidersOf(s) = ProvidersIn(route.tiers)
    <2>1. /\ \A k \in DOMAIN s : c[k] \in LegPlaces(route.tiers) /\ s[k].provider = LegAt(route.tiers, c[k]).provider
          /\ \A q \in LegPlaces(route.tiers) : \E k \in DOMAIN s : c[k] = q
      BY <1>2, <1>3 DEF GoesThrough, Enumerates, SameModel
    <2> HIDE DEF s
    <2> QED BY <2>1 DEF ProvidersOf, ProvidersIn, Range
  <1> QED BY <1>1, <1>4

\* The legs a route lists have the providers of its tiers' legs.
LEMMA OwnProviders ==
  ASSUME NEW tiers, AreTiers(tiers)
  PROVE  LET own == FlatMap(tiers, LAMBDA t : t.legs) IN
         IsList(own) /\ ProvidersOf(own) = ProvidersIn(tiers)
  <1> DEFINE ss == [t \in DOMAIN tiers |-> tiers[t].legs]
             own == FlattenSeq(ss)
  <1>1. FlatMap(tiers, LAMBDA t : t.legs) = own
    BY DEF FlatMap
  <1>2. Len(tiers) \in Nat /\ DOMAIN tiers = 1..Len(tiers)
    BY ListShape DEF AreTiers
  <1>3. ss = [t \in 1..Len(tiers) |-> ss[t]] /\ DOMAIN ss = DOMAIN tiers /\ \A t \in DOMAIN ss : ss[t] = tiers[t].legs
    BY <1>2
  <1> HIDE DEF ss
  <1>4. IsList(ss)
    BY <1>2, <1>3, ListOf
  <1>5. \A t \in DOMAIN ss : IsList(ss[t])
    BY <1>3 DEF AreTiers, IsTier, AreLegs
  <1>6. IsList(own)
    BY <1>4, <1>5, FlattenReads
  <1>7. /\ \A k \in DOMAIN own : \E t \in DOMAIN ss : \E c \in DOMAIN ss[t] : own[k] = ss[t][c]
        /\ \A t \in DOMAIN ss : \A c \in DOMAIN ss[t] : \E k \in DOMAIN own : own[k] = ss[t][c]
    BY <1>4, <1>5, FlattenRange
  <1> HIDE DEF own
  <1>8. ASSUME NEW k \in DOMAIN own PROVE own[k].provider \in ProvidersIn(tiers)
    <2>1. PICK t \in DOMAIN tiers : \E c \in DOMAIN tiers[t].legs : own[k] = tiers[t].legs[c]
      BY <1>3, <1>7
    <2>2. PICK c \in DOMAIN tiers[t].legs : own[k] = tiers[t].legs[c]
      BY <2>1
    <2>3. Place(t, c) \in LegPlaces(tiers) /\ LegAt(tiers, Place(t, c)) = own[k]
      BY <2>2, PlaceIs
    <2> QED BY <2>3 DEF ProvidersIn
  <1>9. ASSUME NEW q \in LegPlaces(tiers) PROVE \E k \in DOMAIN own : own[k].provider = LegAt(tiers, q).provider
    <2>1. q.tier \in DOMAIN tiers /\ q.leg \in DOMAIN tiers[q.tier].legs /\ LegAt(tiers, q) = tiers[q.tier].legs[q.leg]
      BY PlaceHas
    <2>2. q.tier \in DOMAIN ss /\ ss[q.tier] = tiers[q.tier].legs
      BY <1>3, <2>1
    <2>3. \E k \in DOMAIN own : own[k] = tiers[q.tier].legs[q.leg]
      BY <1>7, <2>1, <2>2
    <2> QED BY <2>1, <2>3
  <1>10. ProvidersOf(own) = ProvidersIn(tiers)
    BY <1>8, <1>9 DEF ProvidersOf, ProvidersIn, Range
  <1> QED BY <1>1, <1>6, <1>10

\* A route that is still decided after some providers are dropped has at least two
\* tiers, all with legs, its default among them, and lost no other provider.
LEMMA PrunedIs ==
  ASSUME NEW route, IsJevRoute(route), NEW drop, PrunedRoute(route, drop) # None
  PROVE  LET left == PrunedRoute(route, drop) IN
         IsJevRoute(left) /\ ProvidersIn(left.tiers) = ProvidersIn(route.tiers) \ drop
  <1> DEFINE tiers == route.tiers
             T(i) == [tiers[i] EXCEPT !.legs = Kept(@, drop)]
             pruned == [i \in DOMAIN tiers |-> [at |-> i, tier |-> T(i)]]
             places == {i \in DOMAIN pruned : pruned[i].tier.legs # <<>>}
             kept == ElementsAt(pruned, places)
             picked == FirstOf({i \in DOMAIN kept : kept[i].at >= DefaultIndex(route)})
             which == IF picked = 0 THEN Len(kept) ELSE picked
             final == [i \in DOMAIN kept |-> kept[i].tier]
             left == PrunedRoute(route, drop)
  <1>1. /\ left = [route EXCEPT !.tiers = final, !.defaultTier = kept[which].tier.name]
        /\ ~ (Len(kept) < 2)
    <2>1. left = IF Len(kept) < 2 THEN None
                 ELSE [route EXCEPT !.tiers = final, !.defaultTier = kept[which].tier.name]
      BY DEF PrunedRoute, Filter, Position
    <2> HIDE DEF kept, final
    <2> QED BY <2>1
  <1>2. /\ Len(tiers) \in Nat /\ DOMAIN tiers = 1..Len(tiers)
        /\ \A i \in DOMAIN tiers : IsTier(tiers[i])
    BY ListShape DEF IsJevRoute, AreTiers
  <1>3. ASSUME NEW i \in DOMAIN tiers
        PROVE  /\ IsTier(T(i)) /\ T(i).legs = Kept(tiers[i].legs, drop)
               /\ ProvidersOf(T(i).legs) = ProvidersOf(tiers[i].legs) \ drop
    <2>1. /\ tiers[i] = [name |-> tiers[i].name, effort |-> tiers[i].effort, legs |-> tiers[i].legs]
          /\ AreLegs(tiers[i].legs) /\ IsList(tiers[i].legs)
      BY <1>2 DEF IsTier, AreLegs
    <2>2. T(i) = [name |-> tiers[i].name, effort |-> tiers[i].effort, legs |-> Kept(tiers[i].legs, drop)]
      BY <2>1
    <2> HIDE DEF T
    <2> QED BY <2>1, <2>2, KeptIs DEF IsTier
  <1>4. /\ pruned = [i \in 1..Len(tiers) |-> pruned[i]] /\ DOMAIN pruned = DOMAIN tiers
        /\ \A i \in DOMAIN tiers : pruned[i].at = i /\ pruned[i].tier = T(i)
    BY <1>2
  <1> HIDE DEF pruned, T
  <1>5. IsList(pruned) /\ places \subseteq DOMAIN pruned
    BY <1>2, <1>4, ListOf
  <1>6. IsList(kept) /\ Len(kept) \in Nat /\ DOMAIN kept = 1..Len(kept) /\ Len(kept) >= 2
    <2>1. IsList(kept)
      BY <1>5, ElementsAtReads
    <2> HIDE DEF kept
    <2> QED BY <1>1, <2>1, ListShape
  <1>7. PICK pos : ReadsAt(pos, kept, pruned, places)
    BY <1>5, ElementsAtReads
  <1> HIDE DEF kept
  <1>8. \A k \in DOMAIN kept : /\ pos[k] \in DOMAIN tiers /\ kept[k].at = pos[k] /\ kept[k].tier = T(pos[k])
                               /\ T(pos[k]).legs # <<>>
    <2> TAKE k \in DOMAIN kept
    <2>1. pos[k] \in places /\ kept[k] = pruned[pos[k]]
      <3> HIDE DEF places
      <3> QED BY <1>7 DEF ReadsAt
    <2>2. pos[k] \in DOMAIN tiers /\ pruned[pos[k]].tier.legs # <<>>
      BY <1>4, <2>1
    <2> QED BY <1>4, <2>1, <2>2
  <1>9. which \in DOMAIN kept
    <2> DEFINE P == {i \in DOMAIN kept : kept[i].at >= DefaultIndex(route)}
    <2>1. P \subseteq Nat
      BY <1>6
    <2>2. FirstOf(P) = 0 \/ FirstOf(P) \in P
      <3> HIDE DEF P
      <3>1. P # {} => FirstOf(P) \in P
        BY <2>1, FirstIs
      <3>2. P = {} => FirstOf(P) = 0
        BY DEF FirstOf
      <3> QED BY <3>1, <3>2
    <2> QED BY <1>6, <2>2
  <1> HIDE DEF which
  <1>10. final = [k \in 1..Len(kept) |-> final[k]] /\ DOMAIN final = DOMAIN kept
         /\ \A k \in DOMAIN kept : final[k] = kept[k].tier
    BY <1>6
  <1> HIDE DEF final
  <1>11. IsList(final) /\ Len(final) = Len(kept)
    BY <1>6, <1>10, ListOf
  <1>12. left = [tiers |-> final, defaultTier |-> kept[which].tier.name,
                 minConfidence |-> route.minConfidence, reasoningThreshold |-> route.reasoningThreshold]
    BY <1>1 DEF IsJevRoute
  <1> HIDE DEF left
  <1>13. /\ AreTiers(final) /\ \A k \in DOMAIN final : final[k].legs # <<>>
    <2>1. \A k \in DOMAIN final : IsTier(final[k]) /\ final[k].legs # <<>>
      BY <1>3, <1>8, <1>10
    <2> QED BY <1>11, <2>1 DEF AreTiers
  <1>14. final[which] \in Range(final) /\ final[which].name = kept[which].tier.name
    BY <1>9, <1>10 DEF Range
  <1>15. IsJevRoute(left)
    BY <1>6, <1>11, <1>12, <1>13, <1>14 DEF IsJevRoute
  <1>16. ASSUME NEW q \in LegPlaces(final) PROVE LegAt(final, q).provider \in ProvidersIn(tiers) \ drop
    <2>1. q.tier \in DOMAIN final /\ q.leg \in DOMAIN final[q.tier].legs /\ LegAt(final, q) = final[q.tier].legs[q.leg]
      BY PlaceHas
    <2>2. PICK i \in DOMAIN tiers : final[q.tier] = T(i)
      BY <1>8, <1>10, <2>1
    <2>3. LegAt(final, q).provider \in ProvidersOf(T(i).legs)
      BY <2>1, <2>2 DEF ProvidersOf, Range
    <2>4. LegAt(final, q).provider \in ProvidersOf(tiers[i].legs) \ drop
      BY <1>3, <2>3
    <2>5. PICK c \in DOMAIN tiers[i].legs : LegAt(final, q).provider = tiers[i].legs[c].provider
      BY <2>4 DEF ProvidersOf, Range
    <2>6. Place(i, c) \in LegPlaces(tiers) /\ LegAt(tiers, Place(i, c)) = tiers[i].legs[c]
      BY PlaceIs
    <2> QED BY <2>4, <2>5, <2>6 DEF ProvidersIn
  <1>17. ASSUME NEW q \in LegPlaces(tiers), LegAt(tiers, q).provider \notin drop
         PROVE  LegAt(tiers, q).provider \in ProvidersIn(final)
    <2> DEFINE p == LegAt(tiers, q).provider
               t == q.tier
    <2>1. t \in DOMAIN tiers /\ q.leg \in DOMAIN tiers[t].legs /\ p = tiers[t].legs[q.leg].provider
      BY PlaceHas
    <2>2. p \in ProvidersOf(tiers[t].legs) \ drop
      BY <1>17, <2>1 DEF ProvidersOf, Range
    <2>3. p \in ProvidersOf(T(t).legs)
      BY <1>3, <2>1, <2>2
    <2>4. T(t).legs # <<>>
      BY <2>3, NoElement DEF ProvidersOf
    <2>5. t \in places
      <3>1. pruned[t].tier = T(t) /\ t \in DOMAIN pruned
        BY <1>4, <2>1
      <3> QED BY <2>4, <3>1
    <2>6. PICK k \in DOMAIN kept : pos[k] = t
      BY <1>7, <2>5 DEF ReadsAt
    <2>7. final[k] = T(t) /\ k \in DOMAIN final
      BY <1>8, <1>10, <2>6
    <2>8. PICK c \in DOMAIN T(t).legs : p = T(t).legs[c].provider
      BY <2>3 DEF ProvidersOf, Range
    <2>9. Place(k, c) \in LegPlaces(final) /\ LegAt(final, Place(k, c)) = final[k].legs[c]
      BY <2>7, <2>8, PlaceIs
    <2> QED BY <2>7, <2>8, <2>9 DEF ProvidersIn
  <1>18. ProvidersIn(final) = ProvidersIn(tiers) \ drop
    BY <1>16, <1>17 DEF ProvidersIn
  <1> QED BY <1>12, <1>15, <1>18 DEF left

\* A table: lists of legs, and of a decided route those of its tiers.
IsTable(table) ==
  /\ \A a \in DOMAIN table.legs : IsList(table.legs[a])
  /\ \A a \in DOMAIN table.jev : /\ IsJevRoute(table.jev[a]) /\ a \in DOMAIN table.legs
                                 /\ table.legs[a] = StaticLegs(table.jev[a])

\* The legs an entry of a file was written with.
OwnLegs(e) == IF e.strategy = "jev" THEN FlatMap(e.tiers, LAMBDA t : t.legs) ELSE e.legs

\* A file's table has its entries' legs and policies.
LEMMA FromFileIs ==
  ASSUME NEW file, \A a \in DOMAIN file : IsEntry(file[a]), FromFile(file) # None
  PROVE  LET table == FromFile(file) IN
         /\ IsTable(table) /\ DOMAIN table.legs = DOMAIN file
         /\ \A a \in DOMAIN file :
              /\ IsList(OwnLegs(file[a])) /\ ProvidersOf(table.legs[a]) = ProvidersOf(OwnLegs(file[a]))
              /\ PolicyOf(table, a) = IF file[a].policy = None THEN "default" ELSE file[a].policy
  <1> DEFINE table == FromFile(file)
             jev == {a \in DOMAIN file : file[a].strategy = "jev"}
             legs == [a \in DOMAIN file |-> IF a \in jev THEN StaticLegs(JevRouteOf(file[a])) ELSE file[a].legs]
             routes == [a \in jev |-> JevRouteOf(file[a])]
             policies == [a \in {b \in DOMAIN file : file[b].policy # None} |-> file[a].policy]
  <1>1. /\ \A a \in DOMAIN file : ValidEntry(file[a])
        /\ table = [legs |-> legs, jev |-> routes, policies |-> policies, declared |-> jev]
    <2>1. table = IF \E a \in DOMAIN file : ~ ValidEntry(file[a]) THEN None
                  ELSE [legs |-> legs, jev |-> routes, policies |-> policies, declared |-> jev]
      BY DEF FromFile
    <2> HIDE DEF legs, routes, policies, jev
    <2> QED BY <2>1
  <1>2. table.legs = legs /\ table.jev = routes /\ table.policies = policies
    BY <1>1
  <1> HIDE DEF table
  <1>3. ASSUME NEW a \in jev
        PROVE  /\ IsJevRoute(routes[a]) /\ routes[a].tiers = file[a].tiers
               /\ legs[a] = StaticLegs(routes[a]) /\ a \in DOMAIN legs
               /\ IsList(legs[a]) /\ ProvidersOf(legs[a]) = ProvidersIn(file[a].tiers)
    <2> DEFINE e == file[a]
               r == JevRouteOf(e)
    <2>1. IsEntry(e) /\ e.strategy = "jev" /\ ValidJevRoute(e.router, e.tiers)
      BY <1>1 DEF ValidEntry
    <2>2. routes[a] = r /\ legs[a] = StaticLegs(r) /\ a \in DOMAIN legs
      OBVIOUS
    <2> HIDE DEF e, routes, legs
    <2>3. r = [tiers |-> e.tiers, defaultTier |-> e.router.defaultTier,
               minConfidence |-> e.router.minConfidence, reasoningThreshold |-> e.router.reasoningThreshold]
      BY DEF JevRouteOf
    <2> HIDE DEF r
    <2>4. AreTiers(e.tiers) /\ Len(e.tiers) \in Nat
      BY <2>1, ListShape DEF IsEntry, AreTiers
    <2>5. /\ Len(e.tiers) >= 2 /\ \A t \in DOMAIN e.tiers : e.tiers[t].legs # <<>>
          /\ \E t \in DOMAIN e.tiers : e.tiers[t].name = e.router.defaultTier
      BY <2>1 DEF ValidJevRoute
    <2>6. IsJevRoute(r)
      BY <2>3, <2>4, <2>5 DEF IsJevRoute, Range
    <2>7. e.tiers # <<>>
      BY <2>4, <2>5, NoElement, ListShape DEF AreTiers
    <2>8. IsList(StaticLegs(r)) /\ ProvidersOf(StaticLegs(r)) = ProvidersIn(e.tiers)
      BY <2>3, <2>4, <2>7, StaticProviders
    <2> QED BY <2>2, <2>3, <2>6, <2>8 DEF e
  <1>4. ASSUME NEW a \in DOMAIN file, a \notin jev
        PROVE  legs[a] = file[a].legs /\ IsList(legs[a])
    <2>1. file[a].legs # None
      BY <1>1, <1>4 DEF ValidEntry
    <2> QED BY <1>4, <2>1 DEF IsEntry, AreLegs
  <1>5. DOMAIN legs = DOMAIN file /\ DOMAIN routes = jev
    OBVIOUS
  <1> HIDE DEF legs, routes
  <1>6. IsTable(table)
    BY <1>2, <1>3, <1>4, <1>5 DEF IsTable
  <1>7. ASSUME NEW a \in DOMAIN file
        PROVE  IsList(OwnLegs(file[a])) /\ ProvidersOf(legs[a]) = ProvidersOf(OwnLegs(file[a]))
    <2>1. CASE a \in jev
      <3>1. OwnLegs(file[a]) = FlatMap(file[a].tiers, LAMBDA t : t.legs)
        BY <2>1 DEF OwnLegs
      <3>2. AreTiers(file[a].tiers)
        BY <1>3, <2>1 DEF IsJevRoute
      <3> QED BY <1>3, <2>1, <3>1, <3>2, OwnProviders
    <2>2. CASE a \notin jev
      <3>1. OwnLegs(file[a]) = file[a].legs
        BY <2>2 DEF OwnLegs
      <3> QED BY <1>4, <2>2, <3>1
    <2> QED BY <2>1, <2>2
  <1>8. \A a \in DOMAIN file : PolicyOf(table, a) = IF file[a].policy = None THEN "default" ELSE file[a].policy
    BY <1>2 DEF PolicyOf, Lookup
  <1> QED BY <1>2, <1>5, <1>6, <1>7, <1>8 DEF table

\* What dropping providers leaves of a table.
LEMMA PrunedTableIs ==
  ASSUME NEW table, IsTable(table), NEW drop
  PROVE  LET left == WithoutProviders(table, drop) IN
         /\ IsTable(left)
         /\ DOMAIN left.legs = {a \in DOMAIN table.legs : ProvidersOf(table.legs[a]) \ drop # {}}
         /\ \A a \in DOMAIN left.legs :
              /\ ProvidersOf(left.legs[a]) = ProvidersOf(table.legs[a]) \ drop
              /\ PolicyOf(left, a) = PolicyOf(table, a)
  <1> DEFINE left == WithoutProviders(table, drop)
             decided == {a \in DOMAIN table.jev : "typesafe" \notin drop /\ PrunedRoute(table.jev[a], drop) # None}
             jev == [a \in decided |-> PrunedRoute(table.jev[a], drop)]
             Left(a) == IF a \in decided THEN StaticLegs(jev[a]) ELSE Kept(table.legs[a], drop)
             some == {a \in DOMAIN table.legs : Left(a) # <<>>}
             legs == [a \in some |-> Left(a)]
             policies == [a \in DOMAIN table.policies \cap some |-> table.policies[a]]
  <1>1. left.legs = legs /\ left.jev = jev /\ left.policies = policies
    BY DEF WithoutProviders
  <1>2. ASSUME NEW a \in decided
        PROVE  /\ IsJevRoute(jev[a]) /\ a \in DOMAIN table.legs /\ Left(a) = StaticLegs(jev[a])
               /\ IsList(Left(a)) /\ ProvidersOf(Left(a)) = ProvidersOf(table.legs[a]) \ drop /\ Left(a) # <<>>
    <2> DEFINE old == table.jev[a]
               new == PrunedRoute(old, drop)
    <2>1. /\ IsJevRoute(old) /\ a \in DOMAIN table.legs /\ table.legs[a] = StaticLegs(old) /\ new # None
          /\ jev[a] = new /\ Left(a) = StaticLegs(new)
      BY DEF IsTable
    <2> HIDE DEF old, new, jev, Left
    <2>2. IsJevRoute(new) /\ ProvidersIn(new.tiers) = ProvidersIn(old.tiers) \ drop
      BY <2>1, PrunedIs DEF new
    <2>3. \A r : IsJevRoute(r) => /\ AreTiers(r.tiers) /\ r.tiers # <<>> /\ 1 \in DOMAIN r.tiers
                                  /\ r.tiers[1].legs # <<>>
      <3> TAKE r
      <3> HAVE IsJevRoute(r)
      <3>1. DOMAIN r.tiers = 1..Len(r.tiers) /\ Len(r.tiers) \in Nat /\ Len(r.tiers) >= 2
        BY ListShape DEF IsJevRoute, AreTiers
      <3>2. 1 \in DOMAIN r.tiers
        BY <3>1
      <3> QED BY <3>2, NoElement DEF IsJevRoute
    <2>4. /\ IsList(StaticLegs(new)) /\ ProvidersOf(StaticLegs(new)) = ProvidersIn(new.tiers)
          /\ ProvidersOf(StaticLegs(old)) = ProvidersIn(old.tiers)
      BY <2>1, <2>2, <2>3, StaticProviders
    <2>5. ProvidersIn(new.tiers) # {}
      <3> DEFINE s == new.tiers[1].legs
      <3>1. 1 \in DOMAIN new.tiers /\ s # <<>> /\ IsList(s)
        BY <2>2, <2>3 DEF AreTiers, IsTier, AreLegs
      <3> HIDE DEF s
      <3>2. ProvidersOf(s) # {}
        BY <3>1, NoProvider
      <3>3. PICK c \in DOMAIN s : TRUE
        BY <3>2 DEF ProvidersOf, Range
      <3>4. Place(1, c) \in LegPlaces(new.tiers)
        BY <3>1, <3>3, PlaceIs DEF s
      <3> QED BY <3>4 DEF ProvidersIn
    <2>6. StaticLegs(new) # <<>>
      BY <2>4, <2>5, NoProvider
    <2> QED BY <2>1, <2>2, <2>4, <2>6
  <1>3. ASSUME NEW a \in DOMAIN table.legs
        PROVE  IsList(Left(a)) /\ ProvidersOf(Left(a)) = ProvidersOf(table.legs[a]) \ drop
    <2>1. CASE a \in decided
      <3> HIDE DEF Left
      <3> QED BY <1>2, <2>1
    <2>2. CASE a \notin decided
      <3>1. Left(a) = Kept(table.legs[a], drop) /\ IsList(table.legs[a])
        BY <2>2 DEF IsTable
      <3> HIDE DEF Left
      <3> QED BY <3>1, KeptIs
    <2> QED BY <2>1, <2>2
  <1>4. DOMAIN jev = decided /\ DOMAIN legs = some /\ \A a \in some : legs[a] = Left(a)
    OBVIOUS
  <1> HIDE DEF jev, Left, legs
  <1>5. \A a \in DOMAIN table.legs : Left(a) # <<>> <=> ProvidersOf(table.legs[a]) \ drop # {}
    BY <1>3, NoProvider
  <1>6. some = {a \in DOMAIN table.legs : ProvidersOf(table.legs[a]) \ drop # {}}
    BY <1>5
  <1>7. ASSUME NEW a \in decided PROVE IsJevRoute(jev[a]) /\ a \in some /\ legs[a] = StaticLegs(jev[a])
    <2> HIDE DEF decided
    <2> QED BY <1>2, <1>4
  <1>8. IsTable(left)
    <2> HIDE DEF decided, left
    <2> QED BY <1>1, <1>3, <1>4, <1>7 DEF IsTable
  <1>9. \A a \in some : PolicyOf(left, a) = PolicyOf(table, a)
    <2> HIDE DEF some, left
    <2> QED BY <1>1 DEF PolicyOf, Lookup
  <1> HIDE DEF decided, left
  <1> QED BY <1>1, <1>3, <1>4, <1>6, <1>8, <1>9 DEF left

\* Embedding aliases without some providers.
LEMMA PrunedEmbedsAre ==
  ASSUME NEW embeds, \A a \in DOMAIN embeds : IsEmbed(embeds[a]), NEW drop
  PROVE  \A a \in DOMAIN EmbedsWithout(embeds, drop) : EmbedsWithout(embeds, drop)[a].legs # <<>>
  <1> DEFINE left == EmbedsWithout(embeds, drop)
  <1>1. ASSUME NEW a \in DOMAIN left PROVE left[a].legs # <<>>
    <2>1. /\ a \in DOMAIN embeds /\ Kept(embeds[a].legs, drop) # <<>>
          /\ left[a] = [embeds[a] EXCEPT !.legs = Kept(@, drop)]
      BY DEF EmbedsWithout
    <2>2. embeds[a] = [dimensions |-> embeds[a].dimensions, legs |-> embeds[a].legs, policy |-> embeds[a].policy]
      BY <2>1 DEF IsEmbed
    <2> HIDE DEF left
    <2>3. left[a].legs = Kept(embeds[a].legs, drop)
      BY <2>1, <2>2
    <2> QED BY <2>1, <2>3
  <1> QED BY <1>1

\* Startup looks for credentials of every listed provider, and of Jev for a decided route.
LEMMA ReferencedAre ==
  ASSUME NEW table
  PROVE  /\ \A a \in DOMAIN table.legs : ProvidersOf(table.legs[a]) \subseteq ReferencedProviders(table)
         /\ \A a \in DOMAIN table.jev : "typesafe" \in ReferencedProviders(table)
  <1> DEFINE P(a) == {l.provider : l \in Range(table.legs[a])}
             all == {P(a) : a \in DOMAIN table.legs}
             judge == IF DOMAIN table.jev = {} THEN {} ELSE {"typesafe"}
  <1>1. ReferencedProviders(table) = (UNION all) \cup judge
    BY DEF ReferencedProviders
  <1>2. \A a \in DOMAIN table.jev : "typesafe" \in judge
    OBVIOUS
  <1>3. \A a \in DOMAIN table.legs : ProvidersOf(table.legs[a]) = P(a)
    BY DEF ProvidersOf
  <1>4. \A a \in DOMAIN table.legs : P(a) \in all
    OBVIOUS
  <1> HIDE DEF P, judge, all
  <1>5. \A a \in DOMAIN table.legs : \A x \in P(a) : x \in UNION all
    BY <1>4
  <1> QED BY <1>1, <1>2, <1>3, <1>5

\* What TableIsServable says of a gateway started from some files.
Serves(g, files) ==
  /\ \A a \in DOMAIN g.table.legs : \A l \in Range(g.table.legs[a]) :
       IF l.provider = "typesafe" THEN g.jev ELSE l.provider \in g.built
  /\ \A a \in DOMAIN g.table.jev :
       /\ g.jev /\ Len(g.table.jev[a].tiers) >= 2
       /\ \E t \in Range(g.table.jev[a].tiers) : t.name = g.table.jev[a].defaultTier
  /\ \A a \in DOMAIN g.embeds : g.embeds[a].legs # <<>>
       /\ \A l \in Range(g.embeds[a].legs) : l.provider \in g.embedders
  /\ LET routes == files.routes
         Legless(a) == OwnLegs(routes[a]) = <<>>
         Keyed(a)   == \E l \in Range(OwnLegs(routes[a])) : l.provider \in files.keys
     IN /\ DOMAIN g.table.legs =
             {a \in DOMAIN routes : Keyed(a) \/ (Legless(a) /\ ~ Lenient(files.env))}
        /\ \A a \in DOMAIN g.table.legs :
             /\ g.table.legs[a] = <<>> <=> Legless(a)
             /\ PolicyOf(g.table, a) = IF routes[a].policy = None THEN "default" ELSE routes[a].policy

\* Files whose records have the shape their loaders give them.
AreFiles(files) ==
  /\ \A a \in DOMAIN files.routes : IsEntry(files.routes[a])
  /\ \A a \in DOMAIN files.embeds : IsEmbed(files.embeds[a])
  /\ files.keys \subseteq Recognised

\* A gateway that starts serves what it lists, from a table.
LEMMA StartedIs ==
  ASSUME NEW files, AreFiles(files), Start(files) # None
  PROVE  Serves(Start(files), files) /\ IsTable(Start(files).table)
  <1> DEFINE g      == Start(files)
             routes == files.routes
             config == FromEnv(files.env)
             table  == FromFile(routes)
             embeds == EmbedsFromFile(files.embeds)
             drop   == UnsatisfiableProviders(files.keys, ReferencedProviders(table) \cup EmbedProviders(embeds))
             left   == Validated(files, config, table, embeds)
             guard  == IF files.guardrails = None THEN <<>> ELSE files.guardrails
  <1>1. /\ config # None /\ table # None /\ embeds # None
        /\ g = Built(files, config, left.table, left.embeds)
        /\ Buildable(files.keys, left.table, left.embeds)
    <2>1. g = IF config = None \/ table = None \/ embeds = None THEN None
              ELSE IF /\ GuardrailsAllowed(files.guardrails, NamedPolicies(left.table, left.embeds),
                                           left.table, config.required)
                      /\ Buildable(files.keys, left.table, left.embeds)
                      /\ ClassifiersWired(guard, "typesafe" \in files.keys)
              THEN Built(files, config, left.table, left.embeds) ELSE None
      BY DEF Start
    <2> HIDE DEF g, config, table, embeds, left, guard
    <2>2. g # None
      BY DEF g
    <2> QED BY <2>1, <2>2
  <1>2. config.lenient = Lenient(files.env)
    <2> HIDE DEF left, table, embeds, drop, g
    <2> QED BY <1>1 DEF FromEnv
  <1>3. /\ left = IF ~ config.lenient THEN [table |-> table, embeds |-> embeds]
                  ELSE [table |-> WithoutProviders(table, drop), embeds |-> EmbedsWithout(embeds, drop)]
    BY DEF Validated
  <1>4. /\ g.table = left.table /\ g.embeds = left.embeds /\ g.jev = ("typesafe" \in files.keys)
        /\ g.built = ReferencedProviders(left.table) \ {"typesafe"}
        /\ g.embedders = EmbedProviders(left.embeds)
    <2> HIDE DEF g, left, config
    <2> QED BY <1>1 DEF Built
  <1> HIDE DEF g, left
  <1>5. /\ IsTable(table) /\ DOMAIN table.legs = DOMAIN routes
        /\ \A a \in DOMAIN routes :
             /\ IsList(OwnLegs(routes[a])) /\ ProvidersOf(table.legs[a]) = ProvidersOf(OwnLegs(routes[a]))
             /\ PolicyOf(table, a) = IF routes[a].policy = None THEN "default" ELSE routes[a].policy
    BY <1>1, FromFileIs DEF AreFiles
  <1>6. embeds = files.embeds /\ \A a \in DOMAIN embeds : IsEmbed(embeds[a]) /\ embeds[a].legs # <<>>
    <2>1. embeds = IF \E a \in DOMAIN files.embeds : files.embeds[a].dimensions = 0 \/ files.embeds[a].legs = <<>>
                   THEN None ELSE files.embeds
      BY DEF EmbedsFromFile
    <2> HIDE DEF embeds
    <2> QED BY <1>1, <2>1 DEF AreFiles
  <1>7. \A a \in DOMAIN routes : ProvidersOf(table.legs[a]) \subseteq ReferencedProviders(table)
    BY <1>5, ReferencedAre
  <1> DEFINE Own(a) == ProvidersOf(OwnLegs(routes[a]))
             Keyed(a) == Own(a) \cap files.keys # {}
             Legless(a) == Own(a) = {}
  <1>8. \A p : p \in drop <=> p \in ReferencedProviders(table) \cup EmbedProviders(embeds) /\ p \notin files.keys
    BY DEF UnsatisfiableProviders, AreFiles
  <1>9. /\ ReferencedProviders(left.table) \subseteq files.keys
    BY <1>1 DEF Buildable, UnsatisfiableProviders
  <1> HIDE DEF table, embeds, drop, config, routes
  <1>10. /\ IsTable(left.table)
         /\ DOMAIN left.table.legs = {a \in DOMAIN routes : Keyed(a) \/ (Legless(a) /\ ~ Lenient(files.env))}
         /\ \A a \in DOMAIN left.table.legs : /\ ProvidersOf(left.table.legs[a]) = {} <=> Legless(a)
                                              /\ PolicyOf(left.table, a) = PolicyOf(table, a)
         /\ \A a \in DOMAIN left.embeds : left.embeds[a].legs # <<>>
    <2>1. CASE ~ config.lenient
      <3>1. left.table = table /\ left.embeds = embeds
        BY <1>3, <2>1
      <3>2. \A a \in DOMAIN routes : Own(a) \subseteq files.keys
        BY <1>5, <1>7, <1>9, <3>1
      <3> HIDE DEF Own
      <3>3. \A a \in DOMAIN routes : Keyed(a) \/ (Legless(a) /\ ~ Lenient(files.env))
        BY <1>2, <2>1, <3>2
      <3>4. \A a \in DOMAIN routes : ProvidersOf(table.legs[a]) = {} <=> Legless(a)
        BY <1>5 DEF Own
      <3> HIDE DEF Keyed, Legless
      <3>5. DOMAIN table.legs = {a \in DOMAIN routes : Keyed(a) \/ (Legless(a) /\ ~ Lenient(files.env))}
        BY <1>5, <3>3
      <3> QED BY <1>5, <1>6, <3>1, <3>4, <3>5
    <2>2. CASE config.lenient
      <3>1. left.table = WithoutProviders(table, drop) /\ left.embeds = EmbedsWithout(embeds, drop)
        BY <1>3, <2>2
      <3>2. /\ IsTable(left.table)
            /\ DOMAIN left.table.legs = {a \in DOMAIN table.legs : ProvidersOf(table.legs[a]) \ drop # {}}
            /\ \A a \in DOMAIN left.table.legs :
                 /\ ProvidersOf(left.table.legs[a]) = ProvidersOf(table.legs[a]) \ drop
                 /\ PolicyOf(left.table, a) = PolicyOf(table, a)
        BY <1>5, <3>1, PrunedTableIs
      <3>3. ASSUME NEW a \in DOMAIN routes
            PROVE  ProvidersOf(table.legs[a]) \ drop # {} <=> Keyed(a) \/ (Legless(a) /\ ~ Lenient(files.env))
        <4>1. ProvidersOf(table.legs[a]) = Own(a) /\ Own(a) \subseteq ReferencedProviders(table)
          BY <1>5, <1>7
        <4> HIDE DEF Own
        <4> QED BY <1>2, <1>8, <2>2, <4>1
      <3>4. ASSUME NEW a \in DOMAIN left.table.legs
            PROVE  ProvidersOf(left.table.legs[a]) = {} <=> Legless(a)
        <4>1. a \in DOMAIN routes /\ ProvidersOf(table.legs[a]) \ drop # {}
          BY <1>5, <3>2
        <4>2. ProvidersOf(table.legs[a]) = Own(a) /\ ProvidersOf(left.table.legs[a]) = ProvidersOf(table.legs[a]) \ drop
          BY <1>5, <3>2, <4>1
        <4> HIDE DEF Own
        <4> QED BY <4>1, <4>2
      <3> HIDE DEF Keyed, Legless
      <3>5. \A a \in DOMAIN left.embeds : left.embeds[a].legs # <<>>
        BY <1>6, <3>1, PrunedEmbedsAre
      <3>6. DOMAIN left.table.legs = {a \in DOMAIN routes : Keyed(a) \/ (Legless(a) /\ ~ Lenient(files.env))}
        BY <1>5, <3>2, <3>3
      <3> QED BY <3>2, <3>4, <3>5, <3>6
    <2> QED BY <2>1, <2>2
  <1>11. ASSUME NEW a \in DOMAIN g.table.legs, NEW l \in Range(g.table.legs[a])
         PROVE  IF l.provider = "typesafe" THEN g.jev ELSE l.provider \in g.built
    <2>1. l.provider \in ReferencedProviders(left.table)
      <3>1. a \in DOMAIN left.table.legs /\ l.provider \in ProvidersOf(left.table.legs[a])
        BY <1>4 DEF ProvidersOf
      <3> QED BY <3>1, ReferencedAre
    <2> QED BY <1>4, <1>9, <2>1
  <1>12. ASSUME NEW a \in DOMAIN g.table.jev
         PROVE  /\ g.jev /\ Len(g.table.jev[a].tiers) >= 2
                /\ \E t \in Range(g.table.jev[a].tiers) : t.name = g.table.jev[a].defaultTier
    <2>1. "typesafe" \in ReferencedProviders(left.table)
      BY <1>4, ReferencedAre
    <2>2. "typesafe" \in files.keys
      BY <1>9, <2>1
    <2>3. g.jev
      BY <1>4, <2>2
    <2>4. IsJevRoute(g.table.jev[a])
      BY <1>4, <1>10 DEF IsTable
    <2> QED BY <2>3, <2>4 DEF IsJevRoute
  <1>13. ASSUME NEW a \in DOMAIN g.embeds
         PROVE  g.embeds[a].legs # <<>> /\ \A l \in Range(g.embeds[a].legs) : l.provider \in g.embedders
    BY <1>4, <1>10 DEF EmbedProviders
  <1>14. \A a \in DOMAIN routes :
           /\ Legless(a) <=> OwnLegs(routes[a]) = <<>>
           /\ Keyed(a) <=> \E l \in Range(OwnLegs(routes[a])) : l.provider \in files.keys
    <2> TAKE a \in DOMAIN routes
    <2>1. OwnLegs(routes[a]) = <<>> <=> ProvidersOf(OwnLegs(routes[a])) = {}
      BY <1>5, NoProvider
    <2> QED BY <2>1 DEF ProvidersOf
  <1>15. /\ DOMAIN g.table.legs = {a \in DOMAIN routes :
              \/ \E l \in Range(OwnLegs(routes[a])) : l.provider \in files.keys
              \/ OwnLegs(routes[a]) = <<>> /\ ~ Lenient(files.env)}
         /\ \A a \in DOMAIN g.table.legs :
              /\ g.table.legs[a] = <<>> <=> OwnLegs(routes[a]) = <<>>
              /\ PolicyOf(g.table, a) = IF routes[a].policy = None THEN "default" ELSE routes[a].policy
    <2> HIDE DEF Own, Keyed, Legless
    <2>1. DOMAIN g.table.legs = {a \in DOMAIN routes :
              \/ \E l \in Range(OwnLegs(routes[a])) : l.provider \in files.keys
              \/ OwnLegs(routes[a]) = <<>> /\ ~ Lenient(files.env)}
      BY <1>4, <1>10, <1>14
    <2>2. ASSUME NEW a \in DOMAIN g.table.legs
          PROVE  /\ g.table.legs[a] = <<>> <=> OwnLegs(routes[a]) = <<>>
                 /\ PolicyOf(g.table, a) = IF routes[a].policy = None THEN "default" ELSE routes[a].policy
      <3>1. a \in DOMAIN routes
        BY <2>1
      <3>2. g.table.legs[a] = <<>> <=> ProvidersOf(g.table.legs[a]) = {}
        BY <1>4, <1>10, NoProvider DEF IsTable
      <3> QED BY <1>4, <1>5, <1>10, <1>14, <3>1, <3>2
    <2> QED BY <2>1, <2>2
  <1>16. Serves(g, files)
    BY <1>11, <1>12, <1>13, <1>15 DEF Serves, routes
  <1> QED BY <1>4, <1>10, <1>16 DEF g

-----------------------------------------------------------------------------
(* What a started process serves *)

\* A process that serves has the gateway its files make.
StartInv ==
  /\ load \in DOMAIN Loads
  /\ gw # None => gw = Start(Loads[load].files)
  /\ phase \in {"seeding", "up"} => gw # None

LEMMA StartInvariant == Spec => []StartInv
  <1>1. Init => StartInv
    BY DEF Init, StartInv, NoRequest
  <1>2. StartInv /\ [Next]_vars => StartInv'
    <2> SUFFICES ASSUME StartInv, [Next]_vars PROVE StartInv'
      OBVIOUS
    <2>1. CASE UNCHANGED vars
      BY <2>1 DEF vars, StartInv
    <2>2. CASE Launch
      BY <2>2 DEF Launch, StartInv
    <2>3. CASE Crash
      BY <2>3 DEF Crash, StartInv
    <2>4. CASE Listen
      BY <2>4 DEF Listen, StartInv
    <2>5. CASE Seed \/ Agents \/ Time \/ Arrive \/ Work \/ Decision \/ Abandon \/ Forget
      <3>1. UNCHANGED <<gw, phase, load>>
        BY <2>5 DEF Seed, Agents, Time, Arrive, Work, Decision, Abandon, Forget, Served
      <3> QED BY <3>1 DEF StartInv
    <2> QED BY <2>1, <2>2, <2>3, <2>4, <2>5 DEF Next
  <1> QED BY <1>1, <1>2, PTL DEF Spec

\* A gateway that starts can serve what it lists (main.rs, table.rs
\* without_providers, providers/mod.rs).
THEOREM TablesAreServable == Spec => []TableIsServable
  <1>1. StartInv => TableIsServable
    <2> SUFFICES ASSUME StartInv, gw # None PROVE TableIsServable
      BY DEF TableIsServable
    <2>1. AreFiles(Loads[load].files) /\ gw = Start(Loads[load].files)
      BY LoadsAssumption DEF StartInv, AreFiles
    <2>2. Serves(gw, Loads[load].files)
      BY <2>1, StartedIs
    <2> QED BY <2>2 DEF Serves, TableIsServable, OwnLegs
  <1> QED BY <1>1, StartInvariant, PTL

-----------------------------------------------------------------------------
(* Plans of a running process *)

\* The steps that plan.
Planning ==
  \/ PlanStatic \/ PlanTiered
  \/ \E result \in {Failed("timeout"), Failed("error")} \cup {Answered(a) : a \in Answers} : Decided(result)

KeepsPlan == plan' = plan /\ (pc' = "decide" => pc = "decide")

\* Nothing else changes a plan, or waits for a decision.
LEMMA OnlyPlanning ==
  ASSUME Next
  PROVE  KeepsPlan \/ Planning \/ Forget
  <1>1. CASE Launch \/ Seed \/ Listen \/ Crash \/ Agents \/ Time
    BY <1>1 DEF Launch, Seed, Listen, Crash, Agents, Time, requestVars, KeepsPlan
  <1>2. CASE Arrive
    <2>1. PICK r, error, policies : Begin(r, error, policies)
      BY <1>2, Arriving DEF Arrived
    <2> QED BY <2>1 DEF Begin, EndWith, KeepsPlan
  <1>3. CASE Screening \/ AbandonScreening
    BY <1>3 DEF Screening, AbandonScreening, Dropped, ScreenUndefined, ScreenInput, ClassifierScores,
                ClassifierFails, GaveUp, EndWith, KeepsPlan
  <1>4. CASE EmbedWork \/ AbandonEmbed
    BY <1>4 DEF EmbedWork, EmbedStarts, BatchEmbeds, Embedded, BatchFails, NobodyEmbeds, AbandonEmbed, Dropped,
                EndWith, AnswerWith, KeepsPlan
  <1>5. CASE PassthroughWork \/ AbandonPassthrough
    BY <1>5 DEF PassthroughWork, GeminiStarts, LegUnreachable, LegAccepts, SystemOneStarts, LegRefuses,
                SingleEnds, BodyEnds, SseEnds, Evaluated, AbandonPassthrough, Dropped, EndWith, AnswerWith,
                PassedOn, UpstreamError, KeepsPlan
  <1>6. CASE AbandonChat
    BY <1>6 DEF AbandonChat, Dropped, EndWith, KeepsPlan
  <1>7. CASE ChatWork
    <2>1. CASE PlanStatic \/ PlanTiered \/ JevTimesOut
      BY <2>1 DEF Planning, JevTimesOut
    <2> DEFINE Goes == pc' \in {"native", "standard", "stream", "collect", "done"} \/ pc' = pc
    <2>2. ASSUME LaneFails PROVE Goes
      BY <2>2, LaneFailsGoes DEF Ends
    <2>3. ASSUME NEW keys, NEW survivors, NEW degraded, ExtractFrom(keys, survivors, degraded) PROVE Goes
      BY <2>3, ExtractGoes DEF Ends
    <2>4. ASSUME NEW lane, NEW marks, ReplyBuffered(lane, marks) PROVE Goes
      BY <2>4, BufferedReplies DEF Ends
    <2> HIDE DEF Goes
    <2>5. ASSUME Goes, plan' = plan PROVE KeepsPlan
      BY <2>5 DEF Goes, KeepsPlan
    <2>6. ASSUME NEW marks, LegAnswers(marks) \/ Collected(marks) PROVE KeepsPlan
      <3>1. plan' = plan
        BY <2>6 DEF LegAnswers, Collected
      <3>2. Goes
        <4>1. CASE LegAnswers(marks) /\ (req.stream \/ pc = "native")
          BY <4>1 DEF LegAnswers, Goes
        <4>2. CASE LegAnswers(marks) /\ ~ (req.stream \/ pc = "native")
          BY <4>2, <2>3, <2>4 DEF LegAnswers
        <4>3. CASE Collected(marks)
          BY <4>3, <2>3, <2>4 DEF Collected
        <4> QED BY <2>6, <4>1, <4>2, <4>3
      <3> QED BY <2>5, <3>1, <3>2
    <2>7. ASSUME NEW called, NEW retryable, LegFails(called, retryable) PROVE KeepsPlan
      <3>1. plan' = plan /\ (LaneFails \/ pc' = pc)
        BY <2>7 DEF LegFails
      <3> QED BY <2>2, <2>5, <3>1 DEF Goes
    <2>8. ASSUME NoLegs \/ CollectBreaks PROVE KeepsPlan
      <3>1. plan' = plan /\ (LaneFails \/ pc' = "done")
        BY <2>8 DEF NoLegs, CollectBreaks, EndWith
      <3> QED BY <2>2, <2>5, <3>1 DEF Goes
    <2>9. ASSUME JevExhausted PROVE KeepsPlan
      <3>1. plan' = plan
        BY <2>9 DEF JevExhausted, JevLaneEnds
      <3>2. CASE req.extract # None
        BY <2>9, <2>3, <2>5, <3>1, <3>2 DEF JevExhausted
      <3>3. CASE req.extract = None
        BY <2>9, <2>5, <3>1, <3>3 DEF JevExhausted, EnterChatLane, ChatLane, EndWith, Goes
      <3> QED BY <3>2, <3>3
    <2>10. ASSUME NEW kept, JevLegDecides(kept) PROVE KeepsPlan
      <3>1. plan' = plan
        BY <2>10 DEF JevLegDecides
      <3>2. CASE req.extract # None
        BY <2>10, <2>3, <2>5, <3>1, <3>2 DEF JevLegDecides
      <3>3. CASE req.extract = None
        BY <2>10, <2>4, <2>5, <3>1, <3>3 DEF JevLegDecides, Goes
      <3> QED BY <3>2, <3>3
    <2>11. ASSUME NEW how, JevLegFails(how) PROVE KeepsPlan
      BY <2>11 DEF JevLegFails, EndWith, KeepsPlan
    <2>12. ASSUME NEW status, StreamEnds(status) PROVE KeepsPlan
      BY <2>12 DEF StreamEnds, AnswerWith, KeepsPlan
    <2> QED BY <1>7, <2>1, <2>6, <2>7, <2>8, <2>9, <2>10, <2>11, <2>12 DEF ChatWork
  <1>8. CASE Decision
    BY <1>8 DEF Decision, Served, JevFails, JevAnswers, Planning
  <1>9. CASE Work \/ Abandon
    <2>1. \/ Screening \/ AbandonScreening
          \/ ChatWork \/ AbandonChat
          \/ EmbedWork \/ AbandonEmbed
          \/ PassthroughWork \/ AbandonPassthrough
      BY <1>9 DEF Work, Abandon, Served
    <2> QED BY <1>3, <1>4, <1>5, <1>6, <1>7, <2>1
  <1> QED BY <1>1, <1>2, <1>8, <1>9 DEF Next

\* What a result makes the plan select.
LEMMA SelectionIs ==
  ASSUME NEW route, IsJevRoute(route),
         NEW result \in {Failed(f) : f \in Failures} \cup {Answered(a) : a \in Answers}
  PROVE  IsSelection(Select(result, route), route) /\ IsSelection(StaticOverride(route), route)
  <1>1. DefaultIndex(route) \in Nat /\ Len(route.tiers) \in Nat /\ Len(route.tiers) >= 2
    <2>1. IsList(route.tiers) /\ Len(route.tiers) \in Nat /\ Len(route.tiers) >= 2
      BY ListShape DEF IsJevRoute, AreTiers
    <2>2. route.tiers # <<>>
      BY <2>1, NoElement, ListShape
    <2> QED BY <2>1, <2>2, DefaultIsTier
  <1>2. IsSelection(StaticOverride(route), route)
    BY <1>1 DEF IsSelection, StaticOverride
  <1>3. ASSUME NEW f \in Failures, result = Failed(f) PROVE IsSelection(Select(result, route), route)
    <2>1. f # None /\ f # "decided" /\ result.failure = f
      BY <1>3, AnswersAssumption DEF Failures, Failed
    <2> QED BY <1>1, <2>1 DEF IsSelection, Select
  <1>4. ASSUME NEW a \in Answers, result = Answered(a) PROVE IsSelection(Select(result, route), route)
    <2>1. CASE a.difficulty = None
      BY <1>3, <1>4, <2>1 DEF Answered, Failures
    <2>2. CASE a.difficulty # None
      <3> DEFINE t == ScoreToTier(a.difficulty, Len(route.tiers))
      <3>1. result = [failure |-> None, answers |-> a] /\ a.difficulty \in Int \cup {NaN}
        BY <1>4, <2>2, AnswersAssumption DEF Answered
      <3>2. t \in Nat
        BY <1>1, <3>1 DEF ScoreToTier
      <3> HIDE DEF t
      <3>3. result.failure = None /\ result.answers = a
        BY <3>1
      <3>4. Select(result, route) =
              IF a.confidence < route.minConfidence
              THEN [tier |-> DefaultIndex(route), outcome |-> "low_confidence", bump |-> Bumps(route, a)]
              ELSE [tier |-> t, outcome |-> "decided", bump |-> Bumps(route, a)]
        BY <3>3 DEF Select, t
      <3> QED BY <1>1, <3>2, <3>4 DEF IsSelection
    <2> QED BY <2>1, <2>2
  <1> QED BY <1>2, <1>3, <1>4

\* A plan follows its selection whatever it says of masking.
LEMMA PlannedMasked ==
  ASSUME NEW route, IsJevRoute(route), NEW vertex \in BOOLEAN, Servable(route, vertex),
         NEW selection, IsSelection(selection, route), NEW mode, NEW effort, NEW m
  PROVE  LET p == [TieredPlan(route, mode, selection, vertex, effort) EXCEPT !.masked = m] IN
         p.mode = mode /\ Follows(p, route, vertex)
  <1> DEFINE p == TieredPlan(route, mode, selection, vertex, effort)
             q == [p EXCEPT !.masked = m]
  <1>1. /\ q.legs = p.legs /\ q.outcome = p.outcome /\ q.decided = p.decided /\ q.mode = mode
    BY DEF TieredPlan
  <1>2. Follows(p, route, vertex)
    BY PlannedIs DEF IsJevRoute
  <1> HIDE DEF p, q
  <1>3. Follows(q, route, vertex)
    BY <1>1, <1>2 DEF Follows, Chain
  <1> QED BY <1>1, <1>3 DEF p, q

\* A request is one of the configuration's. While a decision is awaited its route is
\* one Jev decides, and some tier can serve it; a tiered plan follows its selection.
PlanInv ==
  /\ pc = "idle" => plan = None
  /\ pc # "idle" => req \in Loads[load].requests
  /\ pc = "decide" => Mode = "jev" /\ Servable(Route, req.vertex)
  /\ (plan # None /\ plan.mode # "static") =>
       req.alias \in DOMAIN gw.table.jev /\ Follows(plan, Route, req.vertex)

\* A planning step plans so.
LEMMA PlanningFollows ==
  ASSUME RequestInv, StartInv, PlanInv, Planning, UNCHANGED <<gw, phase, load>>, UNCHANGED req
  PROVE  PlanInv'
  <1>1. /\ pc # "idle" /\ req.kind = "chat" /\ req \in Loads[load].requests
        /\ pc' \in {"decide", "jev", "native", "standard", "done"}
    <2>1. CASE PlanStatic
      BY <2>1, DispatchGoes DEF PlanStatic, Screened, PlanInv, Ends
    <2>2. CASE PlanTiered
      BY <2>2, DispatchGoes DEF PlanTiered, Screened, PlanInv, Ends, EndWith
    <2>3. ASSUME NEW result, Decided(result)
          PROVE  /\ pc = "decide" /\ pc' \in {"jev", "native", "standard", "done"}
      BY <2>3, DispatchGoes DEF Decided, Ends
    <2> QED BY <2>1, <2>2, <2>3 DEF Planning, RequestInv, LaneFitsKind, ChatPcs, PlanInv
  <1>2. req.vertex \in BOOLEAN /\ gw # None /\ IsTable(gw.table)
    <2>1. req.vertex \in BOOLEAN
      BY <1>1, LoadsAssumption DEF StartInv
    <2>2. gw # None /\ gw = Start(Loads[load].files) /\ AreFiles(Loads[load].files)
      BY <1>1, LoadsAssumption DEF StartInv, RequestInv, AreFiles
    <2> QED BY <2>1, <2>2, StartedIs
  <1>3. Mode' = Mode /\ Route' = Route /\ req' = req /\ gw' = gw /\ load' = load
    BY DEF Mode, Route
  <1>4. Mode \in {"jev", "static_override"} => req.alias \in DOMAIN gw.table.jev /\ IsJevRoute(Route)
    <2>1. ASSUME req.alias \notin DOMAIN gw.table.jev PROVE Mode \in {"static", None}
      BY <2>1 DEF Mode, ResolveMode
    <2>2. Mode \in {"jev", "static_override"} => req.alias \in DOMAIN gw.table.jev
      BY <2>1, AnswersAssumption
    <2> QED BY <1>2, <2>2 DEF IsTable, Route
  <1>5. ASSUME NEW selection, IsSelection(selection, Route), Mode \in {"jev", "static_override"},
               Servable(Route, req.vertex), plan' = [Tiered(selection) EXCEPT !.masked = masked]
        PROVE  req.alias \in DOMAIN gw.table.jev /\ Follows(plan', Route, req.vertex)
    <2>1. Follows([TieredPlan(Route, Mode, selection, req.vertex, req.effort) EXCEPT !.masked = masked],
                  Route, req.vertex)
      BY <1>2, <1>4, <1>5, PlannedMasked
    <2> QED BY <1>4, <1>5, <2>1 DEF Tiered
  <1>6. Mode \in {"jev", "static_override"} =>
          /\ IsSelection(StaticOverride(Route), Route)
          /\ \A result \in {Failed(f) : f \in Failures} \cup {Answered(a) : a \in Answers} :
               IsSelection(Select(result, Route), Route)
    <2>1. Failed("error") \in {Failed(f) : f \in Failures}
      BY DEF Failures
    <2> QED BY <1>4, <2>1, SelectionIs
  <1>7. ASSUME plan' # None /\ plan'.mode # "static" PROVE req.alias \in DOMAIN gw.table.jev /\ Follows(plan', Route, req.vertex)
    <2>1. CASE PlanStatic
      <3>1. plan' = [StaticPlan(gw.table.legs[req.alias], req.effort) EXCEPT !.masked = masked]
        BY <2>1 DEF PlanStatic, Dispatch
      <3>2. plan'.mode = "static"
        BY <3>1 DEF StaticPlan
      <3> QED BY <1>7, <3>2
    <2>2. CASE PlanTiered
      <3>1. CASE plan' = plan
        BY <1>7, <3>1 DEF PlanInv
      <3>2. CASE plan' # plan
        <4>1. /\ Mode \in {"jev", "static_override"} /\ Servable(Route, req.vertex)
              /\ \/ plan' = [Tiered(StaticOverride(Route)) EXCEPT !.masked = masked]
                 \/ plan' = [Tiered(Select(Failed("unavailable"), Route)) EXCEPT !.masked = masked]
          BY <2>2, <3>2 DEF PlanTiered, Dispatch
        <4>2. Failed("unavailable") \in {Failed(f) : f \in Failures}
          BY DEF Failures
        <4> QED BY <1>5, <1>6, <4>1, <4>2
      <3> QED BY <3>1, <3>2
    <2>3. ASSUME NEW result \in {Failed("timeout"), Failed("error")} \cup {Answered(a) : a \in Answers},
                 Decided(result)
          PROVE  req.alias \in DOMAIN gw.table.jev /\ Follows(plan', Route, req.vertex)
      <3>1. Mode = "jev" /\ Servable(Route, req.vertex)
        BY <2>3 DEF Decided, PlanInv
      <3>2. plan' = [Tiered(Select(result, Route)) EXCEPT !.masked = masked]
        BY <2>3 DEF Decided, Dispatch
      <3>3. result \in {Failed(f) : f \in Failures} \cup {Answered(a) : a \in Answers}
        BY DEF Failures
      <3> QED BY <1>5, <1>6, <3>1, <3>2, <3>3
    <2> QED BY <2>1, <2>2, <2>3 DEF Planning
  <1>8. ASSUME pc' = "decide" PROVE Mode = "jev" /\ Servable(Route, req.vertex)
    <2>1. PlanTiered
      <3>1. ~ PlanStatic
        BY <1>8, DispatchGoes DEF PlanStatic, Ends
      <3>2. ASSUME NEW result, Decided(result) PROVE FALSE
        BY <1>8, <3>2, DispatchGoes DEF Decided, Ends
      <3> QED BY <3>1, <3>2 DEF Planning
    <2>2. /\ Mode \in {"jev", "static_override"} /\ Servable(Route, req.vertex)
      BY <1>8, <2>1 DEF PlanTiered, EndWith
    <2>3. Mode # "static_override"
      BY <1>8, <2>1, DispatchGoes DEF PlanTiered, EndWith, Ends
    <2> QED BY <2>2, <2>3
  <1> QED BY <1>1, <1>3, <1>7, <1>8 DEF PlanInv

\* Plans follow their selections from when they are made to when they are forgotten.
LEMMA PlanInvariant == Spec => []PlanInv
  <1>1. Init => PlanInv
    BY DEF Init, NoRequest, PlanInv
  <1>2. RequestInv /\ StartInv /\ PlanInv /\ [Next]_vars => PlanInv'
    <2> SUFFICES ASSUME RequestInv, StartInv, PlanInv, [Next]_vars PROVE PlanInv'
      OBVIOUS
    <2>1. CASE UNCHANGED vars
      BY <2>1 DEF vars, requestVars, PlanInv, Mode, Route
    <2>2. CASE Forget
      BY <2>2 DEF Forget, PlanInv
    <2>3. CASE Next /\ ~ Forget
      <3>1. KeepsPlan \/ Planning
        BY <2>3, OnlyPlanning
      <3>2. \/ UNCHANGED requestVars /\ (pc # "idle" => UNCHANGED <<gw, phase, load>>) /\ load' = load
            \/ Arrived /\ UNCHANGED <<gw, phase, load>>
            \/ UNCHANGED req /\ pc # "idle" /\ pc' # "idle" /\ UNCHANGED <<gw, phase, load>>
        BY <2>3, RequestSteps DEF ScreeningStep, LaterStep, Later, ChatPcs, GeminiPcs
      <3>3. CASE UNCHANGED requestVars /\ (pc # "idle" => UNCHANGED <<gw, phase, load>>) /\ load' = load
        BY <3>3 DEF requestVars, PlanInv, Mode, Route
      <3>4. CASE Arrived /\ UNCHANGED <<gw, phase, load>>
        <4>1. PICK r, error, policies : r \in Loads[load].requests /\ Begin(r, error, policies)
          BY <3>4 DEF Arrived
        <4>2. req = None /\ pc = "idle" /\ plan' = plan /\ req' = r /\ pc' \in {"screen", "done"}
          BY <4>1 DEF Begin, EndWith, RequestInv
        <4>3. plan' = None /\ req' \in Loads[load'].requests
          BY <3>4, <4>1, <4>2 DEF PlanInv
        <4>4. pc' # "idle" /\ pc' # "decide"
          BY <4>2
        <4> QED BY <4>3, <4>4 DEF PlanInv
      <3>5. CASE UNCHANGED req /\ pc # "idle" /\ pc' # "idle" /\ UNCHANGED <<gw, phase, load>>
        <4>1. CASE Planning
          BY <3>5, <4>1, PlanningFollows
        <4>2. CASE KeepsPlan
          BY <3>5, <4>2 DEF KeepsPlan, PlanInv, Mode, Route
        <4> QED BY <3>1, <4>1, <4>2
      <3> QED BY <3>2, <3>3, <3>4, <3>5
    <2> QED BY <2>1, <2>2, <2>3
  <1> QED BY <1>1, <1>2, RequestInvariant, StartInvariant, PTL DEF Spec

\* Where a decision is followed the walk starts at the tier it names or the nearest
\* that can serve, and else it is the route's static order; every leg that can serve
\* is on it once (route_planner.rs, jev_router.rs).
THEOREM PlansFollowDecisions == Spec => []PlanFollowsDecision
  <1>1. RequestInv /\ StartInv /\ PlanInv => PlanFollowsDecision
    <2> SUFFICES ASSUME RequestInv, StartInv, PlanInv, plan # None, plan.mode # "static"
                 PROVE  PlanFollowsDecision
      BY DEF PlanFollowsDecision
    <2>1. req.alias \in DOMAIN gw.table.jev /\ Follows(plan, Route, req.vertex)
      BY DEF PlanInv
    <2>2. gw # None /\ gw = Start(Loads[load].files) /\ AreFiles(Loads[load].files)
      BY LoadsAssumption DEF PlanInv, StartInv, RequestInv, AreFiles
    <2>3. gw.table.legs[req.alias] = StaticLegs(Route)
      BY <2>1, <2>2, StartedIs DEF IsTable, Route
    <2> QED BY <2>1, <2>3 DEF Follows, AbleLegs, PlanFollowsDecision
  <1> QED BY <1>1, RequestInvariant, StartInvariant, PlanInvariant, PTL
=============================================================================
