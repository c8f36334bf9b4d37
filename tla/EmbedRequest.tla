------------------------------ MODULE EmbedRequest ------------------------------
(* An embedding request (gateway.rs embed_routed, embeddings/): its inputs    *)
(* are screened and sent in batches to the first leg that takes them all.     *)
(*   request [kind "embed", alias, fits (its dimension, when it names one,    *)
(*            is the alias's), text (a part per input)]                       *)
(*   work    [next : the first input not yet sent, vectors : what the leg     *)
(*            answered so far], and once it ends [data : the reply's items]   *)
(* A vector is the number of the input it is the embedding of.                *)
EXTENDS RequestCore

CONSTANTS VertexEmbedBatch, OpenAiEmbedBatch   \* inputs a provider takes in one call

ASSUME BatchesHoldSomething == {VertexEmbedBatch, OpenAiEmbedBatch} \subseteq Nat \ {0}

EmbedArrives(r) ==
  Begin(r,
        IF r.alias \notin DOMAIN gw.embeds THEN "unknown_model"
        ELSE IF ~ r.fits THEN "bad_request" ELSE None,
        {IF gw.embeds[r.alias].policy = None THEN "default" ELSE gw.embeds[r.alias].policy})

FromTheFirst == [next |-> 1, vectors |-> <<>>]

\* Legs without an embedder are skipped.
EmbedStarts ==
  /\ Screened("embed")
  /\ pc' = "embed" /\ work' = FromTheFirst
  /\ walk' = SelectSeq(gw.embeds[req.alias].legs, LAMBDA l : l.provider \in gw.embedders)
  /\ UNCHANGED <<req, text, screens, calls, rows, plan, masked, reply>>

BatchLimit == IF Head(walk).provider = "vertex" THEN VertexEmbedBatch ELSE OpenAiEmbedBatch
Batch == work.next .. Min({work.next + BatchLimit - 1, Len(text)})
Sending == pc = "embed" /\ walk # <<>> /\ work.next <= Len(text)

\* An answer may leave an input out; neither provider's parser counts.
Some(batch) == {batch} \cup {batch \ {i} : i \in batch}
\* Vertex answers in the order it was asked in. OpenAI answers in any, and says for
\* every vector which input it is of.
Sorted(data) == {s \in [1..Cardinality(data) -> data] : \A i, j \in DOMAIN s : i < j => s[i] < s[j]}
VertexAnswers(batch) == UNION {Sorted(kept) : kept \in Some(batch)}
OpenAiAnswers(batch) == UNION {Sorted(Range(data)) : data \in UNION {SetToSeqs(kept) : kept \in Some(batch)}}
LegAnswersFor(batch) == IF Head(walk).provider = "vertex" THEN VertexAnswers(batch) ELSE OpenAiAnswers(batch)

\* The next batch comes back.
BatchEmbeds ==
  /\ Sending
  /\ \E vectors \in LegAnswersFor(Batch) :
       /\ calls' = Append(calls, Call("embed", None, text,
                            IF Range(vectors) = Batch THEN "ok" ELSE "short"))
       /\ work' = [next |-> Max(Batch) + 1, vectors |-> work.vectors \o vectors]
  /\ UNCHANGED <<req, pc, text, screens, walk, rows, plan, masked, reply>>

\* The reply's items: a vector each, numbered from zero.
BuildResponse(vectors) == {[index |-> i - 1, embedding |-> vectors[i]] : i \in DOMAIN vectors}

\* With the last one the request is a row and a reply.
Embedded ==
  /\ pc = "embed" /\ walk # <<>> /\ ~ Sending
  /\ rows' = Append(rows, Row("embedding", "embedding", Head(walk).provider, "ok"))
  /\ work' = [data |-> BuildResponse(work.vectors)]
  /\ AnswerWith("ok", GuardSignal, None, FALSE)
  /\ UNCHANGED <<req, text, screens, walk, calls, plan, masked>>

\* One failure, of whatever kind, and the next leg starts over with all of them.
\* What the leg had embedded by then is no row.
\* Fault: its vectors stay.
BatchFails_KeepsVectors ==
  /\ Sending
  /\ calls' = Append(calls, Call("embed", None, text, "failed"))
  /\ walk' = Tail(walk) /\ work' = [work EXCEPT !.next = 1]
  /\ UNCHANGED <<req, pc, text, screens, rows, plan, masked, reply>>
BatchFails ==
  /\ Sending
  /\ calls' = Append(calls, Call("embed", None, text, "failed"))
  /\ walk' = Tail(walk) /\ work' = FromTheFirst
  /\ UNCHANGED <<req, pc, text, screens, rows, plan, masked, reply>>

NobodyEmbeds ==
  /\ pc = "embed" /\ walk = <<>> /\ EndWith("failed")
  /\ UNCHANGED <<req, text, screens, walk, calls, rows, plan, masked, work>>

AbandonEmbed == Sending /\ Dropped("embed", text, "left", <<>>)

EmbedWork == EmbedStarts \/ BatchEmbeds \/ Embedded \/ BatchFails \/ NobodyEmbeds
=============================================================================
