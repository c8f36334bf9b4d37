--------------------------------- MODULE Leaves ---------------------------------
(* Which parts of a request body the input guard reads (guard/leaves.rs,     *)
(* server.rs screen_gemini).                                                 *)
(*   body  a sequence of parts [at, shows]: where the part stands in the     *)
(*         body, and the scanners whose patterns occur in it                 *)
EXTENDS SequencesExt

\* Passthrough actions whose bodies hold no content to screen, and those whose
\* bodies are Gemini requests.
NonContent       == {"countTokens", "computeTokens"}
GeminiBodyAction == {"generateContent", "streamGenerateContent", "embedContent",
                     "batchEmbedContents"}

\* Messages by role; an assistant's are not read, nor are parts without text or
\* content given as an object, which reaches an upstream all the same (message_text).
ChatLeaves == {"system", "user", "tool"}
\* Turns by role, an embedding's content whatever its role, and what functions
\* responded; a model's turns, function calls and media are not read.
GeminiText == {"systemInstruction", "turn", "content", "functionResponse"}
JevLeaves  == {"state", "questions"}
\* A body of unknown shape is read whole, but for its media.
MediaKeys  == {"inlineData", "fileData"}
TextLeaf(at) == at \notin MediaKeys

\* Where the parts of a body can stand, read or not.
Places(r) ==
  CASE r.kind = "chat"      -> ChatLeaves \cup {"assistant", "image", "object"}
    [] r.kind = "systemone" -> JevLeaves \cup {"model"}
    [] r.kind = "embed"     -> {"input"}
    [] r.kind = "gemini"    -> GeminiText \cup {"modelTurn", "functionCall"} \cup MediaKeys

IsLeaf(r, part) ==
  CASE r.kind = "chat"      -> part.at \in ChatLeaves
    [] r.kind = "systemone" -> part.at \in JevLeaves
    [] r.kind = "embed"     -> TRUE
    [] r.kind = "gemini"    -> IF r.action \in GeminiBodyAction THEN part.at \in GeminiText
                               ELSE TextLeaf(part.at)

\* An embedding's inputs are screened each on its own ...
EmbeddingLeaves(body) == [i \in DOMAIN body |-> body[i].shows]
\* ... and the leaves of any other body joined.
Joined(r, body) == UNION {p.shows : p \in {q \in Range(body) : IsLeaf(r, q)}}
Segments(r, body) == IF r.kind = "embed" THEN EmbeddingLeaves(body) ELSE << Joined(r, body) >>

\* What masking leaves of each segment is written back where its leaves stand.
WrittenBack(r, body, left) ==
  [i \in DOMAIN body |->
    IF IsLeaf(r, body[i])
    THEN [body[i] EXCEPT !.shows = @ \cap left[IF r.kind = "embed" THEN i ELSE 1]]
    ELSE body[i]]
=============================================================================
