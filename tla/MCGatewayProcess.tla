--------------------------- MODULE MCGatewayProcess ---------------------------
(* An instance of GatewayProcess: one set of route, embedding and guardrail   *)
(* files under several credentials, each load with requests of every kind,   *)
(* and one load whose only business is the agent registry.                   *)
EXTENDS GatewayProcess

L(provider, model) == [provider |-> provider, model |-> model, effort |-> None]
Flash == L("vertex", "gemini-flash")
Pro   == L("vertex", "gemini-pro")
Qwen  == L("qwen", "qwen-max")
Gpt   == L("openai", "gpt-5")
Judge(model) == L("typesafe", model)

Tier(name, effort, legs) == [name |-> name, effort |-> effort, legs |-> legs]
Static(legs, policy) == [strategy |-> "static", legs |-> legs, tiers |-> <<>>, router |-> None,
                         policy |-> policy]

\* The default tier is the one a missing provider empties; the hardest has no
\* Vertex leg, and one leg stands in two tiers.
Auto == [strategy |-> "jev", legs |-> None, policy |-> "watch",
         tiers |-> << Tier("easy", 0, <<Flash>>), Tier("medium", 3, <<Qwen>>),
                      Tier("hard", 4, <<Pro, Flash>>), Tier("max", 6, <<Gpt>>) >>,
         router |-> [defaultTier |-> "medium", minConfidence |-> 2, reasoningThreshold |-> 2,
                     inRange |-> TRUE]]

\* One route has no legs, which is legal.
\* gemini-flash is listed by two routes of different policies, the judge by three.
Routes == [a \in {"ask", "auto", "chat", "nobody", "pro", "scorer"} |->
  CASE a = "ask"    -> Static(<<Judge("jev-a"), Judge("jev-b"), Qwen, Flash>>, "strict")
    [] a = "auto"   -> Auto
    [] a = "chat"   -> Static(<<Flash, Gpt>>, None)
    [] a = "nobody" -> Static(<<>>, None)
    [] a = "pro"    -> Static(<<Pro, Flash, Qwen>>, "strict")
    [] a = "scorer" -> Static(<<Judge("jev-a"), Judge("jev-b")>>, "unknown")]
MCAliasOrder == <<"ask", "auto", "chat", "nobody", "pro", "scorer">>
MCPolicyOrder == <<"default", "strict", "unknown", "watch">>

Embeds == [a \in {"vec", "small"} |->
  IF a = "vec" THEN [dimensions |-> 768, legs |-> <<L("vertex", "embed-v"), L("openai", "embed-o")>>,
                     policy |-> "strict"]
  ELSE [dimensions |-> 256, legs |-> <<L("openai", "embed-o")>>, policy |-> None]]

\* "watch" enforces nothing but classifies; "strict" blocks, masks and classifies.
Sound == [agreed |-> TRUE, inRange |-> TRUE]
Guards == [p \in {"default", "strict", "watch"} |-> Sound @@
  CASE p = "default" -> [enforce |-> TRUE, output |-> ("pii" :> "mask"), classifier |-> None,
                         wants |-> ("ban_substrings" :> "mask" @@ "role_override" :> "block")]
    [] p = "strict"  -> [enforce |-> TRUE, output |-> ("secrets" :> "block"),
                         wants |-> ("secrets" :> "block" @@ "pii" :> "mask"),
                         classifier |-> [route |-> "scorer", onError |-> "block",
                                         wants |-> ("toxic" :> "block" @@ "rude" :> "log")]]
    [] p = "watch"   -> [enforce |-> FALSE, output |-> ("pii" :> "block"),
                         wants |-> ("pii" :> "mask" @@ "secrets" :> "block"),
                         classifier |-> [route |-> "scorer", onError |-> "block",
                                         wants |-> ("toxic" :> "block")]]]

Files == [env |-> ("SYNAPSE_GUARDRAILS" :> "optional"), routes |-> Routes, embeds |-> Embeds,
          guardrails |-> Guards, keys |-> {"vertex", "qwen", "openai", "typesafe"}, seeds |-> <<>>]
With(files, key, value) == [files EXCEPT !.env = (key :> value) @@ @]

----------------------------------------------------------------------------

\* Bodies of a kind: two places that are read and one that is not.
Part(at, shows) == [at |-> at, shows |-> shows]
Bodies(first, other, unread) ==
  { << Part(first, {}) >>,
    << Part(first, {"pii"}), Part(other, {}), Part(unread, {"pii", "secrets"}) >>,
    << Part(first, {}), Part(other, {"secrets"}) >>,
    << Part(first, {"ban_substrings"}), Part(other, {"role_override"}) >> }
ChatBodies   == Bodies("user", "tool", "assistant")
TurnBodies   == Bodies("turn", "functionResponse", "modelTurn")
JudgeBodies  == Bodies("state", "questions", "model")
InputBodies  == { << Part("input", {}) >>,
                  << Part("input", {"pii"}), Part("input", {}), Part("input", {}) >>,
                  << Part("input", {"secrets"}), Part("input", {}) >>,
                  << Part("input", {"ban_substrings", "role_override"}) >> }
Clean == << Part("user", {}) >>
Pii   == << Part("system", {}), Part("user", {"pii"}), Part("object", {"pii"}) >>
Turn  == << Part("turn", {}) >>
Chat(alias, strategy, stream, vertex, effort, questions, extract, t) ==
  [kind |-> "chat", alias |-> alias, strategy |-> strategy, stream |-> stream, vertex |-> vertex,
   effort |-> effort, questions |-> questions, extract |-> extract, text |-> t]
Plain(alias, t) == Chat(alias, None, FALSE, FALSE, FALSE, FALSE, None, t)
Embed(alias, fits, t) == [kind |-> "embed", alias |-> alias, fits |-> fits, text |-> t]
Gemini(model, action, sse, t) ==
  [kind |-> "gemini", model |-> model, action |-> action, sse |-> sse, text |-> t]

Decided4 == {[Plain("auto", t) EXCEPT !.vertex = v, !.stream = s, !.effort = s] :
               t \in {Clean, Pii}, v, s \in BOOLEAN}
            \cup {[Plain("auto", Clean) EXCEPT !.strategy = s] : s \in {"jev", "static"}}
            \cup {[Plain("auto", Clean) EXCEPT !.questions = TRUE]}
Answered4 == {[Plain(a, t) EXCEPT !.stream = s] : a \in {"chat", "pro"}, t \in ChatBodies, s \in BOOLEAN}
             \cup {Plain("absent", Clean), Plain("nobody", Clean), [Plain("chat", Clean) EXCEPT !.strategy = "jev"]}
             \cup {[Plain(a, Clean) EXCEPT !.vertex = TRUE, !.stream = s] :
                     a \in {"chat", "pro", "scorer"}, s \in BOOLEAN}
Judged == {[Plain(a, Clean) EXCEPT !.questions = TRUE, !.stream = s, !.vertex = v] :
             a \in {"ask", "scorer"}, s, v \in BOOLEAN}
          \cup {[Plain("ask", t) EXCEPT !.questions = TRUE, !.extract = e, !.vertex = v] :
                  t \in {Clean, Pii}, e \in {<<>>, <<"k1", "k2">>}, v \in BOOLEAN}
          \cup {Plain("ask", Clean)}
Embedded4 == {Embed(a, TRUE, t) : a \in {"vec", "small"}, t \in InputBodies \cup {<<>>}}
             \cup {Embed("vec", FALSE, << Part("input", {}) >>), Embed("absent", TRUE, << Part("input", {}) >>)}
\* An action of no known shape is read whole.
Forwarded == {Gemini(m, a, s, t) : m \in {"gemini-flash", "gemini-pro", "pro", "other"}, s \in BOOLEAN,
                a \in {"generateContent", "streamGenerateContent"}, t \in TurnBodies}
             \cup {Gemini(m, a, FALSE, << Part("content", {"pii"}), Part("fileData", {"pii"}) >>) :
                     m \in {"ask", "gemini-flash"}, a \in {"countTokens", "embedContent"}}
             \cup {Gemini("pro", "predict", FALSE, << Part("modelTurn", {"pii"}), Part("functionCall", {"secrets"}) >>),
                    Gemini("pro", "predict", FALSE, << Part("functionCall", {"pii"}), Part("inlineData", {"pii"}) >>),
                    Gemini("?", "generateContent", FALSE, Turn)}
             \cup {[kind |-> "systemone", text |-> t] : t \in JudgeBodies}

AgentSeeds == << [id |-> "a", by |-> "seed1", ttl |-> 1], [id |-> "a", by |-> "seed2", ttl |-> Forever],
                 [id |-> "b", by |-> "seed2", ttl |-> Forever] >>
NoRoutes == [a \in {"chat"} |-> Routes[a]]

Load(files, requests) == [files |-> files, requests |-> requests, agents |-> FALSE]
Everything == Decided4 \cup Answered4 \cup Judged \cup Embedded4 \cup Forwarded
NoClassifier == [p \in {"default", "strict", "watch"} |-> [Guards[p] EXCEPT !.classifier = None]]
Leniently == With(Files, "SYNAPSE_PROVIDER_VALIDATION", "lenient")
AllLoads ==
  [ whole |-> Load(Files, Everything),
    \* A route names a policy nobody defined, and that is not allowed.
    unnamed |-> Load([Files EXCEPT !.env = <<>>], {}),
    \* Backends twice over, none at all, an unknown one; a timeout that is no number.
    ledgers |-> Load(With(Files, "SYNAPSE_LEDGER_BACKENDS", <<"sqlite", "pubsub", "sqlite">>), {}),
    nowhere |-> Load(With(Files, "SYNAPSE_LEDGER_BACKENDS", <<>>), {}),
    mysql |-> Load(With(Files, "SYNAPSE_LEDGER_BACKEND", <<"mysql">>), {}),
    soon |-> Load(With(Files, "SYNAPSE_REQUEST_TIMEOUT_SECS", "soon"), {}),
    \* A policy whose holdback is 0, one that wants two things of a scanner, a decided
    \* route without a timeout, an embedding alias of no dimensions: none starts.
    eager |-> Load([Files EXCEPT !.guardrails["watch"].inRange = FALSE], {}),
    torn  |-> Load([Files EXCEPT !.guardrails["strict"].agreed = FALSE], {}),
    hasty |-> Load([Files EXCEPT !.routes["auto"].router.inRange = FALSE], {}),
    flat  |-> Load([Files EXCEPT !.embeds["vec"].dimensions = 0], {}),
    \* Strict validation without a key.
    keyless |-> Load([Files EXCEPT !.keys = @ \ {"qwen"}], {}),
    \* The classifiers' judge has no key ...
    judgeless |-> Load([Leniently EXCEPT !.keys = @ \ {"typesafe"}], {}),
    \* ... and no policy needs it: the decided route is static.
    static |-> Load([Leniently EXCEPT !.keys = @ \ {"typesafe"}, !.guardrails = NoClassifier],
                    Decided4 \cup Judged \cup {Gemini("auto", "generateContent", FALSE, Turn)}),
    \* The default tier loses its only leg.
    pruned |-> Load([Leniently EXCEPT !.keys = @ \ {"qwen"},
                                !.env = ("SYNAPSE_PASSTHROUGH_MODELS" :> "any") @@ @],
                    Decided4 \cup {Gemini("other", "generateContent", FALSE, t) : t \in TurnBodies}),
    \* An embedding alias and the hardest tier go.
    vertex |-> Load([Leniently EXCEPT !.keys = @ \ {"openai"}], Decided4 \cup Embedded4),
    \* No Vertex: too few tiers, and nothing to forward to.
    qwen |-> Load([Leniently EXCEPT !.keys = {"qwen", "typesafe"}, !.guardrails = None],
                  Decided4 \cup {Gemini("pro", "generateContent", FALSE, Turn)}),
    agents |-> [files |-> [Files EXCEPT !.routes = NoRoutes, !.embeds = <<>>, !.guardrails = None,
                                        !.seeds = AgentSeeds],
                requests |-> {}, agents |-> TRUE] ]

MCLoads == AllLoads   \* TLC evaluates AllLoads once, what a cfg substitutes each time

MCAnswers ==
  {[difficulty |-> d, confidence |-> 2, reasoning |-> r] : d \in {0, 1, 3, 6, 7, NaN}, r \in {None, 2}}
  \cup {[difficulty |-> 3, confidence |-> 1, reasoning |-> 1],
        [difficulty |-> None, confidence |-> 2, reasoning |-> None]}
MCTtls == {1, Forever}
MCReplies == { {}, {"pii"}, {"secrets"} }
=============================================================================
