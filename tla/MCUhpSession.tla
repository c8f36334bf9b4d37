----------------------------- MODULE MCUhpSession -----------------------------
(* An instance of UhpSession: four bases, one in both profiles, one in none, *)
(* a decided route whose middle tier repeats a leg of the hardest, a static  *)
(* route, files that are one edit away from it, and the tables they give, as *)
(* built and as pruned.                                                      *)
EXTENDS UhpSession

Bases == <<"claude", "codex", "hermes", "pi">>
Leg(provider, model) == [provider |-> provider, model |-> model]
Lite == Leg("deepseek", "deepseek-chat")
Fast == Leg("vertex", "gemini-flash")
Deep == Leg("vertex", "claude-opus")
Judge == Leg("typesafe", "jev")

\* routes.toml
ChatRoutes == [a \in {"lite", "judge"} |-> IF a = "lite" THEN <<Judge, Lite>> ELSE <<Judge>>]

Base(wires, able) == [wires |-> wires, able |-> able, labelled |-> TRUE]
Catalog ==
  [b \in Range(Bases) |->
    CASE b = "claude" -> Base({"vertex_anthropic", "openai_chat"}, {"env", "hard"})
      [] b = "codex"  -> Base({"openai_chat"}, {"env"})
      [] b = "hermes" -> Base({"openai_chat"}, {"env"})
      [] b = "pi"     -> Base({"openai_chat", "vertex_anthropic"}, {})]

Of(leg) == [leg |-> leg]
Alias(a) == [alias |-> a]
Profile(name, bases) == [name |-> name, bases |-> bases, described |-> TRUE]
Tier(name, bases, targets) == [name |-> name, bases |-> bases, targets |-> targets, described |-> TRUE]

Work ==
  [strategy |-> "jev", legs |-> None,
   router |-> [defaultProfile |-> "repo", defaultTier |-> "moderate", inRange |-> TRUE],
   profiles |-> <<Profile("quick", <<"pi", "codex">>), Profile("repo", <<"claude", "pi">>)>>,
   tiers |-> <<Tier("trivial", None, <<Alias("lite")>>), Tier("moderate", None, <<Of(Fast), Of(Deep)>>),
               Tier("hard", {"claude", "pi"}, <<Of(Deep)>>)>>]
Plain ==
  [strategy |-> None, router |-> None, profiles |-> <<>>, tiers |-> None,
   legs |-> <<[base |-> "codex", target |-> Of(Fast)], [base |-> "pi", target |-> Alias("lite")]>>]

File(work, plain) ==
  [bases |-> Catalog, routes |-> [a \in {"work", "plain"} |-> IF a = "work" THEN work ELSE plain],
   harnesses |-> [h \in {"agent", "tools"} |->
     IF h = "agent" THEN [base |-> AutoBase, route |-> "work", needs |-> {}]
     ELSE [base |-> "claude", route |-> "work", needs |-> {"hard"}]]]

\* Routes a word away from the good one. Three of them are accepted as well: one
\* without profiles, one with a leg no base can take, one whose alias loses a leg.
OtherWork ==
  {[Work EXCEPT !.profiles = <<>>], [Work EXCEPT !.profiles = <<@[1]>>],
   [Work EXCEPT !.profiles[1].bases = <<>>], [Work EXCEPT !.profiles[1].bases = <<"cursor">>],
   [Work EXCEPT !.router.defaultProfile = None], [Work EXCEPT !.router.defaultTier = "extreme"],
   [Work EXCEPT !.router = None], [Work EXCEPT !.legs = <<>>],
   [Work EXCEPT !.tiers = <<@[1]>>], [Work EXCEPT !.tiers[1].name = "hard"],
   [Work EXCEPT !.tiers[1].targets = <<>>], [Work EXCEPT !.tiers[1].targets = <<Alias("judge")>>],
   [Work EXCEPT !.tiers[1].targets = <<Alias("absent")>>], [Work EXCEPT !.tiers[3].bases = {"cursor"}],
   [Work EXCEPT !.tiers[3].targets = <<Of(Deep), Of(Leg("bedrock", "nova"))>>],
   [Work EXCEPT !.strategy = "other"]}
OtherPlain == {[Plain EXCEPT !.legs[1].base = "cursor"], [Plain EXCEPT !.legs[1].target = Of(Deep)],
               [Plain EXCEPT !.router = Work.router]}

GoodFile == File(Work, Plain)
GoodFiles == {GoodFile}
SomeFiles ==
  GoodFiles \cup {File(w, Plain) : w \in OtherWork} \cup {File(Work, p) : p \in OtherPlain}
  \cup {[GoodFile EXCEPT !.bases["pi"].wires = {}], [GoodFile EXCEPT !.harnesses["agent"].route = "absent"],
        [GoodFile EXCEPT !.harnesses["tools"].base = "cursor"],
        [GoodFile EXCEPT !.harnesses["tools"].route = None]}

Drop(providers, bases) == [providers |-> providers, bases |-> bases]
SomeDrops == {Drop({}, {"codex", "pi"}), Drop({"vertex"}, {}), Drop({"deepseek"}, {"claude"}),
              Drop({"deepseek"}, {}), Drop({"typesafe"}, {})}
NoDrops == {}
HarnessIds == <<"agent", "tools">>

Ask == [harness |-> None, model |-> None, native |-> FALSE, vision |-> FALSE,
        needs |-> {}, strategy |-> None]
MCAsks == {Ask,
           [Ask EXCEPT !.strategy = "static"],
           [Ask EXCEPT !.vision = TRUE, !.needs = {"env"}],
           [Ask EXCEPT !.harness = "tools", !.native = TRUE],
           [Ask EXCEPT !.harness = "plain", !.strategy = "jev"],
           [Ask EXCEPT !.harness = "plain", !.model = "gemini-flash"],
           [Ask EXCEPT !.strategy = "cheapest"],
           [Ask EXCEPT !.harness = "absent"]}
PlainAsks == {Ask}
=============================================================================
