----------------------------- MODULE GatewayProcess -----------------------------
(* The gateway process: started from its files, its agent registry seeded    *)
(* before anything is served, then serving requests and agent operations     *)
(* until it crashes; what it kept in memory is gone with it.                 *)
EXTENDS ChatRequest, EmbedRequest, Passthrough, Startup, AgentRegistry

CONSTANTS
  Loads,      \* name -> [files, requests, agents]: a configuration and what is asked of it
  MaxCrashes  \* bound: crashes; only loads of agent operations see any

Kinds == {"chat", "embed", "gemini", "systemone"}

\* Requests are bodies of their kind, files lists of records, credentials those of
\* providers the binary recognises, seeds are agents, and only an idle gateway is
\* seen to crash.
ASSUME LoadsAssumption ==
  /\ None \notin {"guard_classifier", "route_decision", "chat", "systemone"}
  /\ \A n \in DOMAIN Loads :
       /\ Loads[n].agents => Loads[n].requests = {}
       /\ \A r \in Loads[n].requests :
            /\ r # None /\ r.kind \in Kinds
            /\ r.text \in Seq([at : Places(r), shows : SUBSET STRING])
            /\ r.kind = "chat" => r.vertex \in BOOLEAN
       /\ \A a \in DOMAIN Loads[n].files.routes : IsEntry(Loads[n].files.routes[a])
       /\ \A a \in DOMAIN Loads[n].files.embeds : IsEmbed(Loads[n].files.embeds[a])
       /\ Loads[n].files.keys \subseteq Recognised
       /\ Loads[n].files.seeds \in Seq([id : Ids, by : STRING, ttl : Nat \cup {Forever}])

VARIABLES phase, load, crashes

vars == <<gw, requestVars, registryVars, phase, load, crashes>>

Init ==
  /\ load \in DOMAIN Loads /\ phase = "down" /\ crashes = 0 /\ gw = None
  /\ NoRequest /\ NewRegistry(<<>>)

----------------------------------------------------------------------------
(* The process *)

\* main: an error on the way ends it, and whoever supervises it tries again.
Launch ==
  /\ phase \in {"down", "refused"}
  /\ gw' = Start(Loads[load].files)
  /\ phase' = IF gw' = None THEN "refused" ELSE "seeding"
  /\ seeds' = IF gw' = None THEN <<>> ELSE Loads[load].files.seeds
  /\ UNCHANGED <<requestVars, agents, tries, fetched, load, crashes>>

Seed == /\ phase = "seeding" /\ (SeedFetched \/ SeedRetried \/ SeedSkipped)
        /\ UNCHANGED <<gw, requestVars, phase, load, crashes>>

\* Only now do the listeners accept anybody.
Listen ==
  /\ phase = "seeding" /\ seeds = <<>> /\ phase' = "up"
  /\ UNCHANGED <<gw, requestVars, registryVars, load, crashes>>

Crash ==
  /\ Loads[load].agents /\ phase \in {"seeding", "up"} /\ crashes < MaxCrashes
  /\ phase' = "down" /\ gw' = None /\ crashes' = crashes + 1
  /\ agents' = [i \in Ids |-> NoAgent] /\ seeds' = <<>> /\ tries' = 0 /\ fetched' = <<>>
  /\ UNCHANGED <<requestVars, load>>

----------------------------------------------------------------------------
(* What it serves *)

Agents ==
  /\ phase = "up" /\ Loads[load].agents
  /\ \/ \E i \in Ids, w \in Writers, ttl \in Ttls : RegisterAgent(i, w, ttl)
     \/ \E i \in Ids : DeregisterAgent(i) \/ ResolveAgent(i)
     \/ ListAgents
  /\ UNCHANGED <<gw, requestVars, phase, load, crashes>>
Time == AgentsAge /\ UNCHANGED <<gw, requestVars, phase, load, crashes>>

Served(A) == phase = "up" /\ A /\ UNCHANGED <<gw, registryVars, phase, load, crashes>>

Arrive ==
  \E r \in Loads[load].requests :
    \/ r.kind = "chat"      /\ Served(ChatArrives(r))
    \/ r.kind = "embed"     /\ Served(EmbedArrives(r))
    \/ r.kind = "gemini"    /\ Served(GeminiArrives(r))
    \/ r.kind = "systemone" /\ Served(SystemOneArrives(r))

Work == Served(Screening \/ ChatWork \/ EmbedWork \/ PassthroughWork)
\* What an upstream does of its own accord: the answer to a decision.
Decision == Served(JevFails \/ \E answers \in Answers : JevAnswers(answers))
Abandon == Served(AbandonScreening \/ AbandonChat \/ AbandonEmbed \/ AbandonPassthrough)

\* The reply has been sent and the request is forgotten.
Forget ==
  /\ pc = "done"
  /\ req' = None /\ pc' = "idle" /\ text' = <<>> /\ screens' = {} /\ walk' = <<>>
  /\ calls' = <<>> /\ rows' = <<>> /\ plan' = None /\ masked' = FALSE /\ work' = None
  /\ reply' = None
  /\ UNCHANGED <<gw, registryVars, phase, load, crashes>>

Next ==
  \/ Launch \/ Seed \/ Listen \/ Crash
  \/ Agents \/ Time
  \/ Arrive \/ Work \/ Decision \/ Abandon \/ Forget

Spec == Init /\ [][Next]_vars

\* The process is scheduled, and every call ends: with an answer, with the
\* client's request timeout, or, for a decision, with the route's own timeout and
\* nothing else. Nobody has to send a request or wait for its reply.
FairSpec == Spec /\ WF_vars(Seed \/ Listen \/ Work \/ Forget)

----------------------------------------------------------------------------
(* Properties *)

\* A gateway that starts can serve what it lists: every leg of a chat route has a
\* provider behind it and every leg of an embedding alias an embedder, a decided
\* route still has tiers to choose from and a default among them, and a route keeps
\* its policy. Lenient validation drops an alias only when none of its legs can be
\* served; strict validation drops none, and lists even a route that was written
\* without legs (main.rs, table.rs without_providers, providers/mod.rs).
TableIsServable ==
  gw # None =>
    /\ \A a \in DOMAIN gw.table.legs : \A l \in Range(gw.table.legs[a]) :
         IF l.provider = "typesafe" THEN gw.jev ELSE l.provider \in gw.built
    /\ \A a \in DOMAIN gw.table.jev :
         /\ gw.jev /\ Len(gw.table.jev[a].tiers) >= 2
         /\ \E t \in Range(gw.table.jev[a].tiers) : t.name = gw.table.jev[a].defaultTier
    /\ \A a \in DOMAIN gw.embeds : gw.embeds[a].legs # <<>>
         /\ \A l \in Range(gw.embeds[a].legs) : l.provider \in gw.embedders
    /\ LET files  == Loads[load].files
           routes == files.routes
           Own(e) == IF e.strategy = "jev" THEN FlatMap(e.tiers, LAMBDA t : t.legs) ELSE e.legs
           Legless(a) == Own(routes[a]) = <<>>
           Keyed(a)   == \E l \in Range(Own(routes[a])) : l.provider \in files.keys
       IN /\ DOMAIN gw.table.legs =
               {a \in DOMAIN routes : Keyed(a) \/ (Legless(a) /\ ~ Lenient(files.env))}
          /\ \A a \in DOMAIN gw.table.legs :
               /\ gw.table.legs[a] = <<>> <=> Legless(a)
               /\ PolicyOf(gw.table, a) = IF routes[a].policy = None THEN "default" ELSE routes[a].policy

\* The policies a request falls under, read off the table without the code's order.
NamedBy(r) ==
  CASE r.kind = "chat"  -> {PolicyOf(gw.table, r.alias)}
    [] r.kind = "embed" -> {IF gw.embeds[r.alias].policy = None THEN "default"
                            ELSE gw.embeds[r.alias].policy}
    [] r.kind = "systemone" -> {"default"}
    [] r.kind = "gemini" ->
         LET static == DOMAIN gw.table.legs \ gw.table.declared
             listing == {a \in static : \E l \in Range(gw.table.legs[a]) :
                                          l.provider = "vertex" /\ l.model = r.model}
         IN IF r.action \in NonContent THEN {}
            ELSE IF r.model \in static THEN {PolicyOf(gw.table, r.model)}
            ELSE IF listing = {} THEN {"default"} ELSE {PolicyOf(gw.table, a) : a \in listing}
Enforced(r) == {p \in NamedBy(r) \cap DOMAIN gw.guard : gw.guard[p].enforce}

\* What nobody screens: what guardrails-policy.md lists and, which it does not, the
\* content of a chat message given as an object.
NotScanned(r) ==
  CASE r.kind = "chat"      -> {"assistant", "image", "object"}
    [] r.kind = "embed"     -> {}
    [] r.kind = "systemone" -> {"model"}
    [] r.kind = "gemini"    ->
         IF r.action \in {"generateContent", "streamGenerateContent", "embedContent",
                          "batchEmbedContents"}
         THEN {"modelTurn", "functionCall", "inlineData", "fileData"}
         ELSE {"inlineData", "fileData"}
Shows(c, scanners) ==
  \E i \in DOMAIN c.text :
    IF c.lane = "guard" THEN c.text[i] \cap scanners # {}
    ELSE c.text[i].at \notin NotScanned(req) /\ c.text[i].shows \cap scanners # {}
Wanting(p, action) == {s \in DOMAIN gw.guard[p].wants : gw.guard[p].wants[s] = action}

\* In no place of a body but those listed as not scanned does an upstream see a match
\* some enforced policy of the request masks; and a classifier never sees one its own
\* policy masks, enforced or not (engine.rs screen, leaves.rs, server.rs screen_gemini).
MaskedTextOnly ==
  \A c \in Range(calls) :
    IF c.lane = "guard" THEN ~ Shows(c, Wanting(c.policy, "mask"))
    ELSE \A p \in Enforced(req) : ~ Shows(c, Wanting(p, "mask"))

\* A match an enforced policy blocks reaches no upstream, and a request that is
\* refused has called nobody but classifiers and left exactly one blocked row, the
\* classifier's if one scored it and the gateway's own if not (gateway.rs guard_lane).
BlockedReachesNobody ==
  /\ \A c \in Range(calls) :
       \A p \in IF c.lane = "guard" THEN Enforced(req) \cap {c.policy} ELSE Enforced(req) :
         ~ Shows(c, Wanting(p, "block"))
  /\ (pc = "done" /\ reply.status \in {"content_blocked", "guard_unavailable"}) =>
       /\ \A c \in Range(calls) : c.lane = "guard"
       /\ Cardinality({i \in DOMAIN rows : rows[i].status = "blocked"})
            = IF reply.status = "content_blocked" THEN 1 ELSE 0

Models(legs) == [i \in DOMAIN legs |-> <<legs[i].provider, legs[i].model>>]

\* A route Jev decides: where the decision is followed, the walk starts at the tier
\* it names, at the nearest harder one when that cannot serve the request, or else
\* at the nearest easier; where it is not (no answer, no confidence, no key, the
\* client said static), it is the route's static order. Either way every leg that
\* can serve the request is on it once (route_planner.rs, jev_router.rs).
PlanFollowsDecision ==
  (plan # None /\ plan.mode # "static") =>
    LET Able(legs) == IF req.vertex THEN VertexLegs(legs) ELSE legs
        static  == Models(Able(gw.table.legs[req.alias]))
        planned == Models(Chain(plan))
        serving == {t \in DOMAIN Route.tiers : Able(Route.tiers[t].legs) # <<>>}
        first   == plan.legs[1].tier
    IN /\ Len(planned) = Len(static) /\ Range(planned) = Range(static)
       /\ IF plan.outcome = "decided"
          THEN /\ first \in serving
               /\ \A t \in serving : IF first >= plan.decided THEN t >= first \/ t < plan.decided
                                     ELSE t <= first
          ELSE planned = static

\* The rows of a request that is over account for its calls: one for every answer
\* of a classifier, a decision or a chat leg, for every stream that began, for every
\* leg a metered passthrough called unless the client left while it was called, and
\* one for an embedding. What is paid and not recorded is what the code gives up: a
\* buffered native reply that breaks off and the batches of an embedding leg that
\* fails (gateway.rs, jev_hybrid.rs, server.rs).
Owed(c) ==
  CASE c.lane = "guard"    -> IF c.came = "ok" THEN "guard_classifier" ELSE None
    [] c.lane = "decide"   -> IF c.came = "ok" THEN "route_decision" ELSE None
    [] c.lane = "forward"  -> IF c.came # "left" THEN "chat" ELSE None
    [] c.lane = "evaluate" -> "systemone"
    [] c.lane \in {"jev", "native", "standard"} ->
         IF c.came = "ok" \/ (req.stream /\ c.came \in {"broke", "quit"}) THEN "chat" ELSE None
    [] OTHER -> None
RowsAccountForCalls ==
  pc = "done" =>
    /\ \A op \in {"guard_classifier", "route_decision", "chat", "systemone"} :
         Cardinality({i \in DOMAIN rows : rows[i].op = op})
           = Cardinality({i \in DOMAIN calls : Owed(calls[i]) = op})
    /\ Cardinality({i \in DOMAIN rows : rows[i].op = "embedding"})
         = IF req.kind = "embed" /\ reply.status = "ok" THEN 1 ELSE 0

\* Unless the leg that served an embedding request left an input out, item n of the
\* reply is the embedding of input n, for every input, however many legs had embedded
\* some of them before they failed and in whatever order answers list them (the doc of
\* EmbeddingProvider::embed, embeddings/mod.rs).
VectorsFollowInputs ==
  (pc = "done" /\ req.kind = "embed" /\ reply.status = "ok"
     /\ \A c \in Range(calls) : c.leg = Head(walk) => c.came # "short") =>
    /\ Cardinality(work.data) = Len(req.text)
    /\ \A d \in work.data : d.embedding = d.index + 1

\* An agent id belongs to its first writer until it is taken out of the registry,
\* by deregistration, by a lookup after its expiry, or with the process: no other
\* registration changes it, not even of an agent that has expired. When the process
\* starts to serve, an id belongs to the first seed of the file whose card came
\* (registry.rs try_register, seed.rs seed_agents).
FirstWriterKeepsTheId ==
  [][\A i \in Ids :
       /\ (agents[i] # NoAgent /\ agents'[i] # NoAgent) => agents'[i].by = agents[i].by
       /\ (phase = "seeding" /\ phase' = "up") =>
            IF \E k \in DOMAIN fetched : fetched[k].id = i
            THEN agents[i].by = fetched[Position(fetched, LAMBDA s : s.id = i)].by
            ELSE agents[i] = NoAgent]_vars

\* Whoever sends a request gets a reply, although nobody but the route's own timeout
\* makes a decision end; and a process that starts gets past its seeds.
EveryRequestEnds == (req # None ~> pc = "done") /\ (phase = "seeding" ~> phase # "seeding")
=============================================================================
