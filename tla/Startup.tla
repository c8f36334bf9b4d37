------------------------------- MODULE Startup -------------------------------
(* From configuration to a gateway, or to a refusal to start: main.rs,       *)
(* config.rs, providers/mod.rs, routing/embeddings.rs and GatewayBuilder.    *)
(*   files  [env : setting -> value (a blank one is not there), keys :       *)
(*           providers with credentials, routes : alias -> entry, embeds :   *)
(*           alias -> [dimensions, legs, policy], guardrails : policy name -> *)
(*           policy, or None, seeds]                                         *)
(*   gw     [table, embeds, guard : policy name -> policy, jev, vertex,      *)
(*           built : the catalog's providers, embedders, anyModel]           *)
EXTENDS InputGuard

(* config.rs *)

Setting(env, key, default) == IF key \in DOMAIN env THEN env[key] ELSE default

\* A list of backends, or None where it is empty, repeats one or names another.
ParseLedgerBackends(list) ==
  IF /\ list # <<>> /\ IsInjective(list)
     /\ Range(list) \subseteq {"sqlite", "postgres", "pubsub", "sns"} THEN list ELSE None

\* Any other value, of either, leaves it as it is by default.
Lenient(env)  == Setting(env, "SYNAPSE_PROVIDER_VALIDATION", "strict") = "lenient"
Required(env) == Setting(env, "SYNAPSE_GUARDRAILS", "required") # "optional"
AnyModel(env) == Setting(env, "SYNAPSE_PASSTHROUGH_MODELS", "routed") = "any"

\* A configuration, or None.
FromEnv(env) ==
  LET one  == Setting(env, "SYNAPSE_LEDGER_BACKEND", <<"sqlite">>)
      many == ParseLedgerBackends(Setting(env, "SYNAPSE_LEDGER_BACKENDS", one))
  IN IF \/ many = None
        \/ \E key \in {"SYNAPSE_REQUEST_TIMEOUT_SECS", "SYNAPSE_STREAM_IDLE_TIMEOUT_SECS"} :
             Setting(env, key, "a number") # "a number"
     THEN None
     ELSE [ledgers |-> many, lenient |-> Lenient(env), required |-> Required(env),
           anyModel |-> AnyModel(env)]

----------------------------------------------------------------------------
(* main.rs *)

\* The provider ids this binary recognises; the last one has no chat client.
Recognised == {"vertex", "qwen", "openai", "oai_compat", "typesafe"}
Embedding  == {"vertex", "openai"}

UnsatisfiableProviders(keys, referenced) == referenced \ (keys \cap Recognised)

\* An embedding alias's entry.
IsEmbed(e) ==
  e = [dimensions |-> e.dimensions, legs |-> e.legs, policy |-> e.policy] /\ IsList(e.legs)

EmbedProviders(embeds) == UNION {{l.provider : l \in Range(embeds[a].legs)} : a \in DOMAIN embeds}
EmbedsFromFile(embeds) ==
  IF \E a \in DOMAIN embeds : embeds[a].dimensions = 0 \/ embeds[a].legs = <<>> THEN None
  ELSE embeds
EmbedsWithout(embeds, drop) ==
  [a \in {b \in DOMAIN embeds : Kept(embeds[b].legs, drop) # <<>>} |->
    [embeds[a] EXCEPT !.legs = Kept(@, drop)]]

\* Lenient validation drops the legs this process cannot serve, of both tables.
Validated(files, config, table, embeds) ==
  LET drop == UnsatisfiableProviders(files.keys,
                ReferencedProviders(table) \cup EmbedProviders(embeds))
  IN IF ~ config.lenient THEN [table |-> table, embeds |-> embeds]
     ELSE [table |-> WithoutProviders(table, drop), embeds |-> EmbedsWithout(embeds, drop)]

\* The policies routes and embedding aliases name.
NamedPolicies(table, embeds) ==
  Range(table.policies) \cup ({embeds[a].policy : a \in DOMAIN embeds} \ {None})

\* Whoever is referenced and cannot be built stops the start, strict or lenient.
Buildable(keys, table, embeds) ==
  /\ UnsatisfiableProviders(keys, ReferencedProviders(table)) = {}
  /\ EmbedProviders(embeds) \subseteq Embedding \cap keys

\* GatewayBuilder::build over the parts main.rs hands it.
Built(files, config, table, embeds) ==
  [table |-> table, embeds |-> embeds,
   guard |-> IF files.guardrails = None THEN <<>> ELSE files.guardrails,
   jev |-> "typesafe" \in files.keys, vertex |-> "vertex" \in files.keys,
   built |-> ReferencedProviders(table) \ {"typesafe"},
   embedders |-> EmbedProviders(embeds), anyModel |-> config.anyModel]

\* The gateway these files make, or None.
Start(files) ==
  LET config == FromEnv(files.env)
      table  == FromFile(files.routes)
      embeds == EmbedsFromFile(files.embeds)
      left   == Validated(files, config, table, embeds)
      guard  == IF files.guardrails = None THEN <<>> ELSE files.guardrails
  IN IF config = None \/ table = None \/ embeds = None THEN None
     ELSE IF /\ GuardrailsAllowed(files.guardrails, NamedPolicies(left.table, left.embeds),
                                  left.table, config.required)
             /\ Buildable(files.keys, left.table, left.embeds)
             /\ ClassifiersWired(guard, "typesafe" \in files.keys)
     THEN Built(files, config, left.table, left.embeds) ELSE None
=============================================================================
