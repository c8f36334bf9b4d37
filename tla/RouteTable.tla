------------------------------ MODULE RouteTable ------------------------------
(* The table of chat routes (routing/table.rs): loaded once at startup,      *)
(* perhaps pruned, and then only read.                                       *)
(*   table  [legs     : alias -> sequence of legs, a Jev route's in static   *)
(*                      order,                                               *)
(*           jev      : alias -> [tiers, defaultTier, minConfidence,         *)
(*                      reasoningThreshold] for the routes Jev decides,      *)
(*           policies : alias -> guard policy,                               *)
(*           declared : the aliases the file declares as Jev routes, also    *)
(*                      those that pruning made static]                      *)
(*   entry  [strategy, legs (or None), tiers, router (or None), policy]      *)
(*   router [defaultTier, minConfidence, reasoningThreshold, inRange]:       *)
(*          inRange when both numbers are within [0, 1] and timeout_ms is    *)
(*          not 0                                                            *)
EXTENDS RouteTiers, FiniteSets

CONSTANT AliasOrder   \* every alias, in lexicographic order

MaxTiers == 10

\* The shape of what a file says.
IsLeg(l)  == l = [provider |-> l.provider, model |-> l.model, effort |-> l.effort]
AreLegs(legs) == IsList(legs) /\ \A i \in DOMAIN legs : IsLeg(legs[i])
IsTier(t) == t = [name |-> t.name, effort |-> t.effort, legs |-> t.legs] /\ AreLegs(t.legs)
IsEntry(e) == /\ e.legs # None => AreLegs(e.legs)
              /\ IsList(e.tiers) /\ \A i \in DOMAIN e.tiers : IsTier(e.tiers[i])

Lookup(f, k, default) == IF k \in DOMAIN f THEN f[k] ELSE default
IsVertex(l) == l.provider = "vertex"
\* The longest prefix of Vertex legs.
LeadingVertex(legs) ==
  LET stop == Position(legs, LAMBDA l : ~ IsVertex(l))
  IN IF stop = 0 THEN legs ELSE SubSeq(legs, 1, stop - 1)

DefaultIndex(route) ==
  LET found == Position(route.tiers, LAMBDA t : t.name = route.defaultTier)
  IN IF found = 0 THEN 1 ELSE found

LegsOf(planned) == [i \in DOMAIN planned |-> planned[i].leg]
StaticLegs(route) == LegsOf(OrderLegs(route.tiers, DefaultIndex(route), TierEffort(FALSE)))

----------------------------------------------------------------------------
(* Loading *)

\* What is left out of the checks: that names are ASCII, that tiers are described.
ValidJevRoute(router, tiers) ==
  /\ router # None
  /\ Len(tiers) \in 2..MaxTiers
  /\ \A i, j \in DOMAIN tiers : i # j => tiers[i].name # tiers[j].name
  /\ \A i \in DOMAIN tiers : /\ tiers[i].legs # <<>>
                             /\ \A l \in Range(tiers[i].legs) : l.provider # "typesafe"
  /\ \E i \in DOMAIN tiers : tiers[i].name = router.defaultTier
  /\ router.inRange

ValidEntry(e) ==
  \/ e.strategy = "static" /\ e.tiers = <<>> /\ e.legs # None
  \/ e.strategy = "jev" /\ e.legs \in {None, <<>>} /\ ValidJevRoute(e.router, e.tiers)

JevRouteOf(e) == [tiers |-> e.tiers, defaultTier |-> e.router.defaultTier,
                  minConfidence |-> e.router.minConfidence,
                  reasoningThreshold |-> e.router.reasoningThreshold]

\* None when some route of the file is not valid.
FromFile(file) ==
  LET jev == {a \in DOMAIN file : file[a].strategy = "jev"} IN
  IF \E a \in DOMAIN file : ~ ValidEntry(file[a]) THEN None
  ELSE [legs |-> [a \in DOMAIN file |-> IF a \in jev THEN StaticLegs(JevRouteOf(file[a]))
                                        ELSE file[a].legs],
        jev |-> [a \in jev |-> JevRouteOf(file[a])],
        policies |-> [a \in {b \in DOMAIN file : file[b].policy # None} |-> file[a].policy],
        declared |-> jev]

PolicyOf(table, alias) == Lookup(table.policies, alias, "default")

\* The providers startup must find credentials for.
ReferencedProviders(table) ==
  (UNION {{l.provider : l \in Range(table.legs[a])} : a \in DOMAIN table.legs})
    \cup (IF DOMAIN table.jev = {} THEN {} ELSE {"typesafe"})

----------------------------------------------------------------------------
(* Pruning: the table without the legs of some providers *)

Kept(legs, drop) == Filter(legs, LAMBDA l : l.provider \notin drop)

\* None when fewer than two tiers have legs left. The default is picked again:
\* the first surviving tier at or above the old one, else the hardest.
\* Fault: the default stays what it was.
PrunedRoute_KeepsDefault(route, drop) ==
  LET kept == Filter([i \in DOMAIN route.tiers |->
                       [route.tiers[i] EXCEPT !.legs = Kept(@, drop)]],
                     LAMBDA t : t.legs # <<>>)
  IN IF Len(kept) < 2 THEN None ELSE [route EXCEPT !.tiers = kept]
PrunedRoute(route, drop) ==
  LET pruned == [i \in DOMAIN route.tiers |->
                  [at |-> i, tier |-> [route.tiers[i] EXCEPT !.legs = Kept(@, drop)]]]
      kept   == Filter(pruned, LAMBDA t : t.tier.legs # <<>>)
      picked == Position(kept, LAMBDA t : t.at >= DefaultIndex(route))
  IN IF Len(kept) < 2 THEN None
     ELSE [route EXCEPT !.tiers = [i \in DOMAIN kept |-> kept[i].tier],
                        !.defaultTier = kept[IF picked = 0 THEN Len(kept) ELSE picked].tier.name]

\* Without typesafe there is nobody to decide: every Jev route becomes static. A
\* route without a leg goes, and its policy with it.
WithoutProviders(table, drop) ==
  LET decided == {a \in DOMAIN table.jev :
                    "typesafe" \notin drop /\ PrunedRoute(table.jev[a], drop) # None}
      jev  == [a \in decided |-> PrunedRoute(table.jev[a], drop)]
      Left(a) == IF a \in decided THEN StaticLegs(jev[a]) ELSE Kept(table.legs[a], drop)
      left == {a \in DOMAIN table.legs : Left(a) # <<>>}
  IN [legs |-> [a \in left |-> Left(a)],
      jev |-> jev,
      policies |-> [a \in DOMAIN table.policies \cap left |-> table.policies[a]],
      declared |-> table.declared]

----------------------------------------------------------------------------
(* Gemini passthrough: which legs and which policies a model id stands for *)

ChatAliases(table) == DOMAIN table.legs \ table.declared
LegFor(legs, model) == Position(legs, LAMBDA l : IsVertex(l) /\ l.model = model)
FirstAlias(aliases) == AliasOrder[Position(AliasOrder, LAMBDA a : a \in aliases)]

\* The route, or None, and the Vertex legs to forward to: those an alias starts
\* with; else from the model's own leg on, in the first route that starts with
\* it, or else that lists it; else the model by itself.
VertexFallbackChain(table, model) ==
  LET listing  == {a \in ChatAliases(table) : LegFor(table.legs[a], model) # 0}
      starting == {a \in listing : LegFor(table.legs[a], model) = 1}
      From(legs) == LeadingVertex(SubSeq(legs, LegFor(legs, model), Len(legs)))
      chain == [a \in listing |-> [route |-> a, legs |-> From(table.legs[a])]]
  IN CASE model \in ChatAliases(table) ->
            [route |-> model, legs |-> LeadingVertex(table.legs[model])]
       [] model \notin ChatAliases(table) /\ listing = {} ->
            [route |-> None, legs |-> <<[provider |-> "vertex", model |-> model, effort |-> None]>>]
       [] OTHER -> chain[FirstAlias(IF starting # {} THEN starting ELSE listing)]

\* Every policy of a route that could have sent the model this text.
PassthroughPolicies(table, model) ==
  LET routes == {a \in ChatAliases(table) :
                   \E l \in Range(table.legs[a]) : IsVertex(l) /\ l.model = model}
  IN IF model \in ChatAliases(table) THEN {PolicyOf(table, model)}
     ELSE IF routes = {} THEN {"default"} ELSE {PolicyOf(table, a) : a \in routes}
=============================================================================
