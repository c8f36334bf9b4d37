------------------------------ MODULE HarnessGrid ------------------------------
(* The two-dimensional harness route: bases (runtimes) on one axis, tiers of *)
(* models on the other. What survives a request's requirements, in which     *)
(* order its cells are tried, and what remains of a table when providers or  *)
(* bases are missing. Functions of routing/harness_table.rs and              *)
(* routing/harness_jev.rs; effort and step budgets are left out.             *)
(*   leg    [provider, model]                                                *)
(*   base   [wires, able]: protocols it speaks, capabilities it has          *)
(*   tier   [name, bases (a set, or None for every base), legs]              *)
(*   route  [profiles (<<[name, bases]>>), tiers, defaultProfile, defaultTier] *)
(* An index of 0 is the code's None.                                         *)
EXTENDS RouteTiers, FiniteSets

CONSTANTS
  BaseOrder,      \* every base, in the order of the catalog's BTreeMap
  ClaudeModels,   \* models whose name starts with "claude-"
  TextOnlyModels  \* models is_text_only_model knows

ASSUME BaseOrderAssumption == IsList(BaseOrder) /\ IsInjective(BaseOrder)

\* The first of every class of the equivalence Same, in order.
WithoutRepeats(s, Same(_, _)) ==
  ElementsAt(s, {i \in DOMAIN s : \A j \in 1..(i - 1) : ~ Same(s[j], s[i])})

ProviderWires(l) ==
  CASE l.provider = "anthropic" -> {"anthropic_messages"}
    [] l.provider = "vertex" /\ l.model \in ClaudeModels -> {"vertex_anthropic"}
    [] l.provider = "vertex" /\ l.model \notin ClaudeModels -> {"gemini_native", "openai_chat"}
    [] l.provider = "openai" -> {"openai_responses", "openai_chat"}
    [] l.provider \in {"bedrock", "typesafe"} -> {l.provider}
    [] OTHER -> {"openai_chat"}

\* preferred_wire finds one; which one is not told apart here.
Speaks(spec, l) == spec.wires \cap ProviderWires(l) # {}
Allows(tier, b) == tier.bases = None \/ b \in tier.bases

AtLeastOne(i) == IF i = 0 THEN 1 ELSE i
DefaultTierIndex(route) == AtLeastOne(Position(route.tiers, LAMBDA t : t.name = route.defaultTier))
DefaultProfileIndex(route) ==
  AtLeastOne(Position(route.profiles, LAMBDA p : p.name = route.defaultProfile))

BasesInOrder(catalog) == Filter(BaseOrder, LAMBDA b : b \in DOMAIN catalog)

----------------------------------------------------------------------------
(* A request's grid *)

EligibleGrid(route, catalog, reqs) ==
  LET able == {b \in DOMAIN catalog : reqs.base \in {None, b} /\ reqs.needs \subseteq catalog[b].able}
      Compatible(b, l) == /\ reqs.native => l.provider = "vertex"
                          /\ reqs.vision => l.model \notin TextOnlyModels
                          /\ reqs.model \in {None, l.model}
                          /\ Speaks(catalog[b], l)
      HasCell(b) == \E t \in Range(route.tiers) :
                      Allows(t, b) /\ \E l \in Range(t.legs) : Compatible(b, l)
      profiles == [i \in DOMAIN route.profiles |->
                    [route.profiles[i] EXCEPT !.bases =
                       Filter(@, LAMBDA b : b \in able /\ HasCell(b))]]
      candidates == IF route.profiles = <<>> THEN able
                    ELSE UNION {Range(p.bases) : p \in Range(profiles)}
      tiers == [i \in DOMAIN route.tiers |->
                 [route.tiers[i] EXCEPT !.legs =
                    Filter(@, LAMBDA l : \E b \in candidates :
                                   Allows(route.tiers[i], b) /\ Compatible(b, l))]]
  IN IF \A t \in Range(tiers) : t.legs = <<>> THEN None
     ELSE [bases |-> [b \in able |-> catalog[b]], profiles |-> profiles, tiers |-> tiers]

ActiveProfiles(grid) == {i \in DOMAIN grid.profiles : grid.profiles[i].bases # <<>>}

\* Which bases to visit, each with the profile it is visited for.
Visits(grid, route, chosen) ==
  LET default == DefaultProfileIndex(route)
      primary == IF chosen = 0 THEN default ELSE chosen
      indices == [i \in DOMAIN grid.profiles |-> i]
      rest    == Filter(indices, LAMBDA i : i \notin {primary, default})
      order   == <<primary>> \o (IF default = primary THEN <<>> ELSE <<default>>) \o rest
      Of(i)   == [k \in DOMAIN grid.profiles[i].bases |-> <<i, grid.profiles[i].bases[k]>>]
  IN IF grid.profiles = <<>> THEN FlatMap(BasesInOrder(grid.bases), LAMBDA b : <<<<0, b>>>>)
     ELSE FlatMap(order, Of)

\* The cells of one visit: the tiers that allow the base, in escalation order.
CellsOfVisit(catalog, tiers, start, visit) ==
  LET b == visit[2]
      OfTier(ti) ==
        LET legs == Filter(tiers[ti].legs, LAMBDA l : Speaks(catalog[b], l)) IN
        IF ~ Allows(tiers[ti], b) THEN <<>>
        ELSE [k \in DOMAIN legs |-> [profile |-> visit[1], base |-> b, tier |-> ti, leg |-> legs[k]]]
  IN IF b \in DOMAIN catalog THEN FlatMap(EscalationOrder(Len(tiers), start), OfTier) ELSE <<>>

\* Fault: a leg two tiers share is tried in the first of them only.
SameCell_AnyTier(c, d) == c.base = d.base /\ c.leg = d.leg
SameCell(c, d) == c.base = d.base /\ c.tier = d.tier /\ c.leg = d.leg

\* Fault: tier outer, base inner.
OrderGrid_TierOuter(grid, route, chosen, start) ==
  LET cells == FlatMap(Visits(grid, route, chosen),
                       LAMBDA v : CellsOfVisit(grid.bases, grid.tiers, start, v))
  IN WithoutRepeats(FlatMap(EscalationOrder(Len(grid.tiers), start),
                            LAMBDA ti : Filter(cells, LAMBDA c : c.tier = ti)), SameCell)

\* Base outer, tier inner.
OrderGrid(grid, route, chosen, start) ==
  WithoutRepeats(FlatMap(Visits(grid, route, chosen),
                         LAMBDA v : CellsOfVisit(grid.bases, grid.tiers, start, v)), SameCell)

\* Jev's answer, each axis 0 when its own confidence is too low or it names no
\* profile; None for no answer at all.
Answers(route) == [tier : 0..Len(route.tiers), profile : 0..Len(route.profiles)]

Select2d(answer, route, askProfile) ==
  [tier |-> IF answer # None /\ answer.tier # 0 THEN answer.tier ELSE DefaultTierIndex(route),
   profile |-> IF ~ askProfile THEN 0
               ELSE IF answer # None /\ answer.profile # 0 THEN answer.profile
               ELSE DefaultProfileIndex(route)]

\* What the reply's headers say of the cell that served.
ReportFor(plan, served) ==
  LET matched == plan[Position(plan, LAMBDA c : c.base = served.base /\ c.leg = served.leg)]
  IN [base |-> matched.base, profile |-> matched.profile, tier |-> matched.tier]

----------------------------------------------------------------------------
(* The table: [catalog, harnesses, jev (alias -> route), static (alias -> legs)] *)

\* The legs of a route that is not decided by Jev, or is overridden.
FlattenJevToStatic(route, catalog) ==
  LET grid  == [bases |-> catalog, profiles |-> route.profiles, tiers |-> route.tiers]
      cells == FlatMap(Visits(grid, route, 0),
                       LAMBDA v : CellsOfVisit(catalog, route.tiers, DefaultTierIndex(route), v))
      legs  == [i \in DOMAIN cells |-> [base |-> cells[i].base, leg |-> cells[i].leg]]
  IN WithoutRepeats(legs, LAMBDA c, d : c = d)

\* One profile is no choice: the route then ranges over the whole catalog.
\* Fault: it stays.
Collapsed_Kept(profiles) == profiles
Collapsed(profiles) == IF Len(profiles) = 1 THEN <<>> ELSE profiles

\* None when the route can no longer be decided: it is then a static one.
PruneJevRoute(route, catalog, drop) ==
  LET kept == Filter([i \in DOMAIN route.profiles |->
                           [route.profiles[i] EXCEPT !.bases = Filter(@, LAMBDA b : b \in DOMAIN catalog)]],
                        LAMBDA p : p.bases # <<>>)
      profiles == Collapsed(kept)
      active == IF profiles = <<>> THEN DOMAIN catalog
                ELSE UNION {Range(p.bases) : p \in Range(profiles)}
      PrunedTier(i) ==
        LET t == [route.tiers[i] EXCEPT !.bases = IF @ = None THEN None ELSE @ \cap DOMAIN catalog]
        IN [i |-> i, tier |-> [t EXCEPT !.legs = Filter(@, LAMBDA l :
              l.provider \notin drop /\ \E b \in active : Allows(t, b) /\ Speaks(catalog[b], l))]]
      pruned == [i \in DOMAIN route.tiers |-> PrunedTier(i)]
      tiers  == Filter(pruned, LAMBDA t : t.tier.legs # <<>>)
      picked == Position(tiers, LAMBDA t : t.i >= DefaultTierIndex(route))
  IN IF DOMAIN catalog = {} \/ Len(tiers) < 2 \/ (kept = <<>> /\ route.profiles # <<>>) THEN None
     ELSE [profiles |-> profiles, tiers |-> [i \in DOMAIN tiers |-> tiers[i].tier],
           defaultProfile |-> IF profiles = <<>> THEN None
                              ELSE IF \E p \in Range(kept) : p.name = route.defaultProfile
                                   THEN route.defaultProfile ELSE kept[1].name,
           defaultTier |-> tiers[IF picked = 0 THEN Len(tiers) ELSE picked].tier.name]

\* What is left of a table for a catalog and a set of dropped providers. Without
\* "typesafe" there is no Jev to ask and every route becomes static.
Pruned(table, catalog, drop) ==
  LET Prune(a) == PruneJevRoute(table.jev[a], catalog, drop)
      decided == IF "typesafe" \in drop THEN {} ELSE {a \in DOMAIN table.jev : Prune(a) # None}
  IN [catalog |-> catalog, harnesses |-> table.harnesses,
      jev |-> [a \in decided |-> Prune(a)],
      static |-> [a \in DOMAIN table.static |->
                   IF a \in decided THEN FlattenJevToStatic(Prune(a), catalog)
                   ELSE Filter(table.static[a], LAMBDA c :
                          c.leg.provider \notin drop /\ c.base \in DOMAIN catalog)]]

WithoutProviders(table, drop) == Pruned(table, table.catalog, drop)
WithoutBases(table, drop) == Pruned(table, [b \in DOMAIN table.catalog \ drop |-> table.catalog[b]], {})
=============================================================================
