----------------------------- MODULE RoutePlanner -----------------------------
(* How one chat request's legs are planned (routing/jev_router.rs and the    *)
(* pure half of route_planner.rs): the mode, the tier a decision selects,    *)
(* the plan, and what the reply's headers say about it afterwards.           *)
(*   answers [difficulty (in half tiers counted from the easiest, or NaN),   *)
(*            confidence, reasoning (or None)]: what Jev said                *)
(*   result  [failure (or None), answers (or None)]: what came of asking     *)
(*   plan    [mode, legs, tierNames, decided, outcome, clientEffort, masked] *)
EXTENDS RouteTable, Integers

CONSTANT NaN

\* The strategy a request asks for against the one of its route; None is a 400.
ResolveMode(isJev, requested) ==
  CASE isJev /\ requested \in {None, "jev"}       -> "jev"
    [] isJev /\ requested = "static"              -> "static_override"
    [] ~ isJev /\ requested \in {None, "static"}  -> "static"
    [] OTHER                                      -> None

----------------------------------------------------------------------------
(* The decision *)

\* Asking fails in these ways; an answer without a usable difficulty is an error.
Failures == {"timeout", "error", "unavailable"}
Failed(outcome) == [failure |-> outcome, answers |-> None]
Answered(answers) == IF answers.difficulty = None THEN Failed("error")
                     ELSE [failure |-> None, answers |-> answers]

\* The nearest tier, half rounding up, kept within the tiers; NaN is the easiest.
ScoreToTier(score, n) ==
  LET nearest == IF score = NaN THEN 0 ELSE (score + 1) \div 2
  IN 1 + (IF nearest < 0 THEN 0 ELSE IF nearest > n - 1 THEN n - 1 ELSE nearest)

Bumps(route, a) == a.reasoning # None /\ a.reasoning >= route.reasoningThreshold

Select(result, route) ==
  IF result.failure # None
  THEN [tier |-> DefaultIndex(route), outcome |-> result.failure, bump |-> FALSE]
  ELSE IF result.answers.confidence < route.minConfidence
  THEN [tier |-> DefaultIndex(route), outcome |-> "low_confidence",
        bump |-> Bumps(route, result.answers)]
  ELSE [tier |-> ScoreToTier(result.answers.difficulty, Len(route.tiers)),
        outcome |-> "decided", bump |-> Bumps(route, result.answers)]

StaticOverride(route) ==
  [tier |-> DefaultIndex(route), outcome |-> "static_override", bump |-> FALSE]

----------------------------------------------------------------------------
(* The plan *)

\* A static route's legs as they are. Only a Jev route that pruning made static
\* carries efforts a client's own can replace.
StaticPlan(legs, clientEffort) ==
  [mode |-> "static", legs |-> [i \in DOMAIN legs |-> [leg |-> legs[i], tier |-> 1]],
   tierNames |-> <<>>, decided |-> 0, outcome |-> None,
   clientEffort |-> clientEffort /\ \E l \in Range(legs) : l.effort # None, masked |-> FALSE]

Servable(route, vertexOnly) == NearestServing(EligibleTiers(route.tiers, vertexOnly), 1) # 0

TieredPlan(route, mode, selection, vertexOnly, clientEffort) ==
  LET tiers  == EligibleTiers(route.tiers, vertexOnly)
      policy == IF clientEffort THEN ClientEffort ELSE TierEffort(selection.bump)
      legs   == [start \in DOMAIN tiers |-> OrderLegs(tiers, start, policy)]
  IN [mode |-> mode, legs |-> legs[NearestServing(tiers, selection.tier)],
      tierNames |-> [t \in DOMAIN route.tiers |-> route.tiers[t].name],
      decided |-> selection.tier, outcome |-> selection.outcome,
      clientEffort |-> clientEffort, masked |-> FALSE]

Chain(plan) == LegsOf(plan.legs)

----------------------------------------------------------------------------
(* The report: headers of the reply, for the leg that served or None *)

NameOf(plan, t) == IF t \in DOMAIN plan.tierNames THEN plan.tierNames[t] ELSE None
Degraded(outcome) == IF outcome \in {"low_confidence"} \cup Failures THEN outcome ELSE None

ReportFor(plan, served) ==
  LET at == IF served = None THEN 0
            ELSE Position(plan.legs, LAMBDA p : /\ p.leg.provider = served.provider
                                                /\ p.leg.model = served.model)
      tier    == IF at = 0 THEN None ELSE NameOf(plan, plan.legs[at].tier)
      decided == NameOf(plan, plan.decided)
  IN [tier |-> tier,
      tierDecided |-> IF tier = None \/ tier = decided THEN None ELSE decided,
      effort |-> IF plan.clientEffort THEN "client"
                 ELSE IF at = 0 THEN None ELSE plan.legs[at].leg.effort,
      degraded |-> Degraded(plan.outcome)]
=============================================================================
