------------------------------ MODULE RouteTiers ------------------------------
(* Difficulty tiers and the order in which their legs are tried: what the    *)
(* chat routes (routing/jev_router.rs, routing/effort.rs) and the harness    *)
(* routes have in common. Tiers go from easiest to hardest and are numbered  *)
(* from 1.                                                                   *)
(*   tier  [name, effort, legs]                                              *)
(*   leg   [provider, model, effort], effort None unless a plan stamped it   *)
EXTENDS Naturals, Sequences, SequencesExt

CONSTANT None   \* the code's Option::None

\* A sequence of whatever it holds.
IsList(s) == s \in Seq(Range(s))

FlatMap(s, Op(_)) == FlattenSeq([i \in DOMAIN s |-> Op(s[i])])

\* The elements of s at the given places, in order, and those that satisfy Is.
ElementsAt(s, places) == FlattenSeq([i \in DOMAIN s |-> IF i \in places THEN <<s[i]>> ELSE <<>>])
Filter(s, Is(_)) == ElementsAt(s, {i \in DOMAIN s : Is(s[i])})

\* The first of some places, and of those whose element satisfies Is, or 0.
FirstOf(places) ==
  IF places = {} THEN 0 ELSE CHOOSE i \in places : \A j \in places : i <= j
Position(s, Is(_)) == FirstOf({i \in DOMAIN s : Is(s[i])})

\* Reasoning efforts in order: none, minimal, low, medium, high, xhigh, max.
Efforts == 0..6
Bump(e) == IF e = 6 THEN 6 ELSE e + 1
\* "none" sends no thinking budget, like no effort at all.
SendsBudget(e) == e # None /\ e # 0

\* From start to the hardest tier, then back from below start to the easiest.
EscalationOrder(n, start) ==
  [i \in 1..(n - start + 1) |-> start + i - 1] \o [i \in 1..(start - 1) |-> start - i]

\* How planned legs get their effort: the tier's, bumped or not, or the client's.
TierEffort(bump) == [client |-> FALSE, bump |-> bump]
ClientEffort == [client |-> TRUE, bump |-> FALSE]

Stamped(effort, policy) ==
  IF policy.client THEN None ELSE IF policy.bump THEN Bump(effort) ELSE effort

\* Every leg of every tier in escalation order, with the tier it came from.
OrderLegs(tiers, start, policy) ==
  FlatMap(EscalationOrder(Len(tiers), start),
          LAMBDA t : [k \in DOMAIN tiers[t].legs |->
                       [leg |-> [tiers[t].legs[k] EXCEPT !.effort = Stamped(tiers[t].effort, policy)],
                        tier |-> t]])

\* Native-Vertex features run on Vertex legs only; emptied tiers keep their place.
EligibleTiers(tiers, vertexOnly) ==
  [t \in DOMAIN tiers |->
    [tiers[t] EXCEPT !.legs = Filter(@, LAMBDA l : vertexOnly => l.provider = "vertex")]]

\* The wanted tier, else the nearest harder one that has legs, else the nearest
\* easier one; 0 when no tier has any.
\* Fault: it looks down before it looks up.
NearestServing_Easier(tiers, wanted) ==
  LET serving == {t \in DOMAIN tiers : tiers[t].legs # <<>>}
      easier  == {t \in serving : t <= wanted}
  IN IF serving = {} THEN 0
     ELSE IF easier # {} THEN CHOOSE t \in easier : \A u \in easier : u <= t
     ELSE CHOOSE t \in serving : \A u \in serving : t <= u
NearestServing(tiers, wanted) ==
  LET serving == {t \in DOMAIN tiers : tiers[t].legs # <<>>}
      harder  == {t \in serving : t >= wanted}
  IN IF serving = {} THEN 0
     ELSE IF harder # {} THEN CHOOSE t \in harder : \A u \in harder : t <= u
     ELSE CHOOSE t \in serving : \A u \in serving : u <= t
=============================================================================
