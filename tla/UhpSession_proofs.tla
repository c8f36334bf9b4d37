-------------------------- MODULE UhpSession_proofs --------------------------
(* Proofs about UhpSession for any number of turns, any tables, harnesses    *)
(* and requests.                                                             *)
EXTENDS UhpSession, RouteTiers_proofs, FiniteSetTheorems, TLAPS

\* Every turn is a record with a place and a session.
Shape == /\ DOMAIN turn = Turns
         /\ \A t \in Turns : {"pc", "session"} \subseteq DOMAIN turn[t]

\* What a step of a turn may do to the marks: nothing while it neither takes
\* nor gives up its session's mark, or take it when it is free, or free it.
MarkStep(now, next) ==
  \/ now.pc \notin Holding /\ next.pc \notin Holding /\ busy' = busy
  \/ /\ next.session = now.session
     /\ \/ now.pc \in Holding /\ next.pc \in Holding /\ busy' = busy
        \/ /\ now.pc \notin Holding /\ next.pc \in Holding
           /\ now.session \notin busy /\ busy' = busy \cup {now.session}
        \/ now.pc \in Holding /\ next.pc \notin Holding /\ busy' = busy \ {now.session}

\* A step of one turn that handles the marks in one of these ways keeps them.
LEMMA MarkStepKeeps ==
  ASSUME Shape, OneTurnPerSession, NEW t \in Turns, NEW next,
         turn' = [turn EXCEPT ![t] = next], {"pc", "session"} \subseteq DOMAIN next,
         MarkStep(turn[t], next)
  PROVE  Shape' /\ OneTurnPerSession'
  <1>1. turn'[t] = next /\ \A u \in Turns \ {t} : turn'[u] = turn[u]
    BY DEF Shape
  <1>2. Shape'
    BY <1>1 DEF Shape
  <1>3. CASE turn[t].pc \notin Holding /\ next.pc \notin Holding /\ busy' = busy
    <2>1. Holders' = Holders
      BY <1>1, <1>3 DEF Holders
    <2>2. \A u \in Holders : turn'[u] = turn[u]
      BY <1>1, <1>3 DEF Holders
    <2> QED BY <1>2, <1>3, <2>1, <2>2 DEF OneTurnPerSession
  <1>4. CASE /\ next.session = turn[t].session
             /\ turn[t].pc \in Holding /\ next.pc \in Holding /\ busy' = busy
    <2>1. Holders' = Holders
      BY <1>1, <1>4 DEF Holders
    <2>2. \A u \in Holders : turn'[u].session = turn[u].session
      BY <1>1, <1>4 DEF Holders
    <2> QED BY <1>2, <1>4, <2>1, <2>2 DEF OneTurnPerSession
  <1>5. CASE /\ next.session = turn[t].session
             /\ turn[t].pc \notin Holding /\ next.pc \in Holding
             /\ turn[t].session \notin busy /\ busy' = busy \cup {turn[t].session}
    <2>1. Holders' = Holders \cup {t} /\ t \notin Holders
      BY <1>1, <1>5 DEF Holders
    <2>2. /\ turn'[t].session = turn[t].session
          /\ \A u \in Holders : turn'[u].session = turn[u].session
      BY <1>1, <1>5 DEF Holders
    <2> QED BY <1>2, <1>5, <2>1, <2>2 DEF OneTurnPerSession
  <1>6. CASE /\ next.session = turn[t].session
             /\ turn[t].pc \in Holding /\ next.pc \notin Holding
             /\ busy' = busy \ {turn[t].session}
    <2>1. Holders' = Holders \ {t} /\ t \in Holders
      BY <1>1, <1>6 DEF Holders
    <2>2. \A u \in Holders' : turn'[u].session = turn[u].session
      BY <1>1, <2>1 DEF Holders
    <2> QED BY <1>2, <1>6, <2>1, <2>2 DEF OneTurnPerSession
  <1> QED BY <1>3, <1>4, <1>5, <1>6 DEF MarkStep

\* An update of turn t is the update of t's record, and other fields keep.
LEMMA LeavesMarks ==
  ASSUME Shape, NEW t \in Turns, NEW result, Leaves(t, result)
  PROVE  \E next : /\ turn' = [turn EXCEPT ![t] = next]
                   /\ {"pc", "session"} \subseteq DOMAIN next
                   /\ next.session = turn[t].session /\ next.pc \in Holding
  <1> DEFINE next == [turn[t] EXCEPT !.pc = "leaving", !.result = result]
  <1>1. turn' = [turn EXCEPT ![t] = next]
    BY DEF Leaves, Shape
  <1>2. {"pc", "session"} \subseteq DOMAIN next /\ next.session = turn[t].session /\ next.pc = "leaving"
    BY DEF Shape
  <1> HIDE DEF next
  <1> QED BY <1>1, <1>2 DEF Holding

LEMMA RunMarks ==
  ASSUME Shape, NEW t \in Turns, NEW plan, NEW rows, NEW unavailable, Run(t, plan, rows, unavailable)
  PROVE  \E next : /\ turn' = [turn EXCEPT ![t] = next]
                   /\ {"pc", "session"} \subseteq DOMAIN next
                   /\ next.session = turn[t].session /\ next.pc \in Holding
  <1> DEFINE next == IF plan # <<>> /\ runner
                     THEN [turn[t] EXCEPT !.pc = "running", !.plan = plan, !.at = 1, !.rows = rows]
                     ELSE [turn[t] EXCEPT !.pc = "leaving", !.rows = rows,
                             !.result = IF plan = <<>> THEN unavailable ELSE "harness_unavailable"]
  <1>1. turn' = [turn EXCEPT ![t] = next]
    BY DEF Run, Shape
  <1>2. /\ {"pc", "session"} \subseteq DOMAIN next /\ next.session = turn[t].session
        /\ next.pc \in {"running", "leaving"}
    BY DEF Shape
  <1> HIDE DEF next
  <1> QED BY <1>1, <1>2 DEF Holding

\* A finished turn's record.
LEMMA EndedIsIdle ==
  ASSUME NEW record, NEW result
  PROVE  /\ {"pc", "session"} \subseteq DOMAIN Ended(record, result)
         /\ Ended(record, result).pc = "ended"
         /\ Ended(record, result).session = record.session
  BY DEF Ended, NoTurn

\* The marks: two turns of one session never run at once, and a session is
\* marked busy exactly while a turn of it runs (try_acquire_session and the
\* guard's drop), for any number of turns, sessions, tables and requests.
THEOREM TurnsExclude == Spec => []OneTurnPerSession
  <1> DEFINE IInv == Shape /\ OneTurnPerSession
  <1>1. Init => IInv
    BY DEF Init, Shape, OneTurnPerSession, Holders, Holding, NoTurn
  <1>2. IInv /\ [Next]_vars => IInv'
    <2> SUFFICES ASSUME Shape, OneTurnPerSession, [Next]_vars PROVE Shape' /\ OneTurnPerSession'
      OBVIOUS
    <2>1. ASSUME NEW t \in Turns, NEW ask \in Asks, NEW previous \in 0..MaxTurns,
                 Arrive(t, ask, previous)
          PROVE  Shape' /\ OneTurnPerSession'
      <3>1. PICK next : /\ turn' = [turn EXCEPT ![t] = next]
                        /\ {"pc", "session"} \subseteq DOMAIN next /\ next.pc \in {"ended", "acquire"}
        <4> DEFINE prior == IF previous \in DOMAIN responses THEN responses[previous] ELSE None
                   new == [NoTurn EXCEPT !.ask = ask, !.previous = previous, !.prior = prior,
                             !.harness = IF ask.harness # None THEN ask.harness
                                         ELSE IF prior # None THEN prior.harness ELSE FirstHarness,
                             !.session = IF prior # None THEN prior.session ELSE t]
        <4>1. \/ \E result : Refused(t, new, result)
              \/ turn' = [turn EXCEPT ![t] = [new EXCEPT !.pc = "acquire"]]
          BY <2>1 DEF Arrive
        <4>2. CASE \E result : Refused(t, new, result)
          <5>1. PICK result : turn' = [turn EXCEPT ![t] = Ended(new, result)]
            BY <4>2 DEF Refused
          <5>2. {"pc", "session"} \subseteq DOMAIN Ended(new, result) /\ Ended(new, result).pc = "ended"
            BY EndedIsIdle
          <5> HIDE DEF new
          <5> QED BY <5>1, <5>2
        <4>3. CASE turn' = [turn EXCEPT ![t] = [new EXCEPT !.pc = "acquire"]]
          <5>1. /\ {"pc", "session"} \subseteq DOMAIN [new EXCEPT !.pc = "acquire"]
                /\ [new EXCEPT !.pc = "acquire"].pc = "acquire"
            BY DEF NoTurn
          <5> HIDE DEF new
          <5> QED BY <4>3, <5>1
        <4> QED BY <4>1, <4>2, <4>3
      <3>2. MarkStep(turn[t], next)
        BY <2>1, <3>1 DEF Arrive, MarkStep, Holding
      <3> QED BY <3>1, <3>2, MarkStepKeeps
    <2>2. ASSUME NEW t \in Turns, Acquire(t) PROVE Shape' /\ OneTurnPerSession'
      <3> DEFINE next == [turn[t] EXCEPT !.pc = "plan"]
      <3>1. turn' = [turn EXCEPT ![t] = next]
        BY <2>2 DEF Acquire, Shape
      <3>2. {"pc", "session"} \subseteq DOMAIN next /\ next.pc = "plan" /\ next.session = turn[t].session
        BY DEF Shape
      <3> HIDE DEF next
      <3>3. MarkStep(turn[t], next)
        BY <2>2, <3>2 DEF Acquire, MarkStep, Holding
      <3> QED BY <3>1, <3>2, <3>3, MarkStepKeeps
    <2>3. ASSUME NEW t \in Turns, RefuseBusy(t) PROVE Shape' /\ OneTurnPerSession'
      <3> DEFINE next == Ended(turn[t], "session_busy")
      <3>1. turn' = [turn EXCEPT ![t] = next]
        BY <2>3 DEF RefuseBusy, Refused
      <3>2. MarkStep(turn[t], next)
        BY <2>3, EndedIsIdle DEF RefuseBusy, MarkStep, Holding
      <3> HIDE DEF next
      <3>3. {"pc", "session"} \subseteq DOMAIN next
        BY EndedIsIdle DEF next
      <3> QED BY <3>1, <3>2, <3>3, MarkStepKeeps
    <2>4. ASSUME NEW t \in Turns, turn[t].pc \in Holding, busy' = busy,
                 NEW next, turn' = [turn EXCEPT ![t] = next],
                 {"pc", "session"} \subseteq DOMAIN next,
                 next.session = turn[t].session, next.pc \in Holding
          PROVE  Shape' /\ OneTurnPerSession'
      <3>1. MarkStep(turn[t], next)
        BY <2>4 DEF MarkStep
      <3> QED BY <2>4, <3>1, MarkStepKeeps
    <2>5. ASSUME NEW t \in Turns, PlanStatic(t) PROVE Shape' /\ OneTurnPerSession'
      <3>1. turn[t].pc \in Holding /\ busy' = busy
        BY <2>5 DEF PlanStatic, Holding
      <3>2. \/ \E result : Leaves(t, result)
            \/ \E plan, rows, unavailable : Run(t, plan, rows, unavailable)
        BY <2>5 DEF PlanStatic
      <3> QED BY <2>4, <3>1, <3>2, LeavesMarks, RunMarks
    <2>6. ASSUME NEW t \in Turns, PlanGrid(t) PROVE Shape' /\ OneTurnPerSession'
      <3>1. turn[t].pc \in Holding /\ busy' = busy
        BY <2>6 DEF PlanGrid, Holding
      <3>2. \/ \E result : Leaves(t, result)
            \/ \E plan, rows, unavailable : Run(t, plan, rows, unavailable)
            \/ \E asked : turn' = [turn EXCEPT ![t].pc = "deciding", ![t].askProfile = asked]
        BY <2>6 DEF PlanGrid, PlanJev
      <3>3. ASSUME NEW asked, turn' = [turn EXCEPT ![t].pc = "deciding", ![t].askProfile = asked]
            PROVE  Shape' /\ OneTurnPerSession'
        <4> DEFINE next == [turn[t] EXCEPT !.pc = "deciding", !.askProfile = asked]
        <4>1. turn' = [turn EXCEPT ![t] = next]
          BY <3>3 DEF Shape
        <4>2. {"pc", "session"} \subseteq DOMAIN next /\ next.session = turn[t].session /\ next.pc = "deciding"
          BY DEF Shape
        <4> HIDE DEF next
        <4> QED BY <2>4, <3>1, <4>1, <4>2 DEF Holding
      <3> QED BY <2>4, <3>1, <3>2, <3>3, LeavesMarks, RunMarks
    <2>7. ASSUME NEW t \in Turns, NEW answer, Decide(t, answer) PROVE Shape' /\ OneTurnPerSession'
      <3>1. turn[t].pc \in Holding /\ busy' = busy
        BY <2>7 DEF Decide, Holding
      <3>2. \E plan, rows, unavailable : Run(t, plan, rows, unavailable)
        BY <2>7 DEF Decide, PlanJev
      <3> QED BY <2>4, <3>1, <3>2, RunMarks
    <2>8. ASSUME NEW t \in Turns, LegFails(t) PROVE Shape' /\ OneTurnPerSession'
      <3>1. turn[t].pc \in Holding /\ busy' = busy
        BY <2>8 DEF LegFails, Holding
      <3>2. \/ turn' = [turn EXCEPT ![t].at = @ + 1]
            \/ Leaves(t, "all_legs_failed")
        BY <2>8 DEF LegFails
      <3>3. CASE turn' = [turn EXCEPT ![t].at = @ + 1]
        <4> DEFINE next == [turn[t] EXCEPT !.at = @ + 1]
        <4>1. turn' = [turn EXCEPT ![t] = next]
          BY <3>3 DEF Shape
        <4>2. {"pc", "session"} \subseteq DOMAIN next /\ next.session = turn[t].session /\ next.pc = turn[t].pc
          BY DEF Shape
        <4> HIDE DEF next
        <4> QED BY <2>4, <3>1, <4>1, <4>2
      <3> QED BY <2>4, <3>1, <3>2, <3>3, LeavesMarks
    <2>9. ASSUME NEW t \in Turns, LegServes(t) PROVE Shape' /\ OneTurnPerSession'
      <3>1. turn[t].pc \in Holding /\ busy' = busy
        BY <2>9 DEF LegServes, Holding
      <3> DEFINE next == [turn[t] EXCEPT !.pc = "leaving", !.result = "served",
                            !.rows = Append(@, "harness_turn"),
                            !.report = ReportFor(turn[t].plan, Cell(t))]
      <3>2. turn' = [turn EXCEPT ![t] = next]
        BY <2>9 DEF LegServes, Shape
      <3>3. {"pc", "session"} \subseteq DOMAIN next /\ next.session = turn[t].session /\ next.pc = "leaving"
        BY DEF Shape
      <3> HIDE DEF next
      <3> QED BY <2>4, <3>1, <3>2, <3>3 DEF Holding
    <2>10. ASSUME NEW t \in Turns, Release(t) \/ Abandon(t) PROVE Shape' /\ OneTurnPerSession'
      <3>1. turn[t].pc \in Holding /\ busy' = busy \ {turn[t].session}
        BY <2>10 DEF Release, Abandon, Freed, Holding
      <3>2. PICK result : turn' = [turn EXCEPT ![t] = Ended(turn[t], result)]
        BY <2>10 DEF Release, Abandon, Shape
      <3> DEFINE next == Ended(turn[t], result)
      <3>3. MarkStep(turn[t], next)
        BY <3>1, EndedIsIdle DEF MarkStep, Holding
      <3>4. {"pc", "session"} \subseteq DOMAIN next
        BY EndedIsIdle
      <3> HIDE DEF next
      <3> QED BY <3>2, <3>3, <3>4, MarkStepKeeps DEF next
    <2>11. CASE UNCHANGED vars
      BY <2>11 DEF vars, Shape, OneTurnPerSession, Holders
    <2> QED BY <2>1, <2>2, <2>3, <2>5, <2>6, <2>7, <2>8, <2>9, <2>10, <2>11 DEF Next
  <1>3. IInv => OneTurnPerSession
    OBVIOUS
  <1> QED BY <1>1, <1>2, <1>3, PTL DEF Spec

------------------------------------------------------------------------------
(* What a table, its routes and its grids are made of. *)

IsProfile(p) == p = [name |-> p.name, bases |-> p.bases] /\ IsList(p.bases)
IsTier(t)    == t = [name |-> t.name, bases |-> t.bases, legs |-> t.legs] /\ IsList(t.legs)

\* A decided route as the table holds it. Profiles come from a map by name.
IsRoute(route) ==
  /\ IsList(route.profiles) /\ \A i \in DOMAIN route.profiles : IsProfile(route.profiles[i])
  /\ \A i, j \in DOMAIN route.profiles : route.profiles[i].name = route.profiles[j].name => i = j
  /\ IsList(route.tiers) /\ \A i \in DOMAIN route.tiers : IsTier(route.tiers[i])

IsGrid(grid) ==
  /\ IsList(grid.profiles) /\ \A i \in DOMAIN grid.profiles : IsList(grid.profiles[i].bases)
  /\ IsList(grid.tiers) /\ \A i \in DOMAIN grid.tiers : IsList(grid.tiers[i].legs)

\* The bases a request may run on, and what it wants of a leg on one of them.
Able(catalog, reqs) ==
  {b \in DOMAIN catalog : reqs.base \in {None, b} /\ reqs.needs \subseteq catalog[b].able}
Compatible(catalog, reqs, b, l) ==
  /\ reqs.native => l.provider = "vertex"
  /\ reqs.vision => l.model \notin TextOnlyModels
  /\ reqs.model \in {None, l.model}
  /\ Speaks(catalog[b], l)
Useful(route, catalog, reqs) ==
  {b \in Able(catalog, reqs) : \E t \in Range(route.tiers) :
     Allows(t, b) /\ \E l \in Range(t.legs) : Compatible(catalog, reqs, b, l)}

\* What eligible_grid leaves: of every profile the bases that have a cell, of
\* every tier the legs that some base left can take.
LEMMA GridIs ==
  ASSUME NEW route, IsRoute(route), NEW catalog, NEW reqs,
         EligibleGrid(route, catalog, reqs) # None
  PROVE  LET grid == EligibleGrid(route, catalog, reqs)
             candidates == IF route.profiles = <<>> THEN Able(catalog, reqs)
                           ELSE UNION {Range(p.bases) : p \in Range(grid.profiles)}
         IN
         /\ IsGrid(grid) /\ DOMAIN grid.profiles = DOMAIN route.profiles
         /\ DOMAIN grid.tiers = DOMAIN route.tiers
         /\ DOMAIN grid.bases = Able(catalog, reqs) /\ \A b \in DOMAIN grid.bases : grid.bases[b] = catalog[b]
         /\ \A i \in DOMAIN route.profiles :
              Range(grid.profiles[i].bases) = Range(route.profiles[i].bases) \cap Useful(route, catalog, reqs)
         /\ \A i \in DOMAIN route.tiers :
              /\ grid.tiers[i].bases = route.tiers[i].bases
              /\ Range(grid.tiers[i].legs) = {l \in Range(route.tiers[i].legs) :
                   \E b \in candidates : Allows(route.tiers[i], b) /\ Compatible(catalog, reqs, b, l)}
  <1> DEFINE able == Able(catalog, reqs)
             C(b, l) == Compatible(catalog, reqs, b, l)
             HasCell(b) == \E t \in Range(route.tiers) : Allows(t, b) /\ \E l \in Range(t.legs) : C(b, l)
             kept == Useful(route, catalog, reqs)
             profiles == [i \in DOMAIN route.profiles |->
                           [route.profiles[i] EXCEPT !.bases = Filter(@, LAMBDA b : b \in able /\ HasCell(b))]]
             candidates == IF route.profiles = <<>> THEN able
                           ELSE UNION {Range(p.bases) : p \in Range(profiles)}
             tiers == [i \in DOMAIN route.tiers |->
                        [route.tiers[i] EXCEPT !.legs =
                           Filter(@, LAMBDA l : \E b \in candidates : Allows(route.tiers[i], b) /\ C(b, l))]]
             grid == [bases |-> [b \in able |-> catalog[b]], profiles |-> profiles, tiers |-> tiers]
  <1>1. EligibleGrid(route, catalog, reqs) = grid
    BY DEF EligibleGrid, Able, Compatible
  <1>2. ASSUME NEW i \in DOMAIN route.profiles
        PROVE  /\ IsList(profiles[i].bases)
               /\ Range(profiles[i].bases) = Range(route.profiles[i].bases) \cap kept
    <2> DEFINE s == route.profiles[i].bases
               places == {k \in DOMAIN s : s[k] \in able /\ HasCell(s[k])}
    <2>1. profiles[i].bases = ElementsAt(s, places)
      BY DEF Filter, IsRoute, IsProfile
    <2>2. IsList(s) /\ places \subseteq DOMAIN s
      BY DEF IsRoute, IsProfile
    <2>3. {s[k] : k \in places} = Range(s) \cap kept
      <3>1. \A b : b \in able /\ HasCell(b) <=> b \in kept
        BY DEF Useful
      <3> HIDE DEF able, HasCell, kept
      <3> QED BY <3>1 DEF Range
    <2> HIDE DEF s, places, profiles, kept
    <2> QED BY <2>1, <2>2, <2>3, ElementsAtReads, ElementsAtRange DEF s
  <1>3. ASSUME NEW i \in DOMAIN route.tiers
        PROVE  /\ IsList(tiers[i].legs) /\ tiers[i].bases = route.tiers[i].bases
               /\ Range(tiers[i].legs) = {l \in Range(route.tiers[i].legs) :
                    \E b \in candidates : Allows(route.tiers[i], b) /\ C(b, l)}
    <2> DEFINE s == route.tiers[i].legs
               places == {k \in DOMAIN s : \E b \in candidates : Allows(route.tiers[i], b) /\ C(b, s[k])}
    <2> HIDE DEF candidates, C
    <2>1. tiers[i].legs = ElementsAt(s, places) /\ tiers[i].bases = route.tiers[i].bases
      BY DEF Filter, IsRoute, IsTier
    <2>2. IsList(s) /\ places \subseteq DOMAIN s
      BY DEF IsRoute, IsTier
    <2>3. {s[k] : k \in places} = {l \in Range(s) : \E b \in candidates : Allows(route.tiers[i], b) /\ C(b, l)}
      BY DEF Range
    <2> HIDE DEF s, places, tiers
    <2>4. IsList(ElementsAt(s, places)) /\ Range(ElementsAt(s, places)) = {s[k] : k \in places}
      BY <2>2, ElementsAtReads, ElementsAtRange
    <2> QED BY <2>1, <2>3, <2>4 DEF s
  <1>4. IsList(profiles) /\ DOMAIN profiles = DOMAIN route.profiles
    <2>1. Len(route.profiles) \in Nat /\ DOMAIN route.profiles = 1..Len(route.profiles)
      BY ListShape DEF IsRoute
    <2>2. profiles = [i \in 1..Len(route.profiles) |-> profiles[i]] /\ DOMAIN profiles = DOMAIN route.profiles
      BY <2>1
    <2> HIDE DEF profiles
    <2> QED BY <2>1, <2>2, ListOf
  <1>5. IsList(tiers) /\ DOMAIN tiers = DOMAIN route.tiers
    <2>1. Len(route.tiers) \in Nat /\ DOMAIN route.tiers = 1..Len(route.tiers)
      BY ListShape DEF IsRoute
    <2>2. tiers = [i \in 1..Len(route.tiers) |-> tiers[i]] /\ DOMAIN tiers = DOMAIN route.tiers
      BY <2>1
    <2> HIDE DEF tiers
    <2> QED BY <2>1, <2>2, ListOf
  <1>6. /\ grid.profiles = profiles /\ grid.tiers = tiers /\ DOMAIN grid.bases = able
        /\ \A b \in able : grid.bases[b] = catalog[b]
    OBVIOUS
  <1> HIDE DEF able, profiles, tiers, kept, grid, C, HasCell
  <1>7. IsGrid(grid)
    BY <1>2, <1>3, <1>4, <1>5, <1>6 DEF IsGrid
  <1>8. \A i \in DOMAIN route.profiles : Range(grid.profiles[i].bases) = Range(route.profiles[i].bases) \cap kept
    BY <1>2, <1>6
  <1>9. \A i \in DOMAIN route.tiers :
          /\ grid.tiers[i].bases = route.tiers[i].bases
          /\ Range(grid.tiers[i].legs) = {l \in Range(route.tiers[i].legs) :
               \E b \in candidates : Allows(route.tiers[i], b) /\ C(b, l)}
    BY <1>3, <1>6
  <1>10. candidates = IF route.profiles = <<>> THEN able ELSE UNION {Range(p.bases) : p \in Range(grid.profiles)}
    BY <1>6
  <1> HIDE DEF candidates
  <1> QED BY <1>1, <1>4, <1>5, <1>6, <1>7, <1>8, <1>9, <1>10 DEF able, kept, C

CellOf(p, b, t, l) == [profile |-> p, base |-> b, tier |-> t, leg |-> l]

\* Whether base b can take leg l of tier t.
Takes(catalog, tiers, b, t, l) ==
  /\ b \in DOMAIN catalog /\ t \in DOMAIN tiers
  /\ l \in Range(tiers[t].legs) /\ Allows(tiers[t], b) /\ Speaks(catalog[b], l)

AreTiers(tiers) == IsList(tiers) /\ \A i \in DOMAIN tiers : IsList(tiers[i].legs)

\* What the cells of a visit are: what the base can take, tier by tier from start on.
CellsAre(cells, catalog, tiers, start, p, b) ==
  /\ IsList(cells)
  /\ \A k \in DOMAIN cells : \E t, l : Takes(catalog, tiers, b, t, l) /\ cells[k] = CellOf(p, b, t, l)
  /\ \A t, l : Takes(catalog, tiers, b, t, l) => \E k \in DOMAIN cells : cells[k] = CellOf(p, b, t, l)
  /\ \A k, m \in DOMAIN cells : k < m =>
       RankFrom(Len(tiers), start, cells[k].tier) <= RankFrom(Len(tiers), start, cells[m].tier)

\* A visit of any base makes those cells.
LEMMA CellsOfVisitAre ==
  ASSUME NEW catalog, NEW tiers, AreTiers(tiers),
         NEW start \in Nat, start >= 1, start <= Len(tiers) + 1, NEW p, NEW b
  PROVE  CellsAre(CellsOfVisit(catalog, tiers, start, <<p, b>>), catalog, tiers, start, p, b)
  <1> DEFINE e == EscalationOrder(Len(tiers), start)
             n == Len(tiers)
             cells == CellsOfVisit(catalog, tiers, start, <<p, b>>)
             Legs(t) == ElementsAt(tiers[t].legs, {k \in DOMAIN tiers[t].legs : Speaks(catalog[b], tiers[t].legs[k])})
             OfTier(t) == IF ~ Allows(tiers[t], b) THEN <<>>
                          ELSE [k \in DOMAIN Legs(t) |-> CellOf(p, b, t, Legs(t)[k])]
             ss == [i \in DOMAIN e |-> OfTier(e[i])]
  <1>0. n \in Nat /\ DOMAIN tiers = 1..n
    BY ListShape DEF AreTiers
  <1>1. /\ IsList(e) /\ DOMAIN e = 1..n
        /\ \A i \in 1..n : e[i] \in 1..n /\ RankFrom(n, start, e[i]) = i - 1
        /\ \A t \in 1..n : \E i \in 1..n : e[i] = t
    BY <1>0, EscalationIs
  <1>2. CASE b \notin DOMAIN catalog
    <2>1. cells = <<>>
      BY <1>2 DEF CellsOfVisit
    <2> QED BY <1>2, <2>1, NoElement DEF Takes, CellsAre
  <1>3. CASE b \in DOMAIN catalog
    <2>1. cells = FlattenSeq(ss)
      <3> HIDE DEF e
      <3> QED BY <1>3 DEF CellsOfVisit, FlatMap, Filter, CellOf, e
    <2>2. ASSUME NEW t \in 1..n
          PROVE  /\ IsList(OfTier(t))
                 /\ \A j \in DOMAIN OfTier(t) : \E l : Takes(catalog, tiers, b, t, l) /\ OfTier(t)[j] = CellOf(p, b, t, l)
                 /\ \A l : Takes(catalog, tiers, b, t, l) => \E j \in DOMAIN OfTier(t) : OfTier(t)[j] = CellOf(p, b, t, l)
      <3>1. CASE ~ Allows(tiers[t], b)
        <4>1. OfTier(t) = <<>>
          BY <3>1
        <4> QED BY <3>1, <4>1, NoElement DEF Takes
      <3>2. CASE Allows(tiers[t], b)
        <4> DEFINE s == tiers[t].legs
                   places == {k \in DOMAIN s : Speaks(catalog[b], s[k])}
        <4>1. IsList(s) /\ places \subseteq DOMAIN s
          BY <1>0 DEF AreTiers
        <4>2. Legs(t) = ElementsAt(s, places)
          OBVIOUS
        <4>3. OfTier(t) = [k \in DOMAIN Legs(t) |-> CellOf(p, b, t, Legs(t)[k])]
          BY <3>2
        <4>4. {s[k] : k \in places} = {l \in Range(s) : Speaks(catalog[b], l)}
          BY DEF Range
        <4> HIDE DEF places, Legs, OfTier
        <4>5. IsList(Legs(t)) /\ Range(Legs(t)) = {l \in Range(s) : Speaks(catalog[b], l)}
          BY <4>1, <4>2, <4>4, ElementsAtReads, ElementsAtRange
        <4>6. \A l : Takes(catalog, tiers, b, t, l) <=> l \in Range(Legs(t))
          BY <1>0, <1>3, <3>2, <4>5 DEF Takes
        <4>7. IsList(OfTier(t)) /\ DOMAIN OfTier(t) = DOMAIN Legs(t)
              /\ \A k \in DOMAIN Legs(t) : OfTier(t)[k] = CellOf(p, b, t, Legs(t)[k])
          <5>1. DOMAIN Legs(t) = 1..Len(Legs(t)) /\ Len(Legs(t)) \in Nat
            BY <4>5, ListShape
          <5>2. OfTier(t) = [k \in 1..Len(Legs(t)) |-> OfTier(t)[k]]
            BY <4>3, <5>1
          <5> QED BY <4>3, <5>1, <5>2, ListOf
        <4>8. ASSUME NEW j \in DOMAIN OfTier(t)
              PROVE  \E l : Takes(catalog, tiers, b, t, l) /\ OfTier(t)[j] = CellOf(p, b, t, l)
          <5>1. Legs(t)[j] \in Range(Legs(t)) /\ OfTier(t)[j] = CellOf(p, b, t, Legs(t)[j])
            BY <4>7 DEF Range
          <5> QED BY <4>6, <5>1
        <4>9. ASSUME NEW l, Takes(catalog, tiers, b, t, l)
              PROVE  \E j \in DOMAIN OfTier(t) : OfTier(t)[j] = CellOf(p, b, t, l)
          <5>1. PICK j \in DOMAIN Legs(t) : Legs(t)[j] = l
            BY <4>6, <4>9 DEF Range
          <5> QED BY <4>7, <5>1
        <4> QED BY <4>7, <4>8, <4>9
      <3> QED BY <3>1, <3>2
    <2> HIDE DEF OfTier
    <2>3. IsList(ss) /\ DOMAIN ss = 1..n /\ \A i \in 1..n : ss[i] = OfTier(e[i]) /\ IsList(ss[i])
      <3>1. ss = [i \in 1..n |-> ss[i]] /\ \A i \in 1..n : ss[i] = OfTier(e[i])
        BY <1>1
      <3> HIDE DEF ss, e
      <3>2. IsList(ss) /\ DOMAIN ss = 1..n
        BY <1>0, <3>1, ListOf
      <3>3. ASSUME NEW i \in 1..n PROVE ss[i] = OfTier(e[i]) /\ IsList(ss[i])
        BY <1>1, <2>2, <3>1
      <3> QED BY <3>2, <3>3
    <2> HIDE DEF ss, cells, e
    <2>4. IsList(cells)
      BY <2>1, <2>3, FlattenReads
    <2>5. PICK row, col : Reads(row, col, cells, ss)
      BY <2>1, <2>3, FlattenReads
    <2>6. ASSUME NEW k \in DOMAIN cells
          PROVE  /\ row[k] \in 1..n
                 /\ \E l : Takes(catalog, tiers, b, e[row[k]], l) /\ cells[k] = CellOf(p, b, e[row[k]], l)
      <3>1. row[k] \in 1..n /\ col[k] \in DOMAIN ss[row[k]] /\ cells[k] = ss[row[k]][col[k]]
        BY <2>3, <2>5 DEF Reads
      <3>2. e[row[k]] \in 1..n /\ ss[row[k]] = OfTier(e[row[k]])
        BY <1>1, <2>3, <3>1
      <3> QED BY <2>2, <3>1, <3>2
    <2>7. ASSUME NEW t, NEW l, Takes(catalog, tiers, b, t, l)
          PROVE  \E k \in DOMAIN cells : cells[k] = CellOf(p, b, t, l)
      <3>1. t \in 1..n
        BY <1>0, <2>7 DEF Takes
      <3>2. PICK i \in 1..n : e[i] = t
        BY <1>1, <3>1
      <3>3. PICK j \in DOMAIN ss[i] : ss[i][j] = CellOf(p, b, t, l)
        BY <2>2, <2>3, <2>7, <3>1, <3>2
      <3>4. PICK k \in DOMAIN cells : row[k] = i /\ col[k] = j
        BY <2>3, <2>5 DEF Reads
      <3> QED BY <2>5, <3>3, <3>4 DEF Reads
    <2>8. ASSUME NEW k \in DOMAIN cells, NEW m \in DOMAIN cells, k < m
          PROVE  RankFrom(n, start, cells[k].tier) <= RankFrom(n, start, cells[m].tier)
      <3>1. cells[k].tier = e[row[k]] /\ cells[m].tier = e[row[m]]
        BY <2>6 DEF CellOf
      <3>2. row[k] \in 1..n /\ row[m] \in 1..n /\ row[k] <= row[m]
        BY <2>5, <2>6, <2>8 DEF Reads
      <3>3. RankFrom(n, start, e[row[k]]) = row[k] - 1 /\ RankFrom(n, start, e[row[m]]) = row[m] - 1
        BY <1>1, <3>2
      <3>4. row[k] - 1 <= row[m] - 1
        BY <1>0, <3>2
      <3> QED BY <3>1, <3>3, <3>4
    <2>9. CellsAre(cells, catalog, tiers, start, p, b)
      BY <2>4, <2>6, <2>7, <2>8 DEF CellsAre
    <2> QED BY <2>9 DEF cells
  <1> QED BY <1>2, <1>3

\* A default is one of the list, as far as the list has any element.
LEMMA DefaultIs ==
  ASSUME NEW s, IsList(s), s # <<>>, NEW places, places \subseteq DOMAIN s
  PROVE  AtLeastOne(FirstOf(places)) \in DOMAIN s
  <1>1. Len(s) \in Nat \ {0} /\ DOMAIN s = 1..Len(s)
    BY ListShape, EmptySeq DEF IsList
  <1>2. CASE places = {}
    BY <1>1, <1>2 DEF FirstOf, AtLeastOne
  <1>3. CASE places # {}
    <2>1. FirstOf(places) \in places
      BY <1>1, <1>3, FirstIs
    <2> QED BY <1>1, <2>1 DEF AtLeastOne
  <1> QED BY <1>2, <1>3

\* The default profile of a route with profiles is one of them.
LEMMA DefaultProfileIs ==
  ASSUME NEW route, IsList(route.profiles), route.profiles # <<>>
  PROVE  DefaultProfileIndex(route) \in DOMAIN route.profiles
  <1> DEFINE places == {i \in DOMAIN route.profiles : route.profiles[i].name = route.defaultProfile}
  <1>1. DefaultProfileIndex(route) = AtLeastOne(FirstOf(places))
    BY DEF DefaultProfileIndex, Position
  <1>2. places \subseteq DOMAIN route.profiles
    OBVIOUS
  <1> QED BY <1>1, <1>2, DefaultIs

\* The default tier of a route with tiers is one of them.
LEMMA DefaultTierIs ==
  ASSUME NEW route, IsList(route.tiers), route.tiers # <<>>
  PROVE  DefaultTierIndex(route) \in DOMAIN route.tiers
  <1> DEFINE places == {i \in DOMAIN route.tiers : route.tiers[i].name = route.defaultTier}
  <1>1. DefaultTierIndex(route) = AtLeastOne(FirstOf(places))
    BY DEF DefaultTierIndex, Position
  <1>2. places \subseteq DOMAIN route.tiers
    OBVIOUS
  <1> QED BY <1>1, <1>2, DefaultIs

\* The bases to visit, each with the profile it may be visited for.
VisitsOf(grid) ==
  IF grid.profiles = <<>> THEN {0} \X (DOMAIN grid.bases \cap Range(BaseOrder))
  ELSE UNION {{i} \X Range(grid.profiles[i].bases) : i \in DOMAIN grid.profiles}

\* Those of a chosen profile come before all others.
ChosenFirst(visits, bases, chosen) ==
  \A b \in bases : \A k \in DOMAIN visits :
    visits[k][1] # chosen => \E j \in 1..(k - 1) : visits[j] = <<chosen, b>>

\* Visits makes these visits, those of a chosen profile before all others.
LEMMA VisitsAre ==
  ASSUME NEW grid, IsGrid(grid), NEW route, NEW chosen,
         grid.profiles # <<>> => /\ chosen \in {0} \cup DOMAIN grid.profiles
                                 /\ DefaultProfileIndex(route) \in DOMAIN grid.profiles
  PROVE  LET visits == Visits(grid, route, chosen) IN
         /\ IsList(visits) /\ Range(visits) = VisitsOf(grid)
         /\ grid.profiles # <<>> /\ chosen # 0 =>
              ChosenFirst(visits, Range(grid.profiles[chosen].bases), chosen)
  <1> DEFINE visits == Visits(grid, route, chosen)
  <1>1. CASE grid.profiles = <<>>
    <2> DEFINE s == BasesInOrder(grid.bases)
               ss == [i \in DOMAIN s |-> <<<<0, s[i]>>>>]
               places == {k \in DOMAIN BaseOrder : BaseOrder[k] \in DOMAIN grid.bases}
    <2>1. visits = FlattenSeq(ss)
      <3> HIDE DEF s
      <3> QED BY <1>1 DEF Visits, FlatMap, s
    <2>2. s = ElementsAt(BaseOrder, places)
      BY DEF BasesInOrder, Filter
    <2>3. {BaseOrder[k] : k \in places} = DOMAIN grid.bases \cap Range(BaseOrder)
      BY DEF Range
    <2>4. places \subseteq DOMAIN BaseOrder
      OBVIOUS
    <2> HIDE DEF places, s
    <2>5. IsList(s) /\ Range(s) = DOMAIN grid.bases \cap Range(BaseOrder)
      BY <2>2, <2>3, <2>4, BaseOrderAssumption, ElementsAtReads, ElementsAtRange
    <2>6. DOMAIN s = 1..Len(s) /\ Len(s) \in Nat
      BY <2>5, ListShape
    <2>7. IsList(ss) /\ DOMAIN ss = DOMAIN s /\ \A i \in DOMAIN s : ss[i] = <<<<0, s[i]>>>>
      <3>1. ss = [i \in 1..Len(s) |-> ss[i]] /\ DOMAIN ss = DOMAIN s /\ \A i \in DOMAIN s : ss[i] = <<<<0, s[i]>>>>
        BY <2>6
      <3> HIDE DEF ss
      <3> QED BY <2>6, <3>1, ListOf
    <2> HIDE DEF ss, visits
    <2>8. ASSUME NEW i \in DOMAIN ss
          PROVE  IsList(ss[i]) /\ DOMAIN ss[i] = {1} /\ ss[i][1] = <<0, s[i]>>
      <3> DEFINE v == <<0, s[i]>>
      <3>1. ss[i] = <<v>>
        BY <2>7
      <3> HIDE DEF v
      <3>2. IsList(ss[i]) /\ DOMAIN ss[i] = {1} /\ ss[i][1] = v
        BY <3>1, Single
      <3> QED BY <3>2 DEF v
    <2>9. IsList(visits)
      BY <2>1, <2>7, <2>8, FlattenReads
    <2>10. /\ \A k \in DOMAIN visits : \E i \in DOMAIN s : visits[k] = <<0, s[i]>>
           /\ \A i \in DOMAIN s : \E k \in DOMAIN visits : visits[k] = <<0, s[i]>>
      BY <2>1, <2>7, <2>8, FlattenRange
    <2>11. Range(visits) = {0} \X Range(s)
      <3>1. ASSUME NEW v \in Range(visits) PROVE v \in {0} \X Range(s)
        <4>1. PICK k \in DOMAIN visits : v = visits[k]
          BY DEF Range
        <4>2. PICK i \in DOMAIN s : v = <<0, s[i]>>
          BY <2>10, <4>1
        <4>3. s[i] \in Range(s)
          BY DEF Range
        <4> QED BY <4>2, <4>3
      <3>2. ASSUME NEW b \in Range(s) PROVE <<0, b>> \in Range(visits)
        <4>1. PICK i \in DOMAIN s : b = s[i]
          BY DEF Range
        <4>2. PICK k \in DOMAIN visits : visits[k] = <<0, b>>
          BY <2>10, <4>1
        <4> QED BY <4>2 DEF Range
      <3> QED BY <3>1, <3>2
    <2> QED BY <1>1, <2>5, <2>9, <2>11 DEF VisitsOf, visits
  <1>2. CASE grid.profiles # <<>>
    <2> DEFINE default == DefaultProfileIndex(route)
               primary == IF chosen = 0 THEN default ELSE chosen
               indices == [i \in DOMAIN grid.profiles |-> i]
               places == {i \in DOMAIN indices : indices[i] \notin {primary, default}}
               rest    == ElementsAt(indices, places)
               second == IF default = primary THEN <<>> ELSE <<default>>
               order   == (<<primary>> \o second) \o rest
               Of(i)   == [k \in DOMAIN grid.profiles[i].bases |-> <<i, grid.profiles[i].bases[k]>>]
               ss == [i \in DOMAIN order |-> Of(order[i])]
    <2>1. visits = FlattenSeq(ss)
      <3> HIDE DEF default
      <3> QED BY <1>2 DEF Visits, FlatMap, Filter, default
    <2>2. /\ DOMAIN grid.profiles = 1..Len(grid.profiles) /\ Len(grid.profiles) \in Nat
          /\ default \in DOMAIN grid.profiles /\ primary \in DOMAIN grid.profiles
      BY <1>2, ListShape DEF IsGrid
    <2>3. IsList(indices) /\ DOMAIN indices = DOMAIN grid.profiles /\ \A i \in DOMAIN indices : indices[i] = i
      <3>1. indices = [i \in 1..Len(grid.profiles) |-> indices[i]] /\ DOMAIN indices = DOMAIN grid.profiles
            /\ \A i \in DOMAIN indices : indices[i] = i
        BY <2>2
      <3> HIDE DEF indices
      <3> QED BY <2>2, <3>1, ListOf
    <2>4. IsList(rest) /\ Range(rest) = DOMAIN grid.profiles \ {primary, default}
      <3>1. {indices[i] : i \in places} = DOMAIN grid.profiles \ {primary, default} /\ places \subseteq DOMAIN indices
        BY <2>3
      <3> HIDE DEF indices, places, primary, default
      <3> QED BY <2>3, <3>1, ElementsAtReads, ElementsAtRange
    <2> HIDE DEF rest, primary, default
    <2>5. IsList(<<primary>>) /\ IsList(second) /\ Range(second) \cup {primary} = {primary, default}
      BY Single, NoElement
    <2> HIDE DEF second
    <2> DEFINE head == <<primary>> \o second
    <2>6. IsList(head) /\ Len(head) = 1 + Len(second) /\ head[1] = primary /\ Range(head) = {primary, default}
      <3>1. Len(<<primary>>) = 1 /\ 1 \in 1..Len(<<primary>>)
        OBVIOUS
      <3> QED BY <2>5, <3>1, PutTogether, PutTogetherRange, Single
    <2> HIDE DEF head
    <2>7. IsList(order) /\ 1 \in DOMAIN order /\ order[1] = primary
          /\ Range(order) = DOMAIN grid.profiles
      <3>1. Len(second) \in Nat /\ Len(rest) \in Nat
        BY <2>4, <2>5, ListShape
      <3>2. /\ IsList(head \o rest) /\ Len(head \o rest) = Len(head) + Len(rest)
            /\ (head \o rest)[1] = head[1]
        BY <2>4, <2>6, <3>1, PutTogether
      <3>3. DOMAIN (head \o rest) = 1..(Len(head) + Len(rest))
        BY <3>2, ListShape
      <3>4. 1 \in DOMAIN (head \o rest)
        BY <2>6, <3>1, <3>3
      <3>5. Range(head \o rest) = DOMAIN grid.profiles
        <4>1. Range(head \o rest) = Range(head) \cup Range(rest)
          BY <2>4, <2>6, PutTogetherRange
        <4>2. {primary, default} \cup (DOMAIN grid.profiles \ {primary, default}) = DOMAIN grid.profiles
          BY <2>2
        <4> QED BY <2>4, <2>6, <4>1, <4>2
      <3> QED BY <2>6, <3>2, <3>4, <3>5 DEF head
    <2> HIDE DEF order
    <2>8. ASSUME NEW i \in DOMAIN grid.profiles
          PROVE  /\ IsList(Of(i)) /\ DOMAIN Of(i) = DOMAIN grid.profiles[i].bases
                 /\ \A k \in DOMAIN Of(i) : Of(i)[k] = <<i, grid.profiles[i].bases[k]>>
      <3> DEFINE s == grid.profiles[i].bases
      <3>1. DOMAIN s = 1..Len(s) /\ Len(s) \in Nat
        BY ListShape DEF IsGrid
      <3>2. /\ Of(i) = [k \in 1..Len(s) |-> Of(i)[k]] /\ DOMAIN Of(i) = DOMAIN s
            /\ \A k \in DOMAIN Of(i) : Of(i)[k] = <<i, s[k]>>
        BY <3>1
      <3> HIDE DEF Of
      <3> QED BY <3>1, <3>2, ListOf
    <2> HIDE DEF Of
    <2>9. IsList(ss) /\ DOMAIN ss = DOMAIN order /\ \A k \in DOMAIN ss : ss[k] = Of(order[k])
      <3>1. DOMAIN order = 1..Len(order) /\ Len(order) \in Nat
        BY <2>7, ListShape
      <3>2. ss = [k \in 1..Len(order) |-> ss[k]] /\ DOMAIN ss = DOMAIN order
            /\ \A k \in DOMAIN ss : ss[k] = Of(order[k])
        BY <3>1
      <3> HIDE DEF ss
      <3> QED BY <3>1, <3>2, ListOf
    <2>10. \A k \in DOMAIN ss : order[k] \in DOMAIN grid.profiles /\ IsList(ss[k])
      <3>1. \A k \in DOMAIN order : order[k] \in DOMAIN grid.profiles
        BY <2>7 DEF Range
      <3> HIDE DEF ss
      <3> QED BY <2>8, <2>9, <3>1
    <2> HIDE DEF ss, visits
    <2>11. IsList(visits)
      BY <2>1, <2>9, <2>10, FlattenReads
    <2>12. PICK row, col : Reads(row, col, visits, ss)
      BY <2>1, <2>9, <2>10, FlattenReads
    <2>13. ASSUME NEW k \in DOMAIN visits
           PROVE  /\ row[k] \in DOMAIN order /\ order[row[k]] \in DOMAIN grid.profiles
                  /\ \E b \in Range(grid.profiles[order[row[k]]].bases) : visits[k] = <<order[row[k]], b>>
      <3>1. /\ row[k] \in DOMAIN order /\ col[k] \in DOMAIN Of(order[row[k]])
            /\ visits[k] = Of(order[row[k]])[col[k]]
        BY <2>9, <2>12 DEF Reads
      <3>2. order[row[k]] \in DOMAIN grid.profiles
        BY <2>9, <2>10, <3>1
      <3>3. col[k] \in DOMAIN grid.profiles[order[row[k]]].bases
            /\ visits[k] = <<order[row[k]], grid.profiles[order[row[k]]].bases[col[k]]>>
        BY <2>8, <3>1, <3>2
      <3> QED BY <3>1, <3>2, <3>3 DEF Range
    <2>14. ASSUME NEW r \in DOMAIN order, NEW b \in Range(grid.profiles[order[r]].bases)
           PROVE  \E k \in DOMAIN visits : row[k] = r /\ visits[k] = <<order[r], b>>
      <3>1. PICK c \in DOMAIN grid.profiles[order[r]].bases : b = grid.profiles[order[r]].bases[c]
        BY DEF Range
      <3>2. r \in DOMAIN ss /\ c \in DOMAIN ss[r] /\ ss[r][c] = <<order[r], b>>
        BY <2>8, <2>9, <2>10, <3>1
      <3>3. PICK k \in DOMAIN visits : row[k] = r /\ col[k] = c
        BY <2>12, <3>2 DEF Reads
      <3> QED BY <2>12, <3>2, <3>3 DEF Reads
    <2>15. Range(visits) = VisitsOf(grid)
      <3>1. ASSUME NEW v \in Range(visits) PROVE v \in VisitsOf(grid)
        <4>1. PICK k \in DOMAIN visits : v = visits[k]
          BY DEF Range
        <4>2. PICK b \in Range(grid.profiles[order[row[k]]].bases) : visits[k] = <<order[row[k]], b>>
          BY <2>13
        <4> QED BY <1>2, <2>13, <4>1, <4>2 DEF VisitsOf
      <3>2. ASSUME NEW i \in DOMAIN grid.profiles, NEW b \in Range(grid.profiles[i].bases)
            PROVE  <<i, b>> \in Range(visits)
        <4>1. PICK r \in DOMAIN order : order[r] = i
          BY <2>7 DEF Range
        <4>2. PICK k \in DOMAIN visits : visits[k] = <<i, b>>
          BY <2>14, <4>1
        <4> QED BY <4>2 DEF Range
      <3> QED BY <1>2, <3>1, <3>2 DEF VisitsOf
    <2>16. ASSUME chosen # 0, NEW b \in Range(grid.profiles[chosen].bases),
                  NEW k \in DOMAIN visits, visits[k][1] # chosen
           PROVE  \E j \in 1..(k - 1) : visits[j] = <<chosen, b>>
      <3>1. order[1] = chosen /\ 1 \in DOMAIN order
        BY <2>7, <2>16 DEF primary
      <3>2. PICK j \in DOMAIN visits : row[j] = 1 /\ visits[j] = <<chosen, b>>
        BY <2>14, <2>16, <3>1
      <3>3. row[k] \in DOMAIN order /\ order[row[k]] # chosen
        BY <2>13, <2>16
      <3>4. row[k] \in Nat /\ row[k] > 1 /\ DOMAIN visits = 1..Len(visits) /\ Len(visits) \in Nat
        BY <2>7, <2>11, <3>1, <3>3, ListShape
      <3>5. ~ (k < j) /\ k # j
        BY <2>12, <2>16, <3>2, <3>4 DEF Reads
      <3>6. j \in 1..(k - 1)
        BY <3>4, <3>5
      <3> QED BY <3>2, <3>6
    <2> QED BY <2>11, <2>15, <2>16 DEF visits, ChosenFirst
  <1> QED BY <1>1, <1>2

\* How the cells of a plan are read off the visits: a base is visited once, its
\* tiers are climbed from start, no cell is left out and none comes twice.
ReadsVisits(row, plan, visits, grid, start) ==
  /\ \A k \in DOMAIN plan :
       /\ row[k] \in DOMAIN visits
       /\ \E t, l : /\ Takes(grid.bases, grid.tiers, visits[row[k]][2], t, l)
                   /\ plan[k] = CellOf(visits[row[k]][1], visits[row[k]][2], t, l)
       /\ \A r \in 1..(row[k] - 1) : visits[r][2] # visits[row[k]][2]
  /\ \A k, m \in DOMAIN plan : k < m =>
       /\ ~ SameCell(plan[k], plan[m])
       /\ \/ row[k] < row[m]
          \/ row[k] = row[m] /\ RankFrom(Len(grid.tiers), start, plan[k].tier)
                                  <= RankFrom(Len(grid.tiers), start, plan[m].tier)
  /\ \A r \in DOMAIN visits : \A t, l : Takes(grid.bases, grid.tiers, visits[r][2], t, l) =>
       \E k \in DOMAIN plan : plan[k].base = visits[r][2] /\ plan[k].tier = t /\ plan[k].leg = l

\* The ordered grid is read off its visits, each visit from the tier the
\* escalation starts at.
LEMMA OrderGridReads ==
  ASSUME NEW grid, IsGrid(grid), NEW route, NEW chosen,
         grid.profiles # <<>> => /\ chosen \in {0} \cup DOMAIN grid.profiles
                                 /\ DefaultProfileIndex(route) \in DOMAIN grid.profiles,
         NEW start \in Nat, start >= 1, start <= Len(grid.tiers) + 1
  PROVE  /\ IsList(OrderGrid(grid, route, chosen, start))
         /\ \E row : ReadsVisits(row, OrderGrid(grid, route, chosen, start),
                                Visits(grid, route, chosen), grid, start)
  <1> DEFINE V == Visits(grid, route, chosen)
             C(v) == CellsOfVisit(grid.bases, grid.tiers, start, v)
             ss == [i \in DOMAIN V |-> C(V[i])]
             cells == FlattenSeq(ss)
             places == {i \in DOMAIN cells : \A j \in 1..(i - 1) : ~ SameCell(cells[j], cells[i])}
             plan == OrderGrid(grid, route, chosen, start)
             Rank(tier) == RankFrom(Len(grid.tiers), start, tier)
  <1>1. plan = ElementsAt(cells, places)
    BY DEF OrderGrid, FlatMap, WithoutRepeats
  <1>2. IsList(V) /\ Range(V) = VisitsOf(grid) /\ DOMAIN V = 1..Len(V) /\ Len(V) \in Nat
    <2>1. IsList(V) /\ Range(V) = VisitsOf(grid)
      BY VisitsAre
    <2> QED BY <2>1, ListShape
  <1> HIDE DEF V
  <1>3. \A i \in DOMAIN V : V[i] = <<V[i][1], V[i][2]>>
    BY <1>2 DEF VisitsOf, Range
  <1>4. AreTiers(grid.tiers)
    BY DEF IsGrid, AreTiers
  <1>5. ASSUME NEW i \in DOMAIN V
        PROVE  /\ IsList(C(V[i]))
               /\ \A k \in DOMAIN C(V[i]) : \E t, l : /\ Takes(grid.bases, grid.tiers, V[i][2], t, l)
                                                     /\ C(V[i])[k] = CellOf(V[i][1], V[i][2], t, l)
               /\ \A t, l : Takes(grid.bases, grid.tiers, V[i][2], t, l) =>
                    \E k \in DOMAIN C(V[i]) : C(V[i])[k] = CellOf(V[i][1], V[i][2], t, l)
               /\ \A k, m \in DOMAIN C(V[i]) : k < m => Rank(C(V[i])[k].tier) <= Rank(C(V[i])[m].tier)
    <2> DEFINE p == V[i][1]
               b == V[i][2]
    <2>1. V[i] = <<p, b>>
      BY <1>3
    <2> HIDE DEF p, b
    <2>2. /\ IsList(C(<<p, b>>))
          /\ \A k \in DOMAIN C(<<p, b>>) : \E t, l : /\ Takes(grid.bases, grid.tiers, b, t, l)
                                                 /\ C(<<p, b>>)[k] = CellOf(p, b, t, l)
          /\ \A t, l : Takes(grid.bases, grid.tiers, b, t, l) =>
               \E k \in DOMAIN C(<<p, b>>) : C(<<p, b>>)[k] = CellOf(p, b, t, l)
          /\ \A k, m \in DOMAIN C(<<p, b>>) : k < m => Rank(C(<<p, b>>)[k].tier) <= Rank(C(<<p, b>>)[m].tier)
      <3>1. CellsAre(C(<<p, b>>), grid.bases, grid.tiers, start, p, b)
        BY <1>4, CellsOfVisitAre
      <3> HIDE DEF C
      <3> QED BY <3>1 DEF CellsAre
    <2> QED BY <2>1, <2>2 DEF p, b
  <1> HIDE DEF C
  <1>6. IsList(ss) /\ DOMAIN ss = DOMAIN V /\ \A i \in DOMAIN V : ss[i] = C(V[i]) /\ IsList(ss[i])
    <2>1. ss = [i \in 1..Len(V) |-> ss[i]] /\ DOMAIN ss = DOMAIN V /\ \A i \in DOMAIN V : ss[i] = C(V[i])
      BY <1>2
    <2> HIDE DEF ss
    <2> QED BY <1>2, <1>5, <2>1, ListOf
  <1> HIDE DEF ss
  <1>7. IsList(cells)
    BY <1>6, FlattenReads
  <1>8. PICK crow, ccol : Reads(crow, ccol, cells, ss)
    BY <1>6, FlattenReads
  <1> HIDE DEF cells
  <1>9. IsList(plan) /\ places \subseteq DOMAIN cells
    BY <1>1, <1>7, ElementsAtReads
  <1>10. PICK pos : ReadsAt(pos, plan, cells, places)
    BY <1>1, <1>7, ElementsAtReads
  <1>11. DOMAIN cells = 1..Len(cells) /\ Len(cells) \in Nat /\ DOMAIN plan = 1..Len(plan) /\ Len(plan) \in Nat
    BY <1>7, <1>9, ListShape
  <1>12. ASSUME NEW i \in DOMAIN cells
         PROVE  /\ crow[i] \in DOMAIN V /\ ccol[i] \in DOMAIN C(V[crow[i]]) /\ cells[i] = C(V[crow[i]])[ccol[i]]
                /\ \E t, l : /\ Takes(grid.bases, grid.tiers, V[crow[i]][2], t, l)
                            /\ cells[i] = CellOf(V[crow[i]][1], V[crow[i]][2], t, l)
    <2>1. crow[i] \in DOMAIN V /\ ccol[i] \in DOMAIN C(V[crow[i]]) /\ cells[i] = C(V[crow[i]])[ccol[i]]
      BY <1>6, <1>8 DEF Reads
    <2> QED BY <1>5, <2>1
  <1>13. ASSUME NEW r \in DOMAIN V, NEW t, NEW l, Takes(grid.bases, grid.tiers, V[r][2], t, l)
         PROVE  \E i \in DOMAIN cells : crow[i] = r /\ cells[i] = CellOf(V[r][1], V[r][2], t, l)
    <2>1. PICK c \in DOMAIN C(V[r]) : C(V[r])[c] = CellOf(V[r][1], V[r][2], t, l)
      BY <1>5, <1>13
    <2>2. PICK i \in DOMAIN cells : crow[i] = r /\ ccol[i] = c
      BY <1>6, <1>8 DEF Reads
    <2> QED BY <1>12, <2>1, <2>2
  <1> DEFINE row == [k \in DOMAIN plan |-> crow[pos[k]]]
  <1>14. \A k \in DOMAIN plan : /\ pos[k] \in places /\ pos[k] \in DOMAIN cells
                               /\ plan[k] = cells[pos[k]] /\ row[k] = crow[pos[k]]
    BY <1>9, <1>10 DEF ReadsAt
  <1> HIDE DEF row
  <1>15. ASSUME NEW k \in DOMAIN plan
         PROVE  /\ row[k] \in DOMAIN V
                /\ \E t, l : /\ Takes(grid.bases, grid.tiers, V[row[k]][2], t, l)
                            /\ plan[k] = CellOf(V[row[k]][1], V[row[k]][2], t, l)
                /\ \A r \in 1..(row[k] - 1) : V[r][2] # V[row[k]][2]
    <2>1. /\ row[k] \in DOMAIN V
          /\ \E t, l : /\ Takes(grid.bases, grid.tiers, V[row[k]][2], t, l)
                      /\ plan[k] = CellOf(V[row[k]][1], V[row[k]][2], t, l)
      BY <1>12, <1>14
    <2>2. ASSUME NEW r \in 1..(row[k] - 1), V[r][2] = V[row[k]][2] PROVE FALSE
      <3>1. PICK t, l : /\ Takes(grid.bases, grid.tiers, V[row[k]][2], t, l)
                        /\ plan[k] = CellOf(V[row[k]][1], V[row[k]][2], t, l)
        BY <2>1
      <3>2. r \in DOMAIN V /\ r < row[k]
        BY <1>2, <2>1
      <3>3. PICK i \in DOMAIN cells : crow[i] = r /\ cells[i] = CellOf(V[r][1], V[r][2], t, l)
        BY <1>13, <2>2, <3>1, <3>2
      <3>4. SameCell(cells[i], cells[pos[k]])
        BY <1>14, <2>2, <3>1, <3>3 DEF SameCell, CellOf
      <3>5. i < pos[k]
        <4>1. i \in Nat /\ pos[k] \in Nat /\ crow[i] < crow[pos[k]]
          BY <1>11, <1>14, <3>2, <3>3
        <4>2. ~ (pos[k] < i) /\ pos[k] # i
          BY <1>2, <1>8, <1>12, <1>14, <4>1 DEF Reads
        <4> QED BY <4>1, <4>2
      <3>6. i \in 1..(pos[k] - 1)
        BY <1>11, <1>14, <3>5
      <3> QED BY <1>14, <3>4, <3>6
    <2> QED BY <2>1, <2>2
  <1>16. ASSUME NEW k \in DOMAIN plan, NEW m \in DOMAIN plan, k < m
         PROVE  /\ ~ SameCell(plan[k], plan[m])
                /\ \/ row[k] < row[m]
                   \/ row[k] = row[m] /\ Rank(plan[k].tier) <= Rank(plan[m].tier)
    <2>1. pos[k] < pos[m] /\ pos[k] \in DOMAIN cells /\ pos[m] \in DOMAIN cells
      BY <1>10, <1>14, <1>16 DEF ReadsAt
    <2>2. pos[k] \in 1..(pos[m] - 1)
      BY <1>11, <2>1
    <2>3. ~ SameCell(plan[k], plan[m])
      BY <1>14, <2>2
    <2>4. \/ crow[pos[k]] < crow[pos[m]]
          \/ crow[pos[k]] = crow[pos[m]] /\ ccol[pos[k]] < ccol[pos[m]]
      BY <1>8, <2>1 DEF Reads
    <2>5. CASE crow[pos[k]] = crow[pos[m]] /\ ccol[pos[k]] < ccol[pos[m]]
      <3>1. Rank(cells[pos[k]].tier) <= Rank(cells[pos[m]].tier)
        BY <1>5, <1>12, <2>1, <2>5
      <3> QED BY <1>14, <2>3, <2>5, <3>1
    <2> QED BY <1>14, <2>3, <2>4, <2>5
  <1>17. ASSUME NEW r \in DOMAIN V, NEW t, NEW l, Takes(grid.bases, grid.tiers, V[r][2], t, l)
         PROVE  \E k \in DOMAIN plan : plan[k].base = V[r][2] /\ plan[k].tier = t /\ plan[k].leg = l
    <2> DEFINE b == V[r][2]
               same == {i \in DOMAIN cells : cells[i].base = b /\ cells[i].tier = t /\ cells[i].leg = l}
    <2>1. same # {}
      BY <1>13, <1>17 DEF CellOf
    <2>2. PICK i \in same : \A j \in 1..(i - 1) : j \notin same
      BY <1>7, <2>1, FirstPlace
    <2>3. \A j \in 1..(i - 1) : j \in DOMAIN cells
      BY <1>11
    <2>4. i \in places
      BY <2>2, <2>3 DEF SameCell
    <2>5. PICK k \in DOMAIN plan : pos[k] = i
      BY <1>10, <2>4 DEF ReadsAt
    <2> QED BY <1>14, <2>2, <2>5
  <1>18. ReadsVisits(row, plan, V, grid, start)
    BY <1>15, <1>16, <1>17 DEF ReadsVisits
  <1> QED BY <1>9, <1>18 DEF V

------------------------------------------------------------------------------
(* Decidable routes, and pruning. *)

\* A route Jev can be asked about: a choice of tiers and of profiles, defaults
\* that exist, and bases of the catalog only.
Decidable(route, catalog) ==
  /\ Len(route.tiers) >= 2
  /\ \A t \in Range(route.tiers) : t.legs # <<>>
  /\ \E t \in Range(route.tiers) : t.name = route.defaultTier
  /\ \A p \in Range(route.profiles) : p.bases # <<>> /\ Range(p.bases) \subseteq DOMAIN catalog
  /\ route.profiles = <<>> \/ /\ Len(route.profiles) >= 2
                              /\ \E p \in Range(route.profiles) : p.name = route.defaultProfile

\* Every leg has a base of the route that takes it.
Tidy(route, catalog) ==
  \A t \in Range(route.tiers) : \A l \in Range(t.legs) :
    \E b \in (IF route.profiles = <<>> THEN DOMAIN catalog
              ELSE UNION {Range(p.bases) : p \in Range(route.profiles)}) :
      Allows(t, b) /\ Speaks(catalog[b], l)

\* The legs of a flattened route are on bases of the catalog.
LEMMA FlattenedIs ==
  ASSUME NEW route, IsRoute(route), NEW catalog
  PROVE  LET legs == FlattenJevToStatic(route, catalog) IN
         IsList(legs) /\ \A k \in DOMAIN legs : legs[k].base \in DOMAIN catalog
  <1> DEFINE grid  == [bases |-> catalog, profiles |-> route.profiles, tiers |-> route.tiers]
             V == Visits(grid, route, 0)
             start == DefaultTierIndex(route)
             C(v) == CellsOfVisit(catalog, route.tiers, start, v)
             ss == [i \in DOMAIN V |-> C(V[i])]
             cells == FlattenSeq(ss)
             legs  == [i \in DOMAIN cells |-> [base |-> cells[i].base, leg |-> cells[i].leg]]
             places == {i \in DOMAIN legs : \A j \in 1..(i - 1) : ~ (legs[j] = legs[i])}
  <1>1. FlattenJevToStatic(route, catalog) = ElementsAt(legs, places)
    BY DEF FlattenJevToStatic, FlatMap, WithoutRepeats
  <1>2. IsList(V) /\ Range(V) = VisitsOf(grid)
    <2>1. IsGrid(grid) /\ grid.profiles = route.profiles
      BY DEF IsGrid, IsRoute, IsProfile, IsTier
    <2>2. route.profiles # <<>> => DefaultProfileIndex(route) \in DOMAIN route.profiles
      BY DefaultProfileIs DEF IsRoute
    <2> HIDE DEF grid
    <2> QED BY <2>1, <2>2, VisitsAre
  <1>3. start \in Nat /\ start >= 1 /\ start <= Len(route.tiers) + 1
    <2>1. Len(route.tiers) \in Nat /\ DOMAIN route.tiers = 1..Len(route.tiers)
      BY ListShape DEF IsRoute
    <2>2. CASE route.tiers # <<>>
      <3>1. start \in DOMAIN route.tiers
        BY <2>2, DefaultTierIs DEF IsRoute
      <3> QED BY <2>1, <3>1
    <2>3. CASE route.tiers = <<>>
      <3>1. DOMAIN route.tiers = {}
        BY <2>3, NoElement
      <3>2. start = 1
        BY <3>1 DEF DefaultTierIndex, Position, FirstOf, AtLeastOne
      <3> QED BY <2>1, <3>2
    <2> QED BY <2>2, <2>3
  <1>4. AreTiers(route.tiers)
    BY DEF IsRoute, IsTier, AreTiers
  <1>5. \A i \in DOMAIN V : V[i] = <<V[i][1], V[i][2]>>
    <2> HIDE DEF V
    <2> QED BY <1>2 DEF VisitsOf, Range
  <1> HIDE DEF V, start
  <1>6. ASSUME NEW i \in DOMAIN V
        PROVE  IsList(C(V[i])) /\ \A k \in DOMAIN C(V[i]) : C(V[i])[k].base \in DOMAIN catalog
    <2> DEFINE p == V[i][1]
               b == V[i][2]
    <2>1. V[i] = <<p, b>>
      BY <1>5
    <2> HIDE DEF p, b
    <2> DEFINE mine == C(<<p, b>>)
    <2>2. /\ IsList(mine)
          /\ \A k \in DOMAIN mine : \E t, l : Takes(catalog, route.tiers, b, t, l) /\ mine[k] = CellOf(p, b, t, l)
      <3>1. mine = CellsOfVisit(catalog, route.tiers, start, <<p, b>>)
        OBVIOUS
      <3> HIDE DEF mine
      <3>2. CellsAre(CellsOfVisit(catalog, route.tiers, start, <<p, b>>), catalog, route.tiers, start, p, b)
        <4>1. start \in Nat /\ start >= 1 /\ start <= Len(route.tiers) + 1
          BY <1>3
        <4> HIDE DEF start
        <4> QED BY <1>4, <4>1, CellsOfVisitAre
      <3> QED BY <3>1, <3>2 DEF CellsAre
    <2> HIDE DEF mine
    <2>3. \A k \in DOMAIN mine : mine[k].base \in DOMAIN catalog
      <3>1. ASSUME NEW k \in DOMAIN mine PROVE mine[k].base \in DOMAIN catalog
        <4>1. PICK t, l : Takes(catalog, route.tiers, b, t, l) /\ mine[k] = CellOf(p, b, t, l)
          BY <2>2
        <4> QED BY <4>1 DEF Takes, CellOf
      <3> QED BY <3>1
    <2> QED BY <2>1, <2>2, <2>3 DEF mine
  <1> HIDE DEF C
  <1>7. IsList(ss) /\ DOMAIN ss = DOMAIN V /\ \A i \in DOMAIN V : ss[i] = C(V[i])
    <2>1. DOMAIN V = 1..Len(V) /\ Len(V) \in Nat
      BY <1>2, ListShape
    <2>2. ss = [i \in 1..Len(V) |-> ss[i]] /\ DOMAIN ss = DOMAIN V /\ \A i \in DOMAIN V : ss[i] = C(V[i])
      BY <2>1
    <2> HIDE DEF ss
    <2> QED BY <2>1, <2>2, ListOf
  <1> HIDE DEF ss
  <1>8. IsList(cells)
    BY <1>6, <1>7, FlattenReads
  <1>9. \A k \in DOMAIN cells : cells[k].base \in DOMAIN catalog
    BY <1>6, <1>7, FlattenRange
  <1> HIDE DEF cells
  <1>10. IsList(legs) /\ DOMAIN legs = DOMAIN cells /\ \A k \in DOMAIN legs : legs[k].base = cells[k].base
    <2>1. DOMAIN cells = 1..Len(cells) /\ Len(cells) \in Nat
      BY <1>8, ListShape
    <2>2. /\ legs = [k \in 1..Len(cells) |-> legs[k]] /\ DOMAIN legs = DOMAIN cells
          /\ \A k \in DOMAIN legs : legs[k].base = cells[k].base
      BY <2>1
    <2> HIDE DEF legs
    <2> QED BY <2>1, <2>2, ListOf
  <1>11. places \subseteq DOMAIN legs
    OBVIOUS
  <1> HIDE DEF legs, places
  <1>12. PICK pos : ReadsAt(pos, ElementsAt(legs, places), legs, places)
    BY <1>10, <1>11, ElementsAtReads
  <1>13. IsList(ElementsAt(legs, places))
    BY <1>10, <1>11, ElementsAtReads
  <1>14. \A k \in DOMAIN ElementsAt(legs, places) : ElementsAt(legs, places)[k].base \in DOMAIN catalog
    BY <1>9, <1>10, <1>11, <1>12 DEF ReadsAt
  <1> QED BY <1>1, <1>13, <1>14

\* A route that can still be decided after pruning is a decidable route, and has
\* nothing left that no base of it takes.
LEMMA PrunedRouteIs ==
  ASSUME NEW route, IsRoute(route), NEW catalog, NEW drop,
         PruneJevRoute(route, catalog, drop) # None
  PROVE  LET left == PruneJevRoute(route, catalog, drop) IN
         IsRoute(left) /\ Decidable(left, catalog) /\ Tidy(left, catalog)
  <1> DEFINE cut == [i \in DOMAIN route.profiles |->
                      [route.profiles[i] EXCEPT !.bases = Filter(@, LAMBDA b : b \in DOMAIN catalog)]]
             kplaces == {i \in DOMAIN cut : cut[i].bases # <<>>}
             kept == ElementsAt(cut, kplaces)
             profiles == Collapsed(kept)
             active == IF profiles = <<>> THEN DOMAIN catalog
                       ELSE UNION {Range(p.bases) : p \in Range(profiles)}
             T(i) == [route.tiers[i] EXCEPT !.bases = IF @ = None THEN None ELSE @ \cap DOMAIN catalog]
             Left(i) == [T(i) EXCEPT !.legs = Filter(@, LAMBDA l :
                          l.provider \notin drop /\ \E b \in active : Allows(T(i), b) /\ Speaks(catalog[b], l))]
             pruned == [i \in DOMAIN route.tiers |-> [i |-> i, tier |-> Left(i)]]
             tplaces == {i \in DOMAIN pruned : pruned[i].tier.legs # <<>>}
             tiers  == ElementsAt(pruned, tplaces)
             default == DefaultTierIndex(route)
             picks == {i \in DOMAIN tiers : tiers[i].i >= default}
             picked == FirstOf(picks)
             which == IF picked = 0 THEN Len(tiers) ELSE picked
             tierList == [i \in DOMAIN tiers |-> tiers[i].tier]
             defaultProfile == IF profiles = <<>> THEN None
                               ELSE IF \E p \in Range(kept) : p.name = route.defaultProfile
                                    THEN route.defaultProfile ELSE kept[1].name
             left == [profiles |-> profiles, tiers |-> tierList,
                      defaultProfile |-> defaultProfile,
                      defaultTier |-> tiers[which].tier.name]
  <1>1. PruneJevRoute(route, catalog, drop) = left /\ ~ (Len(tiers) < 2)
    <2>1. PruneJevRoute(route, catalog, drop) =
            IF DOMAIN catalog = {} \/ Len(tiers) < 2 \/ (kept = <<>> /\ route.profiles # <<>>) THEN None ELSE left
      BY DEF PruneJevRoute, Filter, Position
    <2> HIDE DEF left, tiers, kept
    <2> QED BY <2>1
  <1>2. ASSUME NEW i \in DOMAIN route.profiles
        PROVE  /\ IsProfile(cut[i]) /\ cut[i].name = route.profiles[i].name
               /\ Range(cut[i].bases) \subseteq DOMAIN catalog
    <2> DEFINE s == route.profiles[i].bases
               places == {k \in DOMAIN s : s[k] \in DOMAIN catalog}
    <2>1. cut[i] = [name |-> route.profiles[i].name, bases |-> ElementsAt(s, places)]
      <3>1. cut[i] = [route.profiles[i] EXCEPT !.bases = ElementsAt(s, places)]
        BY DEF Filter
      <3>2. route.profiles[i] = [name |-> route.profiles[i].name, bases |-> s]
        BY DEF IsRoute, IsProfile
      <3> HIDE DEF s, places, cut
      <3> QED BY <3>1, <3>2
    <2>2. IsList(s) /\ places \subseteq DOMAIN s
      BY DEF IsRoute, IsProfile
    <2>3. {s[k] : k \in places} \subseteq DOMAIN catalog
      OBVIOUS
    <2> HIDE DEF s, places, cut
    <2>4. IsList(ElementsAt(s, places)) /\ Range(ElementsAt(s, places)) \subseteq DOMAIN catalog
      BY <2>2, <2>3, ElementsAtReads, ElementsAtRange
    <2> QED BY <2>1, <2>4 DEF IsProfile
  <1>3. IsList(cut) /\ DOMAIN cut = DOMAIN route.profiles
    <2>1. Len(route.profiles) \in Nat /\ DOMAIN route.profiles = 1..Len(route.profiles)
      BY ListShape DEF IsRoute
    <2>2. cut = [i \in 1..Len(route.profiles) |-> cut[i]] /\ DOMAIN cut = DOMAIN route.profiles
      BY <2>1
    <2> HIDE DEF cut
    <2> QED BY <2>1, <2>2, ListOf
  <1> HIDE DEF cut
  <1>4. IsList(kept) /\ kplaces \subseteq DOMAIN cut
    BY <1>3, ElementsAtReads
  <1>5. PICK kpos : ReadsAt(kpos, kept, cut, kplaces)
    BY <1>3, <1>4, ElementsAtReads
  <1> HIDE DEF kept
  <1>6. ASSUME NEW k \in DOMAIN kept
        PROVE  /\ IsProfile(kept[k]) /\ kept[k].bases # <<>> /\ Range(kept[k].bases) \subseteq DOMAIN catalog
               /\ kpos[k] \in DOMAIN route.profiles /\ kept[k].name = route.profiles[kpos[k]].name
    BY <1>2, <1>3, <1>5 DEF ReadsAt
  <1>7. \A j, k \in DOMAIN kept : kept[j].name = kept[k].name => j = k
    <2> TAKE j, k \in DOMAIN kept
    <2> HAVE kept[j].name = kept[k].name
    <2>1. kpos[j] = kpos[k]
      BY <1>6 DEF IsRoute
    <2>2. j \in Nat /\ k \in Nat /\ kpos[j] \in Nat /\ kpos[k] \in Nat
      <3>1. DOMAIN kept \subseteq Nat /\ DOMAIN route.profiles \subseteq Nat
        BY <1>4, ListShape DEF IsRoute
      <3> QED BY <1>6, <3>1
    <2>3. (j < k => kpos[j] < kpos[k]) /\ (k < j => kpos[k] < kpos[j])
      BY <1>5 DEF ReadsAt
    <2> QED BY <2>1, <2>2, <2>3
  <1>8. profiles = <<>> \/ (profiles = kept /\ Len(kept) >= 2)
    <2>1. Len(kept) \in Nat
      BY <1>4, ListShape
    <2>2. CASE Len(kept) = 0
      <3>1. kept \in Seq(Range(kept))
        BY <1>4 DEF IsList
      <3>2. kept = <<>>
        BY <2>2, <3>1, EmptySeq
      <3> QED BY <2>2, <3>2 DEF Collapsed
    <2>3. CASE Len(kept) = 1
      BY <2>3 DEF Collapsed
    <2>4. CASE Len(kept) # 0 /\ Len(kept) # 1
      <3>1. profiles = kept
        BY <2>4 DEF Collapsed
      <3> HIDE DEF profiles
      <3> QED BY <2>1, <2>4, <3>1
    <2> QED BY <2>2, <2>3, <2>4
  <1> HIDE DEF profiles
  <1>9. /\ IsList(profiles) /\ \A i \in DOMAIN profiles : IsProfile(profiles[i])
        /\ \A i, j \in DOMAIN profiles : profiles[i].name = profiles[j].name => i = j
        /\ \A p \in Range(profiles) : p.bases # <<>> /\ Range(p.bases) \subseteq DOMAIN catalog
    BY <1>4, <1>6, <1>7, <1>8, NoElement DEF Range
  <1>10. profiles = <<>> \/ /\ Len(profiles) >= 2
                            /\ \E p \in Range(profiles) : p.name = defaultProfile
    <2>1. CASE profiles # <<>>
      <3>1. 1 \in DOMAIN kept /\ profiles = kept
        BY <1>4, <1>8, <2>1, ListShape
      <3>2. kept[1] \in Range(kept)
        BY <3>1 DEF Range
      <3> QED BY <1>8, <2>1, <3>1, <3>2
    <2> QED BY <2>1
  <1> HIDE DEF defaultProfile
  <1>11. ASSUME NEW i \in DOMAIN route.tiers
         PROVE  /\ IsTier(Left(i))
                /\ \A l \in Range(Left(i).legs) : \E b \in active : Allows(Left(i), b) /\ Speaks(catalog[b], l)
    <2> DEFINE s == route.tiers[i].legs
               places == {k \in DOMAIN s : /\ s[k].provider \notin drop
                                           /\ \E b \in active : Allows(T(i), b) /\ Speaks(catalog[b], s[k])}
    <2>1. T(i) = [name |-> route.tiers[i].name, legs |-> s, bases |-> T(i).bases]
      <3> DEFINE t == route.tiers[i]
                 pruned_ == IF t.bases = None THEN None ELSE t.bases \cap DOMAIN catalog
      <3>1. t = [name |-> t.name, bases |-> t.bases, legs |-> s]
        BY DEF IsRoute, IsTier
      <3>2. T(i) = [t EXCEPT !.bases = pruned_]
        OBVIOUS
      <3> HIDE DEF t, pruned_, s, T
      <3>3. T(i) = [name |-> t.name, legs |-> s, bases |-> pruned_]
        BY <3>1, <3>2
      <3> QED BY <3>3 DEF t
    <2> HIDE DEF T, active
    <2>2. Left(i) = [name |-> route.tiers[i].name, bases |-> T(i).bases, legs |-> ElementsAt(s, places)]
      BY <2>1 DEF Filter
    <2>3. IsList(s) /\ places \subseteq DOMAIN s
      BY DEF IsRoute, IsTier
    <2>4. \A k \in places : \E b \in active : Allows(T(i), b) /\ Speaks(catalog[b], s[k])
      OBVIOUS
    <2> HIDE DEF s, places, Left
    <2>5. IsList(ElementsAt(s, places)) /\ Range(ElementsAt(s, places)) = {s[k] : k \in places}
      BY <2>3, ElementsAtReads, ElementsAtRange
    <2>6. IsTier(Left(i))
      BY <2>2, <2>5 DEF IsTier
    <2>7. \A l \in Range(Left(i).legs) : \E k \in places : l = s[k]
      BY <2>2, <2>5
    <2>8. \A b : Allows(Left(i), b) <=> Allows(T(i), b)
      BY <2>2 DEF Allows
    <2> QED BY <2>4, <2>6, <2>7, <2>8
  <1> HIDE DEF Left
  <1>12. IsList(pruned) /\ DOMAIN pruned = DOMAIN route.tiers
         /\ \A i \in DOMAIN pruned : pruned[i].i = i /\ pruned[i].tier = Left(i)
    <2>1. Len(route.tiers) \in Nat /\ DOMAIN route.tiers = 1..Len(route.tiers)
      BY ListShape DEF IsRoute
    <2>2. pruned = [i \in 1..Len(route.tiers) |-> pruned[i]] /\ DOMAIN pruned = DOMAIN route.tiers
          /\ \A i \in DOMAIN pruned : pruned[i].i = i /\ pruned[i].tier = Left(i)
      BY <2>1
    <2> HIDE DEF pruned
    <2> QED BY <2>1, <2>2, ListOf
  <1> HIDE DEF pruned
  <1>13. IsList(tiers) /\ tplaces \subseteq DOMAIN pruned
    BY <1>12, ElementsAtReads
  <1>14. PICK tpos : ReadsAt(tpos, tiers, pruned, tplaces)
    BY <1>12, <1>13, ElementsAtReads
  <1> HIDE DEF tiers, active
  <1>15. ASSUME NEW k \in DOMAIN tiers
         PROVE  /\ IsTier(tiers[k].tier) /\ tiers[k].tier.legs # <<>>
                /\ \A l \in Range(tiers[k].tier.legs) :
                     \E b \in active : Allows(tiers[k].tier, b) /\ Speaks(catalog[b], l)
    <2>1. tpos[k] \in DOMAIN route.tiers /\ tiers[k].tier = Left(tpos[k]) /\ tiers[k].tier.legs # <<>>
      BY <1>12, <1>13, <1>14 DEF ReadsAt
    <2> QED BY <1>11, <2>1
  <1>16. Len(tiers) \in Nat /\ Len(tiers) >= 2 /\ DOMAIN tiers = 1..Len(tiers)
    BY <1>1, <1>13, ListShape
  <1>17. which \in DOMAIN tiers
    <2>1. CASE picks = {}
      BY <1>16, <2>1 DEF FirstOf
    <2>2. CASE picks # {}
      <3>1. picks \subseteq Nat
        BY <1>16
      <3> HIDE DEF picks
      <3>2. picked \in picks
        BY <2>2, <3>1, FirstIs
      <3> QED BY <1>16, <3>2 DEF picks
    <2> QED BY <2>1, <2>2
  <1> HIDE DEF which
  <1>18. IsList(tierList) /\ Len(tierList) = Len(tiers) /\ DOMAIN tierList = DOMAIN tiers
         /\ \A k \in DOMAIN tierList : tierList[k] = tiers[k].tier
    <2>1. tierList = [i \in 1..Len(tiers) |-> tierList[i]] /\ DOMAIN tierList = DOMAIN tiers
          /\ \A k \in DOMAIN tierList : tierList[k] = tiers[k].tier
      BY <1>16
    <2> HIDE DEF tierList
    <2> QED BY <1>16, <2>1, ListOf
  <1> HIDE DEF tierList
  <1>19. /\ left.profiles = profiles /\ left.tiers = tierList /\ left.defaultProfile = defaultProfile
         /\ left.defaultTier = tierList[which].name
    BY <1>17, <1>18
  <1> HIDE DEF left
  <1>20. IsRoute(left)
    BY <1>9, <1>15, <1>18, <1>19 DEF IsRoute
  <1>21. \A t \in Range(tierList) : \E k \in DOMAIN tiers : t = tiers[k].tier
    BY <1>18 DEF Range
  <1>22. Decidable(left, catalog)
    <2>1. tierList[which] \in Range(tierList)
      BY <1>17, <1>18 DEF Range
    <2> QED BY <1>9, <1>10, <1>15, <1>16, <1>18, <1>19, <1>21, <2>1 DEF Decidable
  <1>23. Tidy(left, catalog)
    BY <1>15, <1>19, <1>21 DEF Tidy, active
  <1> QED BY <1>1, <1>20, <1>22, <1>23

------------------------------------------------------------------------------
(* The tables that a policy builds. *)

\* A table whose decided routes can be decided, and whose bases are the catalog's.
IsTable(tb) ==
  /\ None \notin DOMAIN tb.catalog /\ DOMAIN tb.catalog \subseteq Range(BaseOrder)
  /\ \A a \in DOMAIN tb.jev : IsRoute(tb.jev[a]) /\ Decidable(tb.jev[a], tb.catalog)
  /\ \A a \in DOMAIN tb.static :
       IsList(tb.static[a]) /\ \A k \in DOMAIN tb.static[a] : tb.static[a][k].base \in DOMAIN tb.catalog

\* Pruning a table leaves a table.
LEMMA PrunedIs ==
  ASSUME NEW tb, IsTable(tb), NEW catalog, DOMAIN catalog \subseteq DOMAIN tb.catalog, NEW drop
  PROVE  LET left == Pruned(tb, catalog, drop) IN
         IsTable(left) /\ left.catalog = catalog /\ \A a \in DOMAIN left.jev : Tidy(left.jev[a], left.catalog)
  <1> DEFINE P(a) == PruneJevRoute(tb.jev[a], catalog, drop)
             decided == IF "typesafe" \in drop THEN {} ELSE {a \in DOMAIN tb.jev : P(a) # None}
             S(a) == IF a \in decided THEN FlattenJevToStatic(P(a), catalog)
                     ELSE Filter(tb.static[a], LAMBDA c : c.leg.provider \notin drop /\ c.base \in DOMAIN catalog)
             left == Pruned(tb, catalog, drop)
  <1>1. left = [catalog |-> catalog, harnesses |-> tb.harnesses,
                jev |-> [a \in decided |-> P(a)], static |-> [a \in DOMAIN tb.static |-> S(a)]]
    BY DEF Pruned
  <1>2. \A a \in decided : a \in DOMAIN tb.jev /\ P(a) # None
    OBVIOUS
  <1> HIDE DEF decided
  <1>3. ASSUME NEW a \in decided PROVE IsRoute(P(a)) /\ Decidable(P(a), catalog) /\ Tidy(P(a), catalog)
    BY <1>2, PrunedRouteIs DEF IsTable
  <1>4. ASSUME NEW a \in DOMAIN tb.static
        PROVE  IsList(S(a)) /\ \A k \in DOMAIN S(a) : S(a)[k].base \in DOMAIN catalog
    <2>1. CASE a \in decided
      <3>1. S(a) = FlattenJevToStatic(P(a), catalog)
        BY <2>1
      <3> HIDE DEF S, P
      <3> QED BY <1>3, <2>1, <3>1, FlattenedIs
    <2>2. CASE a \notin decided
      <3> DEFINE s == tb.static[a]
                 places == {k \in DOMAIN s : s[k].leg.provider \notin drop /\ s[k].base \in DOMAIN catalog}
      <3>1. S(a) = ElementsAt(s, places)
        BY <2>2 DEF Filter
      <3>2. IsList(s) /\ places \subseteq DOMAIN s
        BY DEF IsTable
      <3>3. \A k \in places : s[k].base \in DOMAIN catalog
        OBVIOUS
      <3> HIDE DEF s, places, S
      <3>4. PICK pos : ReadsAt(pos, ElementsAt(s, places), s, places)
        BY <3>2, ElementsAtReads
      <3>5. IsList(ElementsAt(s, places))
        BY <3>2, ElementsAtReads
      <3> QED BY <3>1, <3>3, <3>4, <3>5 DEF ReadsAt
    <2> QED BY <2>1, <2>2
  <1> HIDE DEF P, S
  <1>5. /\ left.catalog = catalog
        /\ DOMAIN left.jev = decided /\ \A a \in decided : left.jev[a] = P(a)
        /\ DOMAIN left.static = DOMAIN tb.static /\ \A a \in DOMAIN tb.static : left.static[a] = S(a)
    BY <1>1
  <1> HIDE DEF left
  <1>6. None \notin DOMAIN catalog /\ DOMAIN catalog \subseteq Range(BaseOrder)
    BY DEF IsTable
  <1>7. IsTable(left)
    BY <1>3, <1>4, <1>5, <1>6 DEF IsTable
  <1> QED BY <1>3, <1>5, <1>7 DEF left

\* What a target stands for is a list of legs.
LEMMA TargetIs ==
  ASSUME NEW target, NEW allowed
  PROVE  IsList(ExpandTarget(target, allowed))
  <1> DEFINE s == IF "leg" \in DOMAIN target THEN <<target.leg>>
                  ELSE IF target.alias \in DOMAIN ModelRoutes THEN ModelRoutes[target.alias] ELSE <<>>
             places == {k \in DOMAIN s : allowed \/ s[k].provider # "typesafe"}
  <1>1. ExpandTarget(target, allowed) = ElementsAt(s, places)
    BY DEF ExpandTarget, Filter
  <1>2. places \subseteq DOMAIN s
    OBVIOUS
  <1>3. IsList(s)
    <2>1. CASE "leg" \in DOMAIN target
      <3>1. s = <<target.leg>>
        BY <2>1
      <3> QED BY <3>1, Single
    <2>2. CASE "leg" \notin DOMAIN target
      BY <2>2, ModelRoutesAssumption, NoElement
    <2> QED BY <2>1, <2>2
  <1> HIDE DEF s, places
  <1> QED BY <1>1, <1>2, <1>3, ElementsAtReads

\* The legs of a static route that is accepted are on bases of the file.
LEMMA StaticLegsAre ==
  ASSUME NEW entry, NEW bases, entry.legs = None \/ IsList(entry.legs), StaticAccepted(entry, bases)
  PROVE  LET legs == ExpandStaticLegs(entry, bases) IN
         IsList(legs) /\ \A k \in DOMAIN legs : legs[k].base \in DOMAIN bases
  <1> DEFINE s == entry.legs
             L(e) == LegsOfEntry(e, bases)
             Of(e) == [k \in DOMAIN L(e) |-> [base |-> e.base, leg |-> L(e)[k]]]
             ss == [i \in DOMAIN s |-> Of(s[i])]
             legs == ExpandStaticLegs(entry, bases)
  <1>1. CASE s = None
    <2>1. legs = <<>>
      BY <1>1 DEF ExpandStaticLegs
    <2> QED BY <2>1, NoElement
  <1>2. CASE s # None
    <2>1. legs = FlattenSeq(ss)
      BY <1>2 DEF ExpandStaticLegs, FlatMap
    <2>2. IsList(s) /\ DOMAIN s = 1..Len(s) /\ Len(s) \in Nat
      BY <1>2, ListShape
    <2>3. ASSUME NEW i \in DOMAIN s
          PROVE  IsList(Of(s[i])) /\ \A k \in DOMAIN Of(s[i]) : Of(s[i])[k].base \in DOMAIN bases
      <3> DEFINE e == s[i]
      <3>1. e.base \in DOMAIN bases
        BY <1>2 DEF StaticAccepted, Range
      <3>2. IsList(L(e))
        BY TargetIs DEF LegsOfEntry
      <3> HIDE DEF e, L
      <3>3. DOMAIN L(e) = 1..Len(L(e)) /\ Len(L(e)) \in Nat
        BY <3>2, ListShape
      <3>4. Of(e) = [k \in 1..Len(L(e)) |-> Of(e)[k]] /\ DOMAIN Of(e) = DOMAIN L(e)
            /\ \A k \in DOMAIN Of(e) : Of(e)[k].base = e.base
        BY <3>3
      <3> HIDE DEF Of
      <3>5. IsList(Of(e))
        BY <3>3, <3>4, ListOf
      <3> QED BY <3>1, <3>4, <3>5 DEF e
    <2> HIDE DEF Of
    <2>4. IsList(ss) /\ DOMAIN ss = DOMAIN s /\ \A i \in DOMAIN s : ss[i] = Of(s[i])
      <3>1. ss = [i \in 1..Len(s) |-> ss[i]] /\ DOMAIN ss = DOMAIN s /\ \A i \in DOMAIN s : ss[i] = Of(s[i])
        BY <2>2
      <3> HIDE DEF ss
      <3> QED BY <2>2, <3>1, ListOf
    <2> HIDE DEF ss, legs
    <2>5. IsList(legs)
      BY <2>1, <2>3, <2>4, FlattenReads
    <2>6. ASSUME NEW k \in DOMAIN legs PROVE legs[k].base \in DOMAIN bases
      <3>1. \A i \in DOMAIN ss : IsList(ss[i])
        BY <2>3, <2>4
      <3>2. PICK i \in DOMAIN ss : \E j \in DOMAIN ss[i] : legs[k] = ss[i][j]
        BY <2>1, <2>4, <3>1, FlattenRange
      <3> QED BY <2>3, <2>4, <3>2
    <2> QED BY <2>5, <2>6 DEF legs
  <1> QED BY <1>1, <1>2

\* A decided route that is accepted is built as one that can be decided.
LEMMA BuiltRouteIs ==
  ASSUME NEW entry, NEW bases, JevAccepted(entry, bases),
         IsList(entry.profiles), \A i \in DOMAIN entry.profiles : IsList(entry.profiles[i].bases),
         \A i, j \in DOMAIN entry.profiles : entry.profiles[i].name = entry.profiles[j].name => i = j,
         \/ entry.tiers = None
         \/ /\ IsList(entry.tiers)
            /\ \A i \in DOMAIN entry.tiers : IsList(entry.tiers[i].targets)
  PROVE  IsRoute(BuildJevRoute(entry, bases)) /\ Decidable(BuildJevRoute(entry, bases), bases)
  <1> DEFINE allowed == AnyTypesafeBase(bases)
             Row(i) == [x \in DOMAIN entry.tiers[i].targets |-> ExpandTarget(entry.tiers[i].targets[x], allowed)]
             tiers == BuiltTiers(entry, bases)
             profiles == [i \in DOMAIN entry.profiles |->
                           [name |-> entry.profiles[i].name, bases |-> entry.profiles[i].bases]]
             route == BuildJevRoute(entry, bases)
  <1>1. ProfilesAccepted(entry, bases) /\ TiersAccepted(entry, bases) /\ IsList(entry.tiers)
        /\ \A i \in DOMAIN entry.tiers : IsList(entry.tiers[i].targets)
    BY DEF JevAccepted
  <1>2. DOMAIN tiers = DOMAIN entry.tiers
        /\ \A i \in DOMAIN tiers : tiers[i] = [name |-> entry.tiers[i].name, bases |-> entry.tiers[i].bases,
                                              legs |-> FlattenSeq(Row(i))]
    BY DEF BuiltTiers, FlatMap
  <1>3. DOMAIN entry.tiers = 1..Len(entry.tiers) /\ Len(entry.tiers) \in Nat
    BY <1>1, ListShape
  <1>4. ASSUME NEW i \in DOMAIN entry.tiers
        PROVE  IsList(FlattenSeq(Row(i))) /\ FlattenSeq(Row(i)) # <<>>
    <2> DEFINE s == entry.tiers[i].targets
    <2>1. IsList(s) /\ s # <<>> /\ \A x \in DOMAIN s : ExpandTarget(s[x], allowed) # <<>>
      BY <1>1 DEF TiersAccepted, Range
    <2>2. DOMAIN s = 1..Len(s) /\ Len(s) \in Nat
      BY <2>1, ListShape
    <2>3. IsList(Row(i)) /\ DOMAIN Row(i) = DOMAIN s
          /\ \A x \in DOMAIN Row(i) : IsList(Row(i)[x]) /\ Row(i)[x] # <<>>
      <3>1. Row(i) = [x \in 1..Len(s) |-> Row(i)[x]] /\ DOMAIN Row(i) = DOMAIN s
            /\ \A x \in DOMAIN Row(i) : Row(i)[x] = ExpandTarget(s[x], allowed)
        BY <2>2
      <3> HIDE DEF Row, s
      <3> QED BY <2>1, <2>2, <3>1, ListOf, TargetIs
    <2>4. \A x : IsList(x) /\ x # <<>> => 1 \in DOMAIN x
      BY ListShape, EmptySeq DEF IsList
    <2> HIDE DEF Row, s
    <2>5. 1 \in DOMAIN Row(i) /\ 1 \in DOMAIN Row(i)[1]
      BY <2>1, <2>3, <2>4
    <2>6. FlattenSeq(Row(i)) # <<>>
      <3>1. PICK k \in DOMAIN FlattenSeq(Row(i)) : FlattenSeq(Row(i))[k] = Row(i)[1][1]
        BY <2>3, <2>5, FlattenRange
      <3> QED BY <3>1, NoElement
    <2> QED BY <2>3, <2>6, FlattenReads
  <1> HIDE DEF Row, tiers
  <1>5. IsList(tiers) /\ Len(tiers) = Len(entry.tiers)
    <2>1. tiers = [i \in 1..Len(entry.tiers) |-> tiers[i]]
      <3> USE DEF tiers
      <3> QED BY <1>3 DEF BuiltTiers
    <2> QED BY <1>3, <2>1, ListOf
  <1>6. IsList(profiles) /\ Len(profiles) = Len(entry.profiles) /\ DOMAIN profiles = DOMAIN entry.profiles
        /\ \A i \in DOMAIN profiles : profiles[i] = [name |-> entry.profiles[i].name, bases |-> entry.profiles[i].bases]
    <2>1. DOMAIN entry.profiles = 1..Len(entry.profiles) /\ Len(entry.profiles) \in Nat
      BY ListShape
    <2>2. profiles = [i \in 1..Len(entry.profiles) |-> profiles[i]] /\ DOMAIN profiles = DOMAIN entry.profiles
          /\ \A i \in DOMAIN profiles :
               profiles[i] = [name |-> entry.profiles[i].name, bases |-> entry.profiles[i].bases]
      BY <2>1
    <2> HIDE DEF profiles
    <2> QED BY <2>1, <2>2, ListOf
  <1>7. /\ route.profiles = profiles /\ route.tiers = tiers
        /\ route.defaultProfile = entry.router.defaultProfile /\ route.defaultTier = entry.router.defaultTier
    BY DEF BuildJevRoute, tiers
  <1> HIDE DEF profiles, route
  <1>8. /\ \A i \in DOMAIN profiles : profiles[i].name = entry.profiles[i].name /\ profiles[i].bases = entry.profiles[i].bases
        /\ \A i \in DOMAIN profiles : IsProfile(profiles[i])
    <2> SUFFICES ASSUME NEW i \in DOMAIN profiles
                 PROVE  /\ profiles[i].name = entry.profiles[i].name /\ profiles[i].bases = entry.profiles[i].bases
                        /\ IsProfile(profiles[i])
      OBVIOUS
    <2>1. /\ profiles[i] = [name |-> entry.profiles[i].name, bases |-> entry.profiles[i].bases]
          /\ IsList(entry.profiles[i].bases)
      BY <1>6
    <2>2. profiles[i].name = entry.profiles[i].name /\ profiles[i].bases = entry.profiles[i].bases
      BY <2>1
    <2> QED BY <2>1, <2>2 DEF IsProfile
  <1>9. /\ \A i \in DOMAIN tiers : tiers[i].name = entry.tiers[i].name /\ tiers[i].legs # <<>>
        /\ \A i \in DOMAIN tiers : IsTier(tiers[i])
    <2> SUFFICES ASSUME NEW i \in DOMAIN tiers
                 PROVE  tiers[i].name = entry.tiers[i].name /\ tiers[i].legs # <<>> /\ IsTier(tiers[i])
      OBVIOUS
    <2> DEFINE legs == FlattenSeq(Row(i))
    <2>1. tiers[i] = [name |-> entry.tiers[i].name, bases |-> entry.tiers[i].bases, legs |-> legs]
      BY <1>2
    <2>2. IsList(legs) /\ legs # <<>>
      BY <1>2, <1>4
    <2> HIDE DEF legs
    <2>3. /\ tiers[i].name = entry.tiers[i].name /\ tiers[i].bases = entry.tiers[i].bases
          /\ tiers[i].legs = legs
      BY <2>1
    <2> QED BY <2>1, <2>2, <2>3 DEF IsTier
  <1>10. IsRoute(route)
    BY <1>5, <1>6, <1>7, <1>8, <1>9 DEF IsRoute
  <1>11. Len(tiers) >= 2 /\ \A t \in Range(tiers) : t.legs # <<>>
    BY <1>1, <1>3, <1>5, <1>9 DEF TiersAccepted, Range
  <1>12. \E t \in Range(tiers) : t.name = route.defaultTier
    <2>1. PICK i \in DOMAIN entry.tiers : entry.tiers[i].name = entry.router.defaultTier
      BY <1>1 DEF TiersAccepted, Range
    <2>2. tiers[i] \in Range(tiers) /\ tiers[i].name = route.defaultTier
      BY <1>2, <1>7, <1>9, <2>1 DEF Range
    <2> QED BY <2>2
  <1>13. \A p \in Range(profiles) : p.bases # <<>> /\ Range(p.bases) \subseteq DOMAIN bases
    <2>1. \A i \in DOMAIN entry.profiles :
            entry.profiles[i].bases # <<>> /\ Range(entry.profiles[i].bases) \subseteq DOMAIN bases
      <3> SUFFICES ASSUME NEW i \in DOMAIN entry.profiles
                   PROVE  entry.profiles[i].bases # <<>> /\ Range(entry.profiles[i].bases) \subseteq DOMAIN bases
        OBVIOUS
      <3>1. entry.profiles[i] \in Range(entry.profiles)
        BY DEF Range
      <3> QED BY <1>1, <3>1 DEF ProfilesAccepted
    <2>2. \A p \in Range(profiles) : \E i \in DOMAIN entry.profiles : p = profiles[i]
      BY <1>6 DEF Range
    <2> QED BY <1>6, <1>8, <2>1, <2>2
  <1>14. profiles = <<>> \/ /\ Len(profiles) >= 2
                            /\ \E p \in Range(profiles) : p.name = route.defaultProfile
    <2>1. CASE entry.profiles = <<>>
      <3>1. Len(profiles) = 0 /\ profiles \in Seq(Range(profiles))
        BY <1>6, <2>1 DEF IsList
      <3> QED BY <3>1, EmptySeq
    <2>2. CASE entry.profiles # <<>>
      <3>1. Len(entry.profiles) \in 2..MaxTiers
            /\ \E p \in Range(entry.profiles) : p.name = entry.router.defaultProfile
        BY <1>1, <2>2 DEF ProfilesAccepted
      <3>2. PICK i \in DOMAIN entry.profiles : entry.profiles[i].name = entry.router.defaultProfile
        BY <3>1 DEF Range
      <3>3. profiles[i] \in Range(profiles) /\ profiles[i].name = route.defaultProfile
        BY <1>6, <1>7, <1>8, <3>2 DEF Range
      <3>4. Len(profiles) >= 2
        BY <1>6, <3>1
      <3> QED BY <3>3, <3>4
    <2> QED BY <2>1, <2>2
  <1>15. Decidable(route, bases)
    BY <1>7, <1>11, <1>12, <1>13, <1>14 DEF Decidable
  <1> QED BY <1>10, <1>15 DEF route

\* A file that is accepted gives a table.
LEMMA BuiltIs ==
  ASSUME NEW f \in Files, FromFile(f) # None
  PROVE  IsTable(FromFile(f))
  <1> DEFINE decided == {a \in DOMAIN f.routes : f.routes[a].strategy = "jev"}
             R(a) == BuildJevRoute(f.routes[a], f.bases)
             S(a) == IF a \in decided THEN FlattenJevToStatic(R(a), f.bases)
                     ELSE ExpandStaticLegs(f.routes[a], f.bases)
             tb == [catalog |-> f.bases, harnesses |-> f.harnesses,
                    jev |-> [a \in decided |-> R(a)], static |-> [a \in DOMAIN f.routes |-> S(a)]]
  <1>1. FromFile(f) = tb /\ \A a \in DOMAIN f.routes : EntryAccepted(f.routes[a], f.bases)
    BY DEF FromFile
  <1>2. ASSUME NEW a \in decided PROVE IsRoute(R(a)) /\ Decidable(R(a), f.bases)
    <2>1. a \in DOMAIN f.routes /\ f.routes[a].strategy = "jev"
      OBVIOUS
    <2>2. JevAccepted(f.routes[a], f.bases)
      <3>1. EntryAccepted(f.routes[a], f.bases)
        BY <1>1, <2>1
      <3>2. EntryAccepted(f.routes[a], f.bases) /\ f.routes[a].strategy # "static" =>
              f.routes[a].strategy = None \/ JevAccepted(f.routes[a], f.bases)
        BY <2>1 DEF EntryAccepted
      <3> QED BY <2>1, <3>1, <3>2, NoneAssumption
    <2> HIDE DEF decided
    <2> QED BY <2>1, <2>2, FilesAssumption, BuiltRouteIs
  <1>3. ASSUME NEW a \in DOMAIN f.routes
        PROVE  IsList(S(a)) /\ \A k \in DOMAIN S(a) : S(a)[k].base \in DOMAIN f.bases
    <2>1. CASE a \in decided
      <3>1. S(a) = FlattenJevToStatic(R(a), f.bases)
        BY <2>1
      <3> HIDE DEF S, R, decided
      <3> QED BY <1>2, <2>1, <3>1, FlattenedIs
    <2>2. CASE a \notin decided
      <3>1. S(a) = ExpandStaticLegs(f.routes[a], f.bases) /\ f.routes[a].strategy # "jev"
        BY <2>2
      <3>2. EntryAccepted(f.routes[a], f.bases)
        BY <1>1
      <3>3. StaticAccepted(f.routes[a], f.bases)
        BY <3>1, <3>2 DEF EntryAccepted
      <3> HIDE DEF S, decided
      <3> QED BY <3>1, <3>3, FilesAssumption, StaticLegsAre
    <2> QED BY <2>1, <2>2
  <1>4. None \notin DOMAIN f.bases /\ DOMAIN f.bases \subseteq Range(BaseOrder)
    BY FilesAssumption
  <1> HIDE DEF decided, R, S
  <1>5. IsTable(tb)
    BY <1>2, <1>3, <1>4 DEF IsTable
  <1> QED BY <1>1, <1>5

\* Every table a gateway may have is one; what was pruned is tidy.
LEMMA TablesAre ==
  ASSUME NEW tb \in Tables
  PROVE  IsTable(tb) /\ (tb \in Accepted \/ \A a \in DOMAIN tb.jev : Tidy(tb.jev[a], tb.catalog))
  <1>1. ASSUME NEW built \in Accepted PROVE IsTable(built)
    BY BuiltIs DEF Accepted
  <1>2. ASSUME NEW built \in Accepted, NEW drop \in Drops
        PROVE  IsTable(PrunedOf(built, drop))
               /\ \A a \in DOMAIN PrunedOf(built, drop).jev :
                    Tidy(PrunedOf(built, drop).jev[a], PrunedOf(built, drop).catalog)
    <2> DEFINE fewer == WithoutProviders(built, drop.providers)
               catalog == [b \in DOMAIN fewer.catalog \ drop.bases |-> fewer.catalog[b]]
    <2>1. IsTable(fewer)
      BY <1>1, PrunedIs DEF WithoutProviders
    <2>2. DOMAIN catalog \subseteq DOMAIN fewer.catalog
      OBVIOUS
    <2>3. PrunedOf(built, drop) = Pruned(fewer, catalog, {})
      BY DEF PrunedOf, WithoutBases
    <2> HIDE DEF fewer, catalog
    <2> QED BY <2>1, <2>2, <2>3, PrunedIs
  <1> QED BY <1>1, <1>2 DEF Tables

------------------------------------------------------------------------------
(* The order of a grid and the cells that are eligible. *)

\* The shape of a plan: a base that was left is not returned to, and the tiers
\* of each are climbed from start.
Ordered(plan, n, start) ==
  /\ \A i, k \in DOMAIN plan : \A j \in i..k :
       plan[i].base = plan[k].base => plan[j].base = plan[i].base
  /\ \A i, j \in DOMAIN plan :
       i < j /\ plan[i].base = plan[j].base => RankFrom(n, start, plan[i].tier) <= RankFrom(n, start, plan[j].tier)

CellsOf(plan) == {[base |-> c.base, tier |-> c.tier, leg |-> c.leg] : c \in Range(plan)}

\* The profile a cell is for lists its base, where there is a choice of profiles.
ForProfile(route, c) ==
  IF route.profiles = <<>> THEN c.profile = 0
  ELSE c.profile \in DOMAIN route.profiles /\ c.base \in Range(route.profiles[c.profile].bases)

\* What reads off the visits has that shape.
LEMMA ReadsOrdered ==
  ASSUME NEW plan, IsList(plan), NEW row, NEW V, IsList(V), NEW grid, NEW start,
         ReadsVisits(row, plan, V, grid, start)
  PROVE  Ordered(plan, Len(grid.tiers), start)
  <1>1. /\ DOMAIN plan = 1..Len(plan) /\ Len(plan) \in Nat
        /\ DOMAIN V = 1..Len(V) /\ Len(V) \in Nat
    BY ListShape
  <1>2. \A k \in DOMAIN plan : /\ row[k] \in DOMAIN V /\ plan[k].base = V[row[k]][2]
                              /\ \A r \in 1..(row[k] - 1) : V[r][2] # V[row[k]][2]
    BY DEF ReadsVisits, CellOf
  <1>3. \A k, m \in DOMAIN plan : k < m => row[k] <= row[m]
    BY <1>1, <1>2 DEF ReadsVisits
  <1>4. ASSUME NEW k \in DOMAIN plan, NEW m \in DOMAIN plan, k < m, plan[k].base = plan[m].base
        PROVE  row[k] = row[m]
    <2>1. row[k] \in Nat /\ row[m] \in Nat /\ row[k] >= 1 /\ row[k] <= row[m]
      BY <1>1, <1>2, <1>3, <1>4
    <2>2. CASE row[k] < row[m]
      <3>1. row[k] \in 1..(row[m] - 1)
        BY <2>1, <2>2
      <3> QED BY <1>2, <1>4, <3>1
    <2> QED BY <2>1, <2>2
  <1>5. ASSUME NEW i \in DOMAIN plan, NEW k \in DOMAIN plan, NEW j \in i..k, plan[i].base = plan[k].base
        PROVE  plan[j].base = plan[i].base
    <2>1. j \in DOMAIN plan /\ j \in Nat /\ i \in Nat /\ k \in Nat /\ i <= j /\ j <= k
      BY <1>1
    <2>2. CASE i < j /\ j < k
      <3>1. row[i] = row[k]
        BY <1>4, <1>5, <2>1, <2>2
      <3>2. row[i] <= row[j] /\ row[j] <= row[k]
        BY <1>3, <2>1, <2>2
      <3>3. row[i] \in Nat /\ row[j] \in Nat /\ row[k] \in Nat
        BY <1>1, <1>2, <2>1
      <3>4. row[i] = row[j]
        BY <3>1, <3>2, <3>3
      <3> QED BY <1>2, <2>1, <3>4
    <2>3. j = i \/ j = k \/ (i < j /\ j < k)
      BY <2>1
    <2> QED BY <1>5, <2>2, <2>3
  <1>6. ASSUME NEW i \in DOMAIN plan, NEW j \in DOMAIN plan, i < j, plan[i].base = plan[j].base
        PROVE  RankFrom(Len(grid.tiers), start, plan[i].tier) <= RankFrom(Len(grid.tiers), start, plan[j].tier)
    <2>0. i \in Nat /\ j \in Nat /\ row[i] \in Nat
      BY <1>1, <1>2
    <2>1. row[i] = row[j] /\ row[i] \in Nat
      BY <1>4, <1>6, <2>0
    <2>2. \/ row[i] < row[j]
          \/ RankFrom(Len(grid.tiers), start, plan[i].tier) <= RankFrom(Len(grid.tiers), start, plan[j].tier)
      BY <1>6 DEF ReadsVisits
    <2> QED BY <2>1, <2>2
  <1> QED BY <1>5, <1>6 DEF Ordered

\* What an eligible cell is.
Eligible(route, catalog, reqs, b, t, l) ==
  [base |-> b, tier |-> t, leg |-> l] \in EligibleCells(route, catalog, reqs)

\* Which cells are eligible, spelled out.
LEMMA EligibleIs ==
  ASSUME NEW route, NEW catalog, NEW reqs, NEW b, NEW t, NEW l
  PROVE  Eligible(route, catalog, reqs, b, t, l) <=>
           /\ b \in Able(catalog, reqs) /\ t \in DOMAIN route.tiers /\ l \in Range(route.tiers[t].legs)
           /\ Allows(route.tiers[t], b) /\ Compatible(catalog, reqs, b, l)
           /\ route.profiles = <<>> \/ \E p \in Range(route.profiles) : b \in Range(p.bases)
  <1> DEFINE legs == UNION {Range(u.legs) : u \in Range(route.tiers)}
             c == [base |-> b, tier |-> t, leg |-> l]
  <1>1. t \in DOMAIN route.tiers /\ l \in Range(route.tiers[t].legs) => l \in legs
    BY DEF Range
  <1>2. c.base = b /\ c.tier = t /\ c.leg = l
    OBVIOUS
  <1>3. c \in [base : DOMAIN catalog, tier : DOMAIN route.tiers, leg : legs] <=>
          b \in DOMAIN catalog /\ t \in DOMAIN route.tiers /\ l \in legs
    OBVIOUS
  <1> HIDE DEF c, legs
  <1>4. Eligible(route, catalog, reqs, b, t, l) <=>
          /\ c \in [base : DOMAIN catalog, tier : DOMAIN route.tiers, leg : legs]
          /\ c.leg \in Range(route.tiers[c.tier].legs) /\ Allows(route.tiers[c.tier], c.base)
          /\ Speaks(catalog[c.base], c.leg)
          /\ route.profiles = <<>> \/ \E p \in Range(route.profiles) : c.base \in Range(p.bases)
          /\ reqs.base \in {None, c.base} /\ reqs.needs \subseteq catalog[c.base].able
          /\ reqs.model \in {None, c.leg.model}
          /\ reqs.native => c.leg.provider = "vertex"
          /\ reqs.vision => c.leg.model \notin TextOnlyModels
    BY DEF Eligible, EligibleCells, c, legs
  <1> QED BY <1>1, <1>2, <1>3, <1>4 DEF Able, Compatible

\* The cells of the visits of a grid are the eligible cells.
LEMMA GridCells ==
  ASSUME NEW route, IsRoute(route), NEW catalog, DOMAIN catalog \subseteq Range(BaseOrder), NEW reqs,
         EligibleGrid(route, catalog, reqs) # None, NEW b, NEW t, NEW l
  PROVE  LET grid == EligibleGrid(route, catalog, reqs) IN
         Eligible(route, catalog, reqs, b, t, l) <=>
           Takes(grid.bases, grid.tiers, b, t, l) /\ \E p : <<p, b>> \in VisitsOf(grid)
  <1> DEFINE grid == EligibleGrid(route, catalog, reqs)
             able == Able(catalog, reqs)
             useful == Useful(route, catalog, reqs)
             candidates == IF route.profiles = <<>> THEN able
                           ELSE UNION {Range(p.bases) : p \in Range(grid.profiles)}
  <1>1. /\ IsGrid(grid) /\ DOMAIN grid.profiles = DOMAIN route.profiles
        /\ DOMAIN grid.tiers = DOMAIN route.tiers
        /\ DOMAIN grid.bases = able /\ \A x \in able : grid.bases[x] = catalog[x]
        /\ \A i \in DOMAIN route.profiles :
             Range(grid.profiles[i].bases) = Range(route.profiles[i].bases) \cap useful
        /\ \A i \in DOMAIN route.tiers :
             /\ grid.tiers[i].bases = route.tiers[i].bases
             /\ Range(grid.tiers[i].legs) = {x \in Range(route.tiers[i].legs) :
                  \E y \in candidates : Allows(route.tiers[i], y) /\ Compatible(catalog, reqs, y, x)}
    BY GridIs
  <1>2. grid.profiles = <<>> <=> route.profiles = <<>>
    <2>1. \A s : IsList(s) => (s = <<>> <=> DOMAIN s = {})
      <3> SUFFICES ASSUME NEW s, IsList(s) PROVE s = <<>> <=> DOMAIN s = {}
        OBVIOUS
      <3>1. DOMAIN s = 1..Len(s) /\ Len(s) \in Nat /\ s \in Seq(Range(s))
        BY ListShape DEF IsList
      <3>2. DOMAIN s = {} => Len(s) = 0
        BY <3>1
      <3> QED BY <3>1, <3>2, EmptySeq, NoElement
    <2> QED BY <1>1, <2>1 DEF IsRoute, IsGrid
  <1> HIDE DEF grid, able, useful
  <1>3. useful = {x \in able : \E u \in Range(route.tiers) :
          Allows(u, x) /\ \E y \in Range(u.legs) : Compatible(catalog, reqs, x, y)}
    BY DEF Useful, useful, able
  <1>4. /\ able \subseteq DOMAIN catalog
        /\ \A x, y : x \in able => (Compatible(catalog, reqs, x, y) => Speaks(catalog[x], y))
    BY DEF able, Able, Compatible
  <1>5. \A i \in DOMAIN route.tiers : \A x : Allows(grid.tiers[i], x) <=> Allows(route.tiers[i], x)
    BY <1>1 DEF Allows
  <1>6. (\E p : <<p, b>> \in VisitsOf(grid)) <=>
          IF route.profiles = <<>> THEN b \in able /\ b \in Range(BaseOrder)
          ELSE \E i \in DOMAIN route.profiles : b \in Range(route.profiles[i].bases) /\ b \in useful
    <2>1. CASE route.profiles = <<>>
      BY <1>1, <1>2, <2>1 DEF VisitsOf
    <2>2. CASE route.profiles # <<>>
      <3>1. ASSUME NEW p, <<p, b>> \in VisitsOf(grid)
            PROVE  p \in DOMAIN route.profiles /\ b \in Range(route.profiles[p].bases) /\ b \in useful
        <4>1. PICK i \in DOMAIN grid.profiles : <<p, b>> \in {i} \X Range(grid.profiles[i].bases)
          BY <1>2, <2>2, <3>1 DEF VisitsOf
        <4> QED BY <1>1, <4>1
      <3>2. ASSUME NEW i \in DOMAIN route.profiles, b \in Range(route.profiles[i].bases), b \in useful
            PROVE  <<i, b>> \in VisitsOf(grid)
        <4>1. b \in Range(grid.profiles[i].bases)
          BY <1>1, <3>2
        <4>2. <<i, b>> \in {i} \X Range(grid.profiles[i].bases)
          BY <4>1
        <4> QED BY <1>1, <1>2, <2>2, <4>2 DEF VisitsOf
      <3> QED BY <2>2, <3>1, <3>2
    <2> QED BY <2>1, <2>2
  <1>7. (\E p \in Range(route.profiles) : b \in Range(p.bases)) <=>
          \E i \in DOMAIN route.profiles : b \in Range(route.profiles[i].bases)
    BY DEF Range
  <1>8. ASSUME Eligible(route, catalog, reqs, b, t, l)
        PROVE  Takes(grid.bases, grid.tiers, b, t, l) /\ \E p : <<p, b>> \in VisitsOf(grid)
    <2>1. /\ b \in able /\ t \in DOMAIN route.tiers /\ l \in Range(route.tiers[t].legs)
          /\ Allows(route.tiers[t], b) /\ Compatible(catalog, reqs, b, l)
          /\ route.profiles = <<>> \/ \E p \in Range(route.profiles) : b \in Range(p.bases)
      BY <1>8, EligibleIs DEF able
    <2>2. b \in useful
      <3>1. route.tiers[t] \in Range(route.tiers)
        BY <2>1 DEF Range
      <3> QED BY <1>3, <2>1, <3>1
    <2>3. \E p : <<p, b>> \in VisitsOf(grid)
      BY <1>4, <1>6, <1>7, <2>1, <2>2
    <2>4. b \in candidates
      <3>1. CASE route.profiles = <<>>
        BY <2>1, <3>1
      <3>2. CASE route.profiles # <<>>
        <4>1. PICK i \in DOMAIN route.profiles : b \in Range(route.profiles[i].bases)
          BY <1>7, <2>1, <3>2
        <4>2. grid.profiles[i] \in Range(grid.profiles) /\ b \in Range(grid.profiles[i].bases)
          BY <1>1, <2>2, <4>1 DEF Range
        <4> QED BY <3>2, <4>2
      <3> QED BY <3>1, <3>2
    <2> HIDE DEF candidates
    <2>5. l \in Range(grid.tiers[t].legs)
      BY <1>1, <2>1, <2>4
    <2>6. Speaks(grid.bases[b], l)
      BY <1>1, <1>4, <2>1
    <2> QED BY <1>1, <1>5, <2>1, <2>3, <2>5, <2>6 DEF Takes
  <1>9. ASSUME Takes(grid.bases, grid.tiers, b, t, l), NEW p, <<p, b>> \in VisitsOf(grid)
        PROVE  Eligible(route, catalog, reqs, b, t, l)
    <2>1. /\ b \in able /\ t \in DOMAIN route.tiers /\ l \in Range(grid.tiers[t].legs)
          /\ Allows(route.tiers[t], b) /\ Speaks(catalog[b], l)
      BY <1>1, <1>5, <1>9 DEF Takes
    <2> HIDE DEF candidates
    <2>2. l \in Range(route.tiers[t].legs) /\ \E y \in candidates : Compatible(catalog, reqs, y, l)
      BY <1>1, <2>1
    <2>3. Compatible(catalog, reqs, b, l)
      BY <2>1, <2>2 DEF Compatible
    <2>4. route.profiles = <<>> \/ \E q \in Range(route.profiles) : b \in Range(q.bases)
      BY <1>6, <1>7, <1>9
    <2> QED BY <2>1, <2>2, <2>3, <2>4, EligibleIs DEF able
  <1> QED BY <1>8, <1>9 DEF grid

------------------------------------------------------------------------------
(* The plan of a grid. *)

\* A plan over a route's grid: the eligible cells, each once, in that order.
GridPlan(plan, route, catalog, reqs) ==
  /\ CellsOf(plan) = EligibleCells(route, catalog, reqs)
  /\ Len(plan) = Cardinality(EligibleCells(route, catalog, reqs))
  /\ \E start \in 1..Len(route.tiers) : Ordered(plan, Len(route.tiers), start)

\* Each cell is for its profile, on a base that the catalog has and the request allows.
CellsFit(plan, route, catalog, reqs) ==
  \A k \in DOMAIN plan : /\ ForProfile(route, plan[k]) /\ plan[k].base \in DOMAIN catalog
                          /\ reqs.base \in {None, plan[k].base}

\* A turn bound to a base that the chosen profile lists runs for that profile.
StaysWith(plan, route, chosen, base) ==
  /\ route.profiles # <<>> /\ chosen # 0 /\ base # None /\ base \in Range(route.profiles[chosen].bases)
  => \A k \in DOMAIN plan : plan[k].profile = chosen

\* What OrderGrid makes of the eligible grid is a plan of exactly its cells,
\* in order, each for its profile, and it stays with a bound profile.
LEMMA GridPlanIs ==
  ASSUME NEW route, IsRoute(route), NEW catalog, DOMAIN catalog \subseteq Range(BaseOrder), NEW reqs,
         EligibleGrid(route, catalog, reqs) # None,
         NEW chosen, route.profiles # <<>> => chosen \in {0} \cup DOMAIN route.profiles,
         NEW start \in DOMAIN route.tiers
  PROVE  LET plan == OrderGrid(EligibleGrid(route, catalog, reqs), route, chosen, start) IN
         /\ IsList(plan) /\ GridPlan(plan, route, catalog, reqs)
         /\ CellsFit(plan, route, catalog, reqs) /\ StaysWith(plan, route, chosen, reqs.base)
  <1> DEFINE grid == EligibleGrid(route, catalog, reqs)
             V == Visits(grid, route, chosen)
             plan == OrderGrid(grid, route, chosen, start)
             cells == EligibleCells(route, catalog, reqs)
  <1>1. /\ IsGrid(grid) /\ DOMAIN grid.profiles = DOMAIN route.profiles
        /\ DOMAIN grid.tiers = DOMAIN route.tiers /\ DOMAIN grid.bases = Able(catalog, reqs)
        /\ \A i \in DOMAIN route.profiles :
             Range(grid.profiles[i].bases) = Range(route.profiles[i].bases) \cap Useful(route, catalog, reqs)
    BY GridIs
  <1>2. \A b, t, l : Eligible(route, catalog, reqs, b, t, l) <=>
           Takes(grid.bases, grid.tiers, b, t, l) /\ \E p : <<p, b>> \in VisitsOf(grid)
    BY GridCells
  <1> HIDE DEF grid
  <1>3. Len(grid.tiers) = Len(route.tiers) /\ Len(route.tiers) \in Nat /\ DOMAIN route.tiers = 1..Len(route.tiers)
    <2>1. /\ DOMAIN route.tiers = 1..Len(route.tiers) /\ Len(route.tiers) \in Nat
          /\ DOMAIN grid.tiers = 1..Len(grid.tiers) /\ Len(grid.tiers) \in Nat
      BY <1>1, ListShape DEF IsGrid, IsRoute
    <2> QED BY <1>1, <2>1
  <1>4. grid.profiles = <<>> <=> route.profiles = <<>>
    <2>1. \A s : IsList(s) => (s = <<>> <=> DOMAIN s = {})
      <3> SUFFICES ASSUME NEW s, IsList(s) PROVE s = <<>> <=> DOMAIN s = {}
        OBVIOUS
      <3>1. DOMAIN s = 1..Len(s) /\ Len(s) \in Nat /\ s \in Seq(Range(s))
        BY ListShape DEF IsList
      <3>2. DOMAIN s = {} => Len(s) = 0
        BY <3>1
      <3> QED BY <3>1, <3>2, EmptySeq, NoElement
    <2> QED BY <1>1, <2>1 DEF IsRoute, IsGrid
  <1>5. grid.profiles # <<>> => /\ chosen \in {0} \cup DOMAIN grid.profiles
                                /\ DefaultProfileIndex(route) \in DOMAIN grid.profiles
    BY <1>1, <1>4, DefaultProfileIs DEF IsRoute
  <1>6. /\ IsList(V) /\ Range(V) = VisitsOf(grid)
        /\ grid.profiles # <<>> /\ chosen # 0 =>
             ChosenFirst(V, Range(grid.profiles[chosen].bases), chosen)
    <2>1. IsGrid(grid)
      BY <1>1
    <2>2. IsList(V) /\ Range(V) = VisitsOf(grid)
      BY <1>5, <2>1, VisitsAre
    <2>3. grid.profiles # <<>> /\ chosen # 0 => ChosenFirst(V, Range(grid.profiles[chosen].bases), chosen)
      BY <1>5, <2>1, VisitsAre
    <2> QED BY <2>2, <2>3
  <1>7. IsList(plan) /\ \E row : ReadsVisits(row, plan, V, grid, start)
    <2>1. start \in Nat /\ start >= 1 /\ start <= Len(grid.tiers) + 1
      BY <1>3
    <2> QED BY <1>1, <1>5, <2>1, OrderGridReads
  <1> HIDE DEF V, plan
  <1>8. PICK row : ReadsVisits(row, plan, V, grid, start)
    BY <1>7
  <1>9. /\ DOMAIN plan = 1..Len(plan) /\ Len(plan) \in Nat
        /\ DOMAIN V = 1..Len(V) /\ Len(V) \in Nat
    BY <1>6, <1>7, ListShape
  <1>10. Ordered(plan, Len(route.tiers), start)
    BY <1>3, <1>6, <1>7, <1>8, ReadsOrdered
  <1>11. ASSUME NEW k \in DOMAIN plan
         PROVE  /\ row[k] \in DOMAIN V /\ V[row[k]] = <<plan[k].profile, plan[k].base>>
                /\ <<plan[k].profile, plan[k].base>> \in VisitsOf(grid)
                /\ Takes(grid.bases, grid.tiers, plan[k].base, plan[k].tier, plan[k].leg)
                /\ \A r \in 1..(row[k] - 1) : V[r][2] # plan[k].base
    <2>1. PICK t, l : /\ Takes(grid.bases, grid.tiers, V[row[k]][2], t, l)
                      /\ plan[k] = CellOf(V[row[k]][1], V[row[k]][2], t, l)
      BY <1>8 DEF ReadsVisits
    <2>2. row[k] \in DOMAIN V /\ \A r \in 1..(row[k] - 1) : V[r][2] # V[row[k]][2]
      BY <1>8 DEF ReadsVisits
    <2>3. V[row[k]] \in VisitsOf(grid)
      BY <1>6, <2>2 DEF Range
    <2>4. V[row[k]] = <<V[row[k]][1], V[row[k]][2]>>
      BY <2>3 DEF VisitsOf
    <2>5. /\ plan[k].profile = V[row[k]][1] /\ plan[k].base = V[row[k]][2]
          /\ plan[k].tier = t /\ plan[k].leg = l
      BY <2>1 DEF CellOf
    <2> QED BY <2>1, <2>2, <2>3, <2>4, <2>5
  <1> DEFINE F == [k \in DOMAIN plan |-> [base |-> plan[k].base, tier |-> plan[k].tier, leg |-> plan[k].leg]]
  <1>12. ASSUME NEW k \in DOMAIN plan PROVE F[k] \in cells
    <2>1. Eligible(route, catalog, reqs, plan[k].base, plan[k].tier, plan[k].leg)
      BY <1>2, <1>11
    <2> QED BY <2>1 DEF Eligible
  <1>13. ASSUME NEW c \in cells PROVE \E k \in DOMAIN plan : F[k] = c
    <2>1. c = [base |-> c.base, tier |-> c.tier, leg |-> c.leg]
      BY DEF EligibleCells
    <2>2. Eligible(route, catalog, reqs, c.base, c.tier, c.leg)
      BY <2>1 DEF Eligible
    <2>3. PICK p : Takes(grid.bases, grid.tiers, c.base, c.tier, c.leg) /\ <<p, c.base>> \in VisitsOf(grid)
      BY <1>2, <2>2
    <2>4. PICK r \in DOMAIN V : V[r] = <<p, c.base>>
      BY <1>6, <2>3 DEF Range
    <2>5. Takes(grid.bases, grid.tiers, V[r][2], c.tier, c.leg) /\ V[r][2] = c.base
      BY <2>3, <2>4
    <2>6. PICK k \in DOMAIN plan : plan[k].base = V[r][2] /\ plan[k].tier = c.tier /\ plan[k].leg = c.leg
      BY <1>8, <2>5 DEF ReadsVisits
    <2> QED BY <2>1, <2>5, <2>6
  <1>14. \A j, k \in DOMAIN plan : F[j] = F[k] => j = k
    <2> SUFFICES ASSUME NEW j \in DOMAIN plan, NEW k \in DOMAIN plan, F[j] = F[k] PROVE j = k
      OBVIOUS
    <2>1. plan[j].base = plan[k].base /\ plan[j].tier = plan[k].tier /\ plan[j].leg = plan[k].leg
      <3> DEFINE c == F[j]
                 d == F[k]
      <3>1. c.base = plan[j].base /\ c.tier = plan[j].tier /\ c.leg = plan[j].leg
        OBVIOUS
      <3>2. d.base = plan[k].base /\ d.tier = plan[k].tier /\ d.leg = plan[k].leg
        OBVIOUS
      <3> QED BY <3>1, <3>2
    <2>2. SameCell(plan[j], plan[k]) /\ SameCell(plan[k], plan[j])
      BY <2>1 DEF SameCell
    <2>3. ~ (j < k) /\ ~ (k < j)
      BY <1>8, <2>2 DEF ReadsVisits
    <2>4. j \in Nat /\ k \in Nat
      BY <1>9
    <2> QED BY <2>3, <2>4
  <1>15. CellsOf(plan) = cells
    <2>1. CellsOf(plan) = {F[k] : k \in DOMAIN plan}
      BY DEF CellsOf, Range
    <2> HIDE DEF F, cells
    <2> QED BY <1>12, <1>13, <2>1
  <1>16. Len(plan) = Cardinality(cells)
    <2>1. F \in [1..Len(plan) -> cells] /\ DOMAIN F = 1..Len(plan)
      BY <1>9, <1>12
    <2> HIDE DEF F, cells
    <2>2. F \in Bijection(1..Len(plan), cells)
      BY <1>9, <1>13, <1>14, <2>1 DEF Bijection, Injection, Surjection, IsInjective
    <2>3. IsFiniteSet(1..Len(plan)) /\ Cardinality(1..Len(plan)) = Len(plan)
      <3> DEFINE n == Len(plan)
      <3>1. 1 \in Int /\ n \in Int /\ n >= 0
        BY <1>9
      <3> HIDE DEF n
      <3>2. IsFiniteSet(1..n) /\ Cardinality(1..n) = IF 1 > n THEN 0 ELSE n - 1 + 1
        BY <3>1, FS_Interval
      <3>3. Cardinality(1..n) = n
        BY <3>1, <3>2
      <3> QED BY <3>2, <3>3 DEF n
    <2>4. ExistsBijection(1..Len(plan), cells)
      BY <2>2 DEF ExistsBijection
    <2> QED BY <2>3, <2>4, FS_Bijection
  <1>17. GridPlan(plan, route, catalog, reqs)
    <2>1. start \in 1..Len(route.tiers)
      BY <1>3
    <2> QED BY <1>10, <1>15, <1>16, <2>1 DEF GridPlan
  <1>18. ASSUME NEW k \in DOMAIN plan
         PROVE  /\ plan[k].base \in DOMAIN catalog /\ reqs.base \in {None, plan[k].base}
                /\ ForProfile(route, plan[k])
                /\ route.profiles # <<>> => plan[k].base \in Useful(route, catalog, reqs)
    <2>1. plan[k].base \in Able(catalog, reqs)
      BY <1>1, <1>11 DEF Takes
    <2>2. plan[k].base \in DOMAIN catalog /\ reqs.base \in {None, plan[k].base}
      BY <2>1 DEF Able
    <2>3. CASE route.profiles = <<>>
      <3>1. plan[k].profile = 0
        BY <1>4, <1>11, <2>3 DEF VisitsOf
      <3> QED BY <2>2, <2>3, <3>1 DEF ForProfile
    <2>4. CASE route.profiles # <<>>
      <3>1. PICK i \in DOMAIN grid.profiles :
              <<plan[k].profile, plan[k].base>> \in {i} \X Range(grid.profiles[i].bases)
        BY <1>4, <1>11, <2>4 DEF VisitsOf
      <3>2. plan[k].profile \in DOMAIN grid.profiles /\ plan[k].base \in Range(grid.profiles[plan[k].profile].bases)
        BY <3>1
      <3> QED BY <1>1, <2>2, <2>4, <3>2 DEF ForProfile
    <2> QED BY <2>3, <2>4
  <1>19. ASSUME route.profiles # <<>>, chosen # 0, reqs.base # None,
                reqs.base \in Range(route.profiles[chosen].bases), NEW k \in DOMAIN plan
         PROVE  plan[k].profile = chosen
    <2>1. plan[k].base = reqs.base /\ plan[k].base \in Useful(route, catalog, reqs)
      BY <1>18, <1>19
    <2>2. plan[k].base \in Range(grid.profiles[chosen].bases)
      BY <1>1, <1>19, <2>1
    <2>3. SUFFICES ASSUME plan[k].profile # chosen PROVE FALSE
      OBVIOUS
    <2>4. V[row[k]][1] # chosen /\ row[k] \in DOMAIN V
      <3> DEFINE p == plan[k].profile
                 b == plan[k].base
      <3>1. V[row[k]] = <<p, b>> /\ row[k] \in DOMAIN V /\ p # chosen
        BY <1>11, <2>3
      <3> HIDE DEF p, b
      <3> QED BY <3>1
    <2>5. PICK j \in 1..(row[k] - 1) : V[j] = <<chosen, plan[k].base>>
      BY <1>4, <1>6, <1>19, <2>2, <2>4 DEF ChosenFirst
    <2>6. V[j][2] = plan[k].base
      <3> DEFINE b == plan[k].base
      <3>1. V[j] = <<chosen, b>>
        BY <2>5
      <3> HIDE DEF b
      <3>2. V[j][2] = b
        BY <3>1
      <3> QED BY <3>2 DEF b
    <2>7. \A r \in 1..(row[k] - 1) : V[r][2] # plan[k].base
      BY <1>11
    <2> QED BY <2>5, <2>6, <2>7
  <1>20. CellsFit(plan, route, catalog, reqs) /\ StaysWith(plan, route, chosen, reqs.base)
    BY <1>18, <1>19 DEF CellsFit, StaysWith
  <1> QED BY <1>7, <1>17, <1>20 DEF plan, grid

------------------------------------------------------------------------------
(* The invariant of the turns and the responses. *)

\* HarnessConfig, RouteOf and Requirements for a given table and turn.
ConfigIn(tb, h) ==
  IF h \in DOMAIN tb.harnesses THEN tb.harnesses[h] ELSE [base |-> AutoBase, route |-> h, needs |-> {}]
RouteIn(tb, h) == LET route == ConfigIn(tb, h).route IN IF route = None THEN h ELSE route
RequirementsIn(tb, rec) == ExtractRequirements(rec.ask, ConfigIn(tb, rec.harness), rec.prior)
NameIn(tb, h, i) == IF i = 0 THEN None ELSE tb.jev[RouteIn(tb, h)].profiles[i].name

\* A session of harness h may be pinned to a base and a profile.
Pinned(tb, h, profile, base) ==
  /\ base # None
  /\ IF RouteIn(tb, h) \in DOMAIN tb.jev /\ tb.jev[RouteIn(tb, h)].profiles # <<>>
     THEN \E i \in DOMAIN tb.jev[RouteIn(tb, h)].profiles :
            /\ tb.jev[RouteIn(tb, h)].profiles[i].name = profile
            /\ base \in Range(tb.jev[RouteIn(tb, h)].profiles[i].bases)
     ELSE profile = None

IsRecord(tb, r) ==
  /\ r = [session |-> r.session, harness |-> r.harness, profile |-> r.profile, base |-> r.base, count |-> r.count]
  /\ r.count \in Nat /\ Pinned(tb, r.harness, r.profile, r.base)

\* A turn starts a session, or knows the answer it continues and is of its session.
Continues(stored, rec) ==
  \/ rec.previous = 0 /\ rec.prior = None
  \/ /\ rec.previous \in DOMAIN stored /\ rec.prior = stored[rec.previous] /\ rec.prior # None
     /\ rec.harness = rec.prior.harness /\ rec.session = rec.prior.session

\* A turn may walk a plan: whatever cell serves, the session stays where it is.
PlanFits(tb, rec, plan) ==
  /\ IsList(plan)
  /\ \A k \in DOMAIN plan :
       /\ Pinned(tb, rec.harness, NameIn(tb, rec.harness, plan[k].profile), plan[k].base)
       /\ rec.prior # None => /\ plan[k].base = rec.prior.base
                              /\ NameIn(tb, rec.harness, plan[k].profile) = rec.prior.profile
  /\ RouteIn(tb, rec.harness) \in DOMAIN tb.jev =>
       GridPlan(plan, tb.jev[RouteIn(tb, rec.harness)], tb.catalog, RequirementsIn(tb, rec))

Working == {"acquire", "plan", "deciding", "running", "leaving"}

GoodTurn(tb, stored, rec) ==
  /\ DOMAIN rec = DOMAIN NoTurn
  /\ rec.pc \in {"none", "ended"} \cup Working
  /\ rec.pc \in Working => Continues(stored, rec)
  /\ rec.pc = "deciding" => /\ RouteIn(tb, rec.harness) \in DOMAIN tb.jev
                            /\ EligibleGrid(tb.jev[RouteIn(tb, rec.harness)], tb.catalog, RequirementsIn(tb, rec)) # None
  /\ rec.pc = "running" => PlanFits(tb, rec, rec.plan) /\ rec.at \in DOMAIN rec.plan

TurnsGood == DOMAIN turn = Turns /\ \A t \in Turns : GoodTurn(table, responses, turn[t])
ResponsesGood ==
  \A r \in DOMAIN responses :
    r \in Turns /\ turn[r].pc \in {"leaving", "ended"} /\ IsRecord(table, responses[r])
SessionInv == table \in Tables /\ TurnsGood /\ ResponsesGood /\ SessionStaysPut

\* A step of turn t that stores nothing.
LEMMA StepKeeps ==
  ASSUME SessionInv, NEW t \in Turns, NEW next, turn' = [turn EXCEPT ![t] = next],
         table' = table, responses' = responses, GoodTurn(table, responses, next),
         t \in DOMAIN responses => next.pc \in {"leaving", "ended"} /\ next.previous = turn[t].previous
  PROVE  SessionInv'
  <1>1. turn'[t] = next /\ \A u \in Turns \ {t} : turn'[u] = turn[u]
    BY DEF SessionInv, TurnsGood
  <1>2. TurnsGood'
    BY <1>1 DEF SessionInv, TurnsGood
  <1>3. ResponsesGood'
    BY <1>1 DEF SessionInv, ResponsesGood
  <1>4. SessionStaysPut'
    <2>1. \A r \in DOMAIN responses : r \in Turns /\ turn'[r].previous = turn[r].previous
      BY <1>1 DEF SessionInv, ResponsesGood
    <2> QED BY <2>1 DEF SessionInv, SessionStaysPut
  <1> QED BY <1>2, <1>3, <1>4 DEF SessionInv

\* A turn that goes on is the same turn.
SameTurn(rec, next) ==
  /\ DOMAIN next = DOMAIN rec /\ next.previous = rec.previous /\ next.prior = rec.prior
  /\ next.harness = rec.harness /\ next.session = rec.session /\ next.ask = rec.ask

\* A turn that goes on keeps what it continues and what its plan must fit.
LEMMA SameTurnContinues ==
  ASSUME NEW tb, NEW stored, NEW rec, GoodTurn(tb, stored, rec), rec.pc \in Working,
         NEW next, SameTurn(rec, next)
  PROVE  /\ DOMAIN next = DOMAIN NoTurn /\ Continues(stored, next)
         /\ RequirementsIn(tb, next) = RequirementsIn(tb, rec)
         /\ \A plan : PlanFits(tb, next, plan) <=> PlanFits(tb, rec, plan)
  <1>1. Continues(stored, next) /\ DOMAIN next = DOMAIN NoTurn
    BY DEF GoodTurn, SameTurn, Continues
  <1>2. RequirementsIn(tb, next) = RequirementsIn(tb, rec)
    BY DEF SameTurn, RequirementsIn
  <1>3. ASSUME NEW plan PROVE PlanFits(tb, next, plan) <=> PlanFits(tb, rec, plan)
    BY <1>2 DEF PlanFits, SameTurn
  <1> QED BY <1>1, <1>2, <1>3

\* A finished turn keeps only what it continued.
LEMMA EndedIs ==
  ASSUME NEW record, NEW result, NEW tb, NEW stored
  PROVE  /\ GoodTurn(tb, stored, Ended(record, result))
         /\ Ended(record, result).pc = "ended" /\ Ended(record, result).previous = record.previous
  <1>1. /\ DOMAIN Ended(record, result) = DOMAIN NoTurn
        /\ Ended(record, result).pc = "ended" /\ Ended(record, result).previous = record.previous
    BY DEF Ended, NoTurn
  <1> QED BY <1>1 DEF GoodTurn, Working

\* A turn refused at its start or its place keeps the invariant.
LEMMA RefusedKeeps ==
  ASSUME SessionInv, NEW t \in Turns, NEW record, NEW result, Refused(t, record, result),
         table' = table, responses' = responses,
         t \in DOMAIN responses => record.previous = turn[t].previous
  PROVE  SessionInv'
  <1> DEFINE next == Ended(record, result)
  <1>1. turn' = [turn EXCEPT ![t] = next]
    BY DEF Refused
  <1>2. GoodTurn(table, responses, next) /\ next.pc = "ended" /\ next.previous = record.previous
    BY EndedIs
  <1> HIDE DEF next
  <1> QED BY <1>1, <1>2, StepKeeps

\* A turn that leaves with a result keeps the invariant.
LEMMA LeavesKeeps ==
  ASSUME SessionInv, NEW t \in Turns, turn[t].pc \in Working, NEW result, Leaves(t, result),
         table' = table, responses' = responses
  PROVE  SessionInv'
  <1> DEFINE next == [turn[t] EXCEPT !.pc = "leaving", !.result = result]
  <1>1. turn' = [turn EXCEPT ![t] = next]
    BY DEF Leaves, SessionInv, TurnsGood
  <1>2. GoodTurn(table, responses, turn[t])
    BY DEF SessionInv, TurnsGood
  <1>3. SameTurn(turn[t], next) /\ next.pc = "leaving"
    BY <1>2 DEF SameTurn, GoodTurn, NoTurn
  <1> HIDE DEF next
  <1>4. GoodTurn(table, responses, next)
    <2>1. DOMAIN next = DOMAIN NoTurn /\ Continues(responses, next)
      BY <1>2, <1>3, SameTurnContinues
    <2> QED BY <1>3, <2>1 DEF GoodTurn, Working
  <1> QED BY <1>1, <1>3, <1>4, StepKeeps DEF SameTurn

\* A turn starts to walk a plan that fits it.
LEMMA RunKeeps ==
  ASSUME SessionInv, NEW t \in Turns, turn[t].pc \in {"plan", "deciding"},
         NEW plan, PlanFits(table, turn[t], plan), NEW rows, NEW unavailable,
         Run(t, plan, rows, unavailable), table' = table, responses' = responses
  PROVE  SessionInv'
  <1>1. GoodTurn(table, responses, turn[t]) /\ turn[t].pc \in Working
    BY DEF SessionInv, TurnsGood, Working
  <1>2. t \notin DOMAIN responses
    BY DEF SessionInv, ResponsesGood
  <1>3. CASE ~ (plan # <<>> /\ runner)
    <2> DEFINE next == [turn[t] EXCEPT !.pc = "leaving", !.rows = rows,
                          !.result = IF plan = <<>> THEN unavailable ELSE "harness_unavailable"]
    <2>1. turn' = [turn EXCEPT ![t] = next]
      BY <1>3 DEF Run, SessionInv, TurnsGood
    <2>2. SameTurn(turn[t], next) /\ next.pc = "leaving"
      BY <1>1 DEF SameTurn, GoodTurn, NoTurn
    <2> HIDE DEF next
    <2>3. DOMAIN next = DOMAIN NoTurn /\ Continues(responses, next)
      BY <1>1, <2>2, SameTurnContinues
    <2>4. GoodTurn(table, responses, next)
      BY <2>2, <2>3 DEF GoodTurn, Working
    <2> QED BY <1>2, <2>1, <2>4, StepKeeps
  <1>4. CASE plan # <<>> /\ runner
    <2> DEFINE next == [turn[t] EXCEPT !.pc = "running", !.plan = plan, !.at = 1, !.rows = rows]
    <2>1. turn' = [turn EXCEPT ![t] = next]
      BY <1>4 DEF Run, SessionInv, TurnsGood
    <2>2. SameTurn(turn[t], next) /\ next.pc = "running" /\ next.plan = plan /\ next.at = 1
      BY <1>1 DEF SameTurn, GoodTurn, NoTurn
    <2> HIDE DEF next
    <2>3. 1 \in DOMAIN plan
      <3>1. IsList(plan)
        BY DEF PlanFits
      <3>2. plan \in Seq(Range(plan)) /\ DOMAIN plan = 1..Len(plan) /\ Len(plan) \in Nat
        BY <3>1, ListShape DEF IsList
      <3>3. Len(plan) # 0
        BY <1>4, <3>2, EmptySeq
      <3> QED BY <3>2, <3>3
    <2>4. DOMAIN next = DOMAIN NoTurn /\ Continues(responses, next) /\ PlanFits(table, next, plan)
      BY <1>1, <2>2, SameTurnContinues
    <2>5. GoodTurn(table, responses, next)
      BY <2>2, <2>3, <2>4 DEF GoodTurn, Working
    <2> QED BY <1>2, <2>1, <2>5, StepKeeps
  <1> QED BY <1>3, <1>4

\* What a continued turn requires, and where its session is.
LEMMA PriorIs ==
  ASSUME SessionInv, NEW t \in Turns, turn[t].pc \in Working, turn[t].prior # None
  PROVE  /\ Pinned(table, turn[t].harness, turn[t].prior.profile, turn[t].prior.base)
         /\ turn[t].prior.base # None /\ Requirements(t).base = turn[t].prior.base
         /\ turn[t].previous \in DOMAIN responses /\ turn[t].prior = responses[turn[t].previous]
         /\ turn[t].harness = turn[t].prior.harness /\ turn[t].session = turn[t].prior.session
  <1>1. /\ turn[t].previous \in DOMAIN responses /\ turn[t].prior = responses[turn[t].previous]
        /\ turn[t].harness = turn[t].prior.harness /\ turn[t].session = turn[t].prior.session
    BY DEF SessionInv, TurnsGood, GoodTurn, Continues
  <1>2. Pinned(table, turn[t].harness, turn[t].prior.profile, turn[t].prior.base)
    BY <1>1 DEF SessionInv, ResponsesGood, IsRecord
  <1>3. Requirements(t).base = turn[t].prior.base
    BY DEF Requirements, ExtractRequirements
  <1> QED BY <1>1, <1>2, <1>3 DEF Pinned

\* A turn reads its route and its requirements from the table it sees.
LEMMA RouteIs ==
  ASSUME NEW t
  PROVE  RouteOf(t) = RouteIn(table, turn[t].harness) /\ Requirements(t) = RequirementsIn(table, turn[t])
  BY DEF RouteOf, RouteIn, HarnessConfig, ConfigIn, Requirements, RequirementsIn

\* The plan of a static route fits the turn it was made for.
LEMMA StaticPlanFits ==
  ASSUME SessionInv, NEW t \in Turns, turn[t].pc = "plan",
         RouteOf(t) \notin DOMAIN table.jev, RouteOf(t) \in DOMAIN table.static
  PROVE  PlanFits(table, turn[t], StaticPlan(t))
  <1> DEFINE s == table.static[RouteOf(t)]
             reqs == Requirements(t)
             places == {k \in DOMAIN s : reqs.base \in {None, s[k].base} /\ reqs.model \in {None, s[k].leg.model}}
             legs == ElementsAt(s, places)
             plan == StaticPlan(t)
  <1>1. plan = [i \in DOMAIN legs |-> [profile |-> 0, base |-> legs[i].base, tier |-> 0, leg |-> legs[i].leg]]
    BY DEF StaticPlan, Filter
  <1>2. IsTable(table)
    BY TablesAre DEF SessionInv
  <1>3. IsList(s) /\ places \subseteq DOMAIN s /\ \A k \in DOMAIN s : s[k].base # None
    BY <1>2 DEF IsTable
  <1>4. \A k \in places : s[k].base # None /\ reqs.base \in {None, s[k].base}
    BY <1>3
  <1> HIDE DEF s, places, reqs, plan
  <1>5. PICK pos : ReadsAt(pos, legs, s, places)
    BY <1>3, ElementsAtReads
  <1>6. IsList(legs)
    BY <1>3, ElementsAtReads
  <1> HIDE DEF legs
  <1>7. IsList(plan) /\ DOMAIN plan = DOMAIN legs
        /\ \A k \in DOMAIN plan : plan[k].profile = 0 /\ plan[k].base = legs[k].base
    <2>1. DOMAIN legs = 1..Len(legs) /\ Len(legs) \in Nat
      BY <1>6, ListShape
    <2>2. plan = [i \in 1..Len(legs) |-> plan[i]] /\ DOMAIN plan = DOMAIN legs
          /\ \A k \in DOMAIN plan : plan[k].profile = 0 /\ plan[k].base = legs[k].base
      BY <1>1, <2>1
    <2> QED BY <2>1, <2>2, ListOf
  <1>8. ASSUME NEW k \in DOMAIN plan
        PROVE  /\ plan[k].base # None /\ reqs.base \in {None, plan[k].base}
               /\ NameIn(table, turn[t].harness, plan[k].profile) = None
    BY <1>4, <1>5, <1>7 DEF ReadsAt, NameIn
  <1>9. RouteIn(table, turn[t].harness) \notin DOMAIN table.jev
    BY RouteIs
  <1>10. turn[t].pc \in Working
    BY DEF Working
  <1>11. ASSUME turn[t].prior # None
         PROVE  turn[t].prior.profile = None /\ reqs.base = turn[t].prior.base /\ reqs.base # None
    BY <1>9, <1>10, <1>11, PriorIs DEF Pinned, reqs
  <1>12. PlanFits(table, turn[t], plan)
    BY <1>7, <1>8, <1>9, <1>11 DEF PlanFits, Pinned
  <1> QED BY <1>12 DEF plan

\* What is selected exists.
LEMMA SelectIs ==
  ASSUME NEW route, IsRoute(route), route.tiers # <<>>, NEW answer \in Answers(route) \cup {None}, NEW askProfile
  PROVE  LET selection == Select2d(answer, route, askProfile) IN
         /\ selection.tier \in DOMAIN route.tiers
         /\ route.profiles # <<>> => selection.profile \in {0} \cup DOMAIN route.profiles
  <1> DEFINE tier == IF answer # None /\ answer.tier # 0 THEN answer.tier ELSE DefaultTierIndex(route)
             profile == IF ~ askProfile THEN 0
                        ELSE IF answer # None /\ answer.profile # 0 THEN answer.profile
                        ELSE DefaultProfileIndex(route)
  <1>1. Select2d(answer, route, askProfile) = [tier |-> tier, profile |-> profile]
    BY DEF Select2d
  <1>2. /\ DOMAIN route.tiers = 1..Len(route.tiers) /\ Len(route.tiers) \in Nat
        /\ DOMAIN route.profiles = 1..Len(route.profiles) /\ Len(route.profiles) \in Nat
    BY ListShape DEF IsRoute
  <1>3. answer # None => answer.tier \in 0..Len(route.tiers) /\ answer.profile \in 0..Len(route.profiles)
    BY DEF Answers
  <1>4. tier \in DOMAIN route.tiers
    <2>1. DefaultTierIndex(route) \in DOMAIN route.tiers
      BY DefaultTierIs DEF IsRoute
    <2> QED BY <1>2, <1>3, <2>1
  <1>5. route.profiles # <<>> => profile \in {0} \cup DOMAIN route.profiles
    <2>1. route.profiles # <<>> => DefaultProfileIndex(route) \in DOMAIN route.profiles
      BY DefaultProfileIs DEF IsRoute
    <2> QED BY <1>2, <1>3, <2>1
  <1> HIDE DEF tier, profile
  <1> QED BY <1>1, <1>4, <1>5

\* The plan of a decided turn fits it: a session with a profile finds it, and on
\* the base it is pinned to that profile is visited first.
LEMMA JevPlanFits ==
  ASSUME SessionInv, NEW t \in Turns, turn[t].pc \in Working,
         RouteOf(t) \in DOMAIN table.jev, GridOf(t) # None,
         NEW answer \in Answers(table.jev[RouteOf(t)]) \cup {None}, NEW askProfile
  PROVE  LET route == table.jev[RouteOf(t)]
             selection == Select2d(answer, route, askProfile)
         IN PlanFits(table, turn[t],
              OrderGrid(GridOf(t), route, ChosenProfile(t, route, selection.profile), selection.tier))
  <1> DEFINE route == table.jev[RouteOf(t)]
             reqs == Requirements(t)
             selection == Select2d(answer, route, askProfile)
             pinned == IF turn[t].prior = None THEN None ELSE turn[t].prior.profile
             places == {i \in DOMAIN route.profiles : route.profiles[i].name = pinned}
             chosen == ChosenProfile(t, route, selection.profile)
             start == selection.tier
             plan == OrderGrid(GridOf(t), route, chosen, start)
  <1>1. IsTable(table)
    BY TablesAre DEF SessionInv
  <1>2. IsRoute(route) /\ DOMAIN table.catalog \subseteq Range(BaseOrder) /\ None \notin DOMAIN table.catalog
        /\ route.tiers # <<>>
    <2>1. IsRoute(route) /\ Decidable(route, table.catalog)
      BY <1>1 DEF IsTable
    <2>2. route.tiers # <<>>
      BY <2>1 DEF Decidable
    <2> QED BY <1>1, <2>1, <2>2 DEF IsTable
  <1>3. GridOf(t) = EligibleGrid(route, table.catalog, reqs)
    BY DEF GridOf
  <1>4. start \in DOMAIN route.tiers
        /\ (route.profiles # <<>> => selection.profile \in {0} \cup DOMAIN route.profiles)
    <2> HIDE DEF route
    <2> QED BY <1>2, SelectIs DEF route
  <1>5. chosen = IF FirstOf(places) # 0 THEN FirstOf(places) ELSE selection.profile
    BY DEF ChosenProfile, Position
  <1>6. RouteOf(t) = RouteIn(table, turn[t].harness) /\ reqs = RequirementsIn(table, turn[t])
    BY RouteIs
  <1>7. places \subseteq DOMAIN route.profiles /\ DOMAIN route.profiles = 1..Len(route.profiles)
        /\ Len(route.profiles) \in Nat
    BY <1>2, ListShape DEF IsRoute
  <1> HIDE DEF route, reqs, selection, pinned, chosen, start, plan
  <1>8. FirstOf(places) \in {0} \cup places /\ (places # {} => FirstOf(places) \in places)
    <2>1. CASE places = {}
      BY <2>1 DEF FirstOf
    <2>2. CASE places # {}
      <3>1. places \subseteq Nat
        BY <1>7
      <3> HIDE DEF places
      <3> QED BY <2>2, <3>1, FirstIs
    <2> QED BY <2>1, <2>2
  <1>9. route.profiles # <<>> => chosen \in {0} \cup DOMAIN route.profiles
    BY <1>4, <1>5, <1>7, <1>8
  <1>10. /\ IsList(plan) /\ GridPlan(plan, route, table.catalog, reqs)
         /\ CellsFit(plan, route, table.catalog, reqs) /\ StaysWith(plan, route, chosen, reqs.base)
    <2>1. EligibleGrid(route, table.catalog, reqs) # None
      BY <1>3
    <2> QED BY <1>2, <1>3, <1>4, <1>9, <2>1, GridPlanIs DEF plan
  <1>11. ASSUME NEW k \in DOMAIN plan
         PROVE  Pinned(table, turn[t].harness, NameIn(table, turn[t].harness, plan[k].profile), plan[k].base)
    <2>1. plan[k].base # None
      BY <1>2, <1>10 DEF CellsFit
    <2>2. CASE route.profiles = <<>>
      BY <1>6, <1>10, <2>1, <2>2 DEF Pinned, NameIn, ForProfile, CellsFit, route
    <2>3. CASE route.profiles # <<>>
      <3>1. plan[k].profile \in DOMAIN route.profiles /\ plan[k].base \in Range(route.profiles[plan[k].profile].bases)
        BY <1>10, <2>3 DEF ForProfile, CellsFit
      <3>2. plan[k].profile # 0
        BY <1>7, <3>1
      <3>3. NameIn(table, turn[t].harness, plan[k].profile) = route.profiles[plan[k].profile].name
        BY <1>6, <3>2 DEF NameIn, route
      <3>4. \E i \in DOMAIN route.profiles :
              /\ route.profiles[i].name = NameIn(table, turn[t].harness, plan[k].profile)
              /\ plan[k].base \in Range(route.profiles[i].bases)
        BY <3>1, <3>3
      <3> QED BY <1>6, <2>1, <2>3, <3>4 DEF Pinned, route
    <2> QED BY <2>2, <2>3
  <1>12. ASSUME turn[t].prior # None, NEW k \in DOMAIN plan
         PROVE  /\ plan[k].base = turn[t].prior.base
                /\ NameIn(table, turn[t].harness, plan[k].profile) = turn[t].prior.profile
    <2>1. /\ Pinned(table, turn[t].harness, turn[t].prior.profile, turn[t].prior.base)
          /\ turn[t].prior.base # None /\ reqs.base = turn[t].prior.base
      BY <1>12, PriorIs DEF reqs
    <2>2. plan[k].base = turn[t].prior.base
      BY <1>10, <2>1 DEF CellsFit
    <2>3. CASE route.profiles = <<>>
      <3>1. plan[k].profile = 0
        BY <1>10, <2>3 DEF ForProfile, CellsFit
      <3>2. turn[t].prior.profile = None
        BY <1>6, <2>1, <2>3 DEF Pinned, route
      <3> QED BY <2>2, <3>1, <3>2 DEF NameIn
    <2>4. CASE route.profiles # <<>>
      <3>1. PICK i \in DOMAIN route.profiles :
              route.profiles[i].name = turn[t].prior.profile /\ turn[t].prior.base \in Range(route.profiles[i].bases)
        BY <1>6, <2>1, <2>4 DEF Pinned, route
      <3>2. pinned = turn[t].prior.profile
        BY <1>12 DEF pinned
      <3>3. FirstOf(places) \in places
        BY <1>8, <3>1, <3>2
      <3>4. FirstOf(places) = i
        BY <1>2, <3>1, <3>2, <3>3 DEF IsRoute
      <3>5. i # 0 /\ chosen = i
        BY <1>5, <1>7, <3>4
      <3>6. plan[k].profile = i
        BY <1>10, <2>1, <2>4, <3>1, <3>5 DEF StaysWith
      <3>7. NameIn(table, turn[t].harness, i) = route.profiles[i].name
        BY <1>6, <3>5 DEF NameIn, route
      <3> QED BY <2>2, <3>1, <3>6, <3>7
    <2> QED BY <2>3, <2>4
  <1>13. PlanFits(table, turn[t], plan)
    <2>1. GridPlan(plan, table.jev[RouteIn(table, turn[t].harness)], table.catalog, RequirementsIn(table, turn[t]))
      BY <1>6, <1>10 DEF route
    <2> QED BY <1>10, <1>11, <1>12, <2>1 DEF PlanFits
  <1> QED BY <1>13 DEF plan, chosen, start, selection, route

------------------------------------------------------------------------------
(* Each step, and the theorems. *)

\* A request that comes in.
LEMMA ArriveKeeps ==
  ASSUME SessionInv, NEW t \in Turns, NEW ask, NEW previous, Arrive(t, ask, previous)
  PROVE  SessionInv'
  <1> DEFINE prior == IF previous \in DOMAIN responses THEN responses[previous] ELSE None
             harness == IF ask.harness # None THEN ask.harness
                        ELSE IF prior # None THEN prior.harness ELSE FirstHarness
             session == IF prior # None THEN prior.session ELSE t
             new == [NoTurn EXCEPT !.ask = ask, !.previous = previous, !.prior = prior,
                       !.harness = harness, !.session = session]
             next == [new EXCEPT !.pc = "acquire"]
  <1>1. /\ turn[t].pc = "none" /\ table' = table /\ responses' = responses
        /\ \/ \E result : Refused(t, new, result)
           \/ /\ ~ (previous # 0 /\ prior = None)
              /\ ~ (prior # None /\ ask.harness \notin {None, prior.harness})
              /\ turn' = [turn EXCEPT ![t] = next]
    BY DEF Arrive, gateway
  <1>2. t \notin DOMAIN responses
    BY <1>1 DEF SessionInv, ResponsesGood
  <1>3. /\ DOMAIN next = DOMAIN NoTurn /\ next.pc = "acquire" /\ next.previous = previous /\ next.prior = prior
        /\ next.harness = harness /\ next.session = session
    BY DEF NoTurn
  <1> HIDE DEF new, next
  <1>4. CASE \E result : Refused(t, new, result)
    BY <1>1, <1>2, <1>4, RefusedKeeps
  <1>5. CASE /\ ~ (previous # 0 /\ prior = None)
             /\ ~ (prior # None /\ ask.harness \notin {None, prior.harness})
             /\ turn' = [turn EXCEPT ![t] = next]
    <2>1. Continues(responses, next)
      <3>1. CASE prior = None
        BY <1>3, <1>5, <3>1 DEF Continues
      <3>2. CASE prior # None
        <4>1. previous \in DOMAIN responses /\ prior = responses[previous]
          BY <3>2
        <4>2. harness = prior.harness /\ session = prior.session
          BY <1>5, <3>2
        <4> HIDE DEF prior, harness, session
        <4> QED BY <1>3, <3>2, <4>1, <4>2 DEF Continues
      <3> QED BY <3>1, <3>2
    <2>2. GoodTurn(table, responses, next)
      BY <1>3, <2>1 DEF GoodTurn, Working
    <2> QED BY <1>1, <1>2, <1>5, <2>2, StepKeeps
  <1> QED BY <1>1, <1>4, <1>5

\* A turn that only moves on.
LEMMA MovesKeep ==
  ASSUME SessionInv, NEW t \in Turns, turn[t].pc \in Working \ {"leaving"},
         NEW next, turn' = [turn EXCEPT ![t] = next], SameTurn(turn[t], next),
         next.pc \in {"plan"} \/ /\ next.pc = "running" /\ turn[t].pc = "running"
                                 /\ next.plan = turn[t].plan /\ next.at \in DOMAIN next.plan,
         table' = table, responses' = responses
  PROVE  SessionInv'
  <1>1. GoodTurn(table, responses, turn[t]) /\ turn[t].pc \in Working
    BY DEF SessionInv, TurnsGood
  <1>2. DOMAIN next = DOMAIN NoTurn /\ Continues(responses, next)
        /\ \A plan : PlanFits(table, next, plan) <=> PlanFits(table, turn[t], plan)
    BY <1>1, SameTurnContinues
  <1>3. GoodTurn(table, responses, next)
    BY <1>1, <1>2 DEF GoodTurn, Working
  <1>4. t \notin DOMAIN responses
    BY DEF SessionInv, ResponsesGood, Working
  <1> QED BY <1>3, <1>4, StepKeeps

\* A turn asks Jev only for a grid that has a cell.
LEMMA AsksKeeps ==
  ASSUME SessionInv, NEW t \in Turns, turn[t].pc = "plan", NEW asked,
         turn' = [turn EXCEPT ![t].pc = "deciding", ![t].askProfile = asked],
         RouteOf(t) \in DOMAIN table.jev, GridOf(t) # None, table' = table, responses' = responses
  PROVE  SessionInv'
  <1> DEFINE next == [turn[t] EXCEPT !.pc = "deciding", !.askProfile = asked]
  <1>1. turn' = [turn EXCEPT ![t] = next]
    BY DEF SessionInv, TurnsGood
  <1>2. GoodTurn(table, responses, turn[t]) /\ turn[t].pc \in Working
    BY DEF SessionInv, TurnsGood, Working
  <1>3. SameTurn(turn[t], next) /\ next.pc = "deciding"
    BY <1>2 DEF SameTurn, GoodTurn, NoTurn
  <1> HIDE DEF next
  <1>4. DOMAIN next = DOMAIN NoTurn /\ Continues(responses, next)
        /\ RequirementsIn(table, next) = RequirementsIn(table, turn[t])
    BY <1>2, <1>3, SameTurnContinues
  <1>5. RouteIn(table, next.harness) = RouteOf(t) /\ RequirementsIn(table, next) = Requirements(t)
    BY <1>3, <1>4, RouteIs DEF SameTurn
  <1>6. GoodTurn(table, responses, next)
    BY <1>3, <1>4, <1>5 DEF GoodTurn, GridOf, Working
  <1>7. t \notin DOMAIN responses
    BY DEF SessionInv, ResponsesGood
  <1> QED BY <1>1, <1>6, <1>7, StepKeeps

\* A leg serves: what is stored continues what the turn continued.
LEMMA ServesKeeps ==
  ASSUME SessionInv, NEW t \in Turns, LegServes(t)
  PROVE  SessionInv'
  <1> DEFINE cell == turn[t].plan[turn[t].at]
             name == NameIn(table, turn[t].harness, cell.profile)
             count == IF turn[t].prior = None THEN 1 ELSE turn[t].prior.count + 1
             record == [session |-> turn[t].session, harness |-> turn[t].harness, profile |-> name,
                        base |-> cell.base, count |-> count]
             report == ReportFor(turn[t].plan, cell)
             next == [turn[t] EXCEPT !.pc = "leaving", !.result = "served",
                        !.rows = Append(@, "harness_turn"), !.report = report]
  <1>1. /\ turn[t].pc = "running" /\ table' = table
        /\ responses' = [r \in DOMAIN responses \cup {t} |-> IF r = t THEN record ELSE responses[r]]
    <2>1. ProfileName(t) = name
      BY RouteIs DEF ProfileName, Cell, NameIn
    <2> HIDE DEF name
    <2> QED BY <2>1 DEF LegServes, Cell, gateway
  <1>2. turn' = [turn EXCEPT ![t] = next]
    BY DEF LegServes, Cell, SessionInv, TurnsGood
  <1>3. GoodTurn(table, responses, turn[t]) /\ turn[t].pc \in Working
    BY <1>1 DEF SessionInv, TurnsGood, Working
  <1>4. SameTurn(turn[t], next) /\ next.pc = "leaving"
    BY <1>3 DEF SameTurn, GoodTurn, NoTurn
  <1>5. turn'[t] = next /\ \A u \in Turns \ {t} : turn'[u] = turn[u]
    BY <1>2 DEF SessionInv, TurnsGood
  <1>6. DOMAIN turn' = Turns
    BY <1>2 DEF SessionInv, TurnsGood
  <1> HIDE DEF next, report
  <1>7. t \notin DOMAIN responses
    BY <1>1 DEF SessionInv, ResponsesGood
  <1> DEFINE stored == [r \in DOMAIN responses \cup {t} |-> IF r = t THEN record ELSE responses[r]]
  <1>8. /\ DOMAIN stored = DOMAIN responses \cup {t} /\ stored[t] = record
        /\ \A r \in DOMAIN responses : stored[r] = responses[r]
    BY <1>7
  <1>9. PlanFits(table, turn[t], turn[t].plan) /\ turn[t].at \in DOMAIN turn[t].plan
    BY <1>1, <1>3 DEF GoodTurn
  <1>10. Pinned(table, turn[t].harness, name, cell.base)
         /\ (turn[t].prior # None => cell.base = turn[t].prior.base /\ name = turn[t].prior.profile)
    BY <1>9 DEF PlanFits
  <1>11. turn[t].prior # None =>
           /\ turn[t].previous \in DOMAIN responses /\ turn[t].prior = responses[turn[t].previous]
           /\ turn[t].harness = turn[t].prior.harness /\ turn[t].session = turn[t].prior.session
           /\ IsRecord(table, turn[t].prior)
    BY <1>3, PriorIs DEF SessionInv, ResponsesGood
  <1>12. count \in Nat
    BY <1>11 DEF IsRecord
  <1>13. /\ record.session = turn[t].session /\ record.harness = turn[t].harness /\ record.profile = name
         /\ record.base = cell.base /\ record.count = count
         /\ record = [session |-> record.session, harness |-> record.harness, profile |-> record.profile,
                      base |-> record.base, count |-> record.count]
    OBVIOUS
  <1>14. turn[t].prior # None => [record EXCEPT !.count = @ - 1] = turn[t].prior
    <2> SUFFICES ASSUME turn[t].prior # None PROVE [record EXCEPT !.count = @ - 1] = turn[t].prior
      OBVIOUS
    <2> DEFINE prior == turn[t].prior
    <2>1. /\ prior = [session |-> prior.session, harness |-> prior.harness, profile |-> prior.profile,
                      base |-> prior.base, count |-> prior.count]
          /\ prior.count \in Nat
      BY <1>11 DEF IsRecord
    <2>2. count - 1 = prior.count
      BY <2>1
    <2>3. [record EXCEPT !.count = @ - 1] =
            [session |-> record.session, harness |-> record.harness, profile |-> record.profile,
             base |-> record.base, count |-> count - 1]
      OBVIOUS
    <2>4. /\ record.session = prior.session /\ record.harness = prior.harness
          /\ record.profile = prior.profile /\ record.base = prior.base
      BY <1>10, <1>11, <1>13
    <2> HIDE DEF prior, record, count
    <2> QED BY <2>1, <2>2, <2>3, <2>4 DEF prior
  <1> HIDE DEF stored, record, cell, name, count
  <1>15. IsRecord(table, record)
    BY <1>10, <1>12, <1>13 DEF IsRecord
  <1>16. responses' = stored
    BY <1>1 DEF stored
  <1>17. ASSUME NEW u \in Turns PROVE GoodTurn(table, stored, turn'[u])
    <2>1. CASE u = t
      <3>1. DOMAIN next = DOMAIN NoTurn /\ Continues(responses, next)
        BY <1>3, <1>4, SameTurnContinues
      <3>2. Continues(stored, next)
        BY <1>8, <3>1 DEF Continues
      <3> QED BY <1>4, <1>5, <2>1, <3>1, <3>2 DEF GoodTurn, Working
    <2>2. CASE u # t
      <3>1. GoodTurn(table, responses, turn[u]) /\ turn'[u] = turn[u]
        BY <1>5, <2>2 DEF SessionInv, TurnsGood
      <3>2. Continues(responses, turn[u]) => Continues(stored, turn[u])
        BY <1>8 DEF Continues
      <3> QED BY <3>1, <3>2 DEF GoodTurn
    <2> QED BY <2>1, <2>2
  <1>18. TurnsGood'
    BY <1>1, <1>6, <1>16, <1>17 DEF TurnsGood
  <1>19. ResponsesGood'
    <2>1. \A r \in DOMAIN responses :
            r \in Turns /\ turn'[r].pc \in {"leaving", "ended"} /\ IsRecord(table, responses[r])
      BY <1>5, <1>7 DEF SessionInv, ResponsesGood
    <2> QED BY <1>1, <1>4, <1>5, <1>8, <1>15, <1>16, <2>1 DEF ResponsesGood
  <1>20. SessionStaysPut'
    <2>1. ASSUME NEW r \in DOMAIN stored, turn'[r].previous # 0
          PROVE  /\ turn'[r].previous \in DOMAIN stored
                 /\ [stored[r] EXCEPT !.count = @ - 1] = stored[turn'[r].previous]
      <3>1. CASE r = t
        <4>1. turn'[r].previous = turn[t].previous
          BY <1>4, <1>5, <3>1 DEF SameTurn
        <4>2. turn[t].prior # None
          BY <1>3, <2>1, <4>1 DEF GoodTurn, Continues
        <4> QED BY <1>8, <1>11, <1>14, <3>1, <4>1, <4>2
      <3>2. CASE r # t
        <4>1. r \in DOMAIN responses /\ r \in Turns /\ turn'[r] = turn[r] /\ stored[r] = responses[r]
          BY <1>5, <1>8, <2>1, <3>2 DEF SessionInv, ResponsesGood
        <4>2. /\ turn[r].previous \in DOMAIN responses
              /\ [responses[r] EXCEPT !.count = @ - 1] = responses[turn[r].previous]
          BY <2>1, <4>1 DEF SessionInv, SessionStaysPut
        <4> QED BY <1>8, <4>1, <4>2
      <3> QED BY <3>1, <3>2
    <2> QED BY <1>16, <2>1 DEF SessionStaysPut
  <1>21. table' \in Tables
    BY <1>1 DEF SessionInv
  <1> QED BY <1>18, <1>19, <1>20, <1>21 DEF SessionInv

\* Every reachable state satisfies the sessions' invariant.
LEMMA SessionInvariant == Spec => []SessionInv
  <1>1. Init => SessionInv
    <2> SUFFICES ASSUME Init PROVE SessionInv
      OBVIOUS
    <2>1. table \in Tables /\ DOMAIN responses = {} /\ DOMAIN turn = Turns /\ \A t \in Turns : turn[t] = NoTurn
      BY DEF Init
    <2>2. \A t \in Turns : GoodTurn(table, responses, turn[t])
      BY <2>1 DEF GoodTurn, NoTurn, Working
    <2> QED BY <2>1, <2>2 DEF SessionInv, TurnsGood, ResponsesGood, SessionStaysPut
  <1>2. SessionInv /\ [Next]_vars => SessionInv'
    <2> SUFFICES ASSUME SessionInv, [Next]_vars PROVE SessionInv'
      OBVIOUS
    <2>1. \A t \in Turns : DOMAIN turn[t] = DOMAIN NoTurn
      BY DEF SessionInv, TurnsGood, GoodTurn
    <2>2. ASSUME NEW t \in Turns, Acquire(t) PROVE SessionInv'
      <3> DEFINE next == [turn[t] EXCEPT !.pc = "plan"]
      <3>1. turn' = [turn EXCEPT ![t] = next]
        BY <2>2 DEF Acquire, SessionInv, TurnsGood
      <3>2. SameTurn(turn[t], next) /\ next.pc = "plan"
        BY <2>1 DEF SameTurn, NoTurn
      <3> HIDE DEF next
      <3> QED BY <2>2, <3>1, <3>2, MovesKeep DEF Acquire, Working, gateway
    <2>3. ASSUME NEW t \in Turns, RefuseBusy(t) PROVE SessionInv'
      BY <2>3, RefusedKeeps DEF RefuseBusy, gateway
    <2>4. ASSUME NEW t \in Turns, PlanStatic(t) PROVE SessionInv'
      <3>1. /\ turn[t].pc = "plan" /\ RouteOf(t) \notin DOMAIN table.jev /\ table' = table /\ responses' = responses
            /\ \/ \E result : Leaves(t, result)
               \/ RouteOf(t) \in DOMAIN table.static /\ Run(t, StaticPlan(t), <<>>, Unavailable(t))
        BY <2>4 DEF PlanStatic, gateway
      <3>2. CASE \E result : Leaves(t, result)
        BY <3>1, <3>2, LeavesKeeps DEF Working
      <3>3. CASE RouteOf(t) \in DOMAIN table.static /\ Run(t, StaticPlan(t), <<>>, Unavailable(t))
        BY <3>1, <3>3, StaticPlanFits, RunKeeps
      <3> QED BY <3>1, <3>2, <3>3
    <2>5. ASSUME NEW t \in Turns, turn[t].pc \in {"plan", "deciding"}, RouteOf(t) \in DOMAIN table.jev, GridOf(t) # None,
                 NEW answer \in Answers(table.jev[RouteOf(t)]) \cup {None}, NEW askProfile, NEW rows,
                 PlanJev(t, Select2d(answer, table.jev[RouteOf(t)], askProfile), rows),
                 table' = table, responses' = responses
          PROVE  SessionInv'
      <3> DEFINE route == table.jev[RouteOf(t)]
                 selection == Select2d(answer, route, askProfile)
                 plan == OrderGrid(GridOf(t), route, ChosenProfile(t, route, selection.profile), selection.tier)
      <3>1. Run(t, plan, rows, "harness_unavailable")
        BY <2>5 DEF PlanJev
      <3>2. turn[t].pc \in Working
        BY <2>5 DEF Working
      <3>3. PlanFits(table, turn[t], plan)
        BY <2>5, <3>2, JevPlanFits
      <3> HIDE DEF plan
      <3> QED BY <2>5, <3>1, <3>3, RunKeeps
    <2>6. ASSUME NEW t \in Turns, PlanGrid(t) PROVE SessionInv'
      <3> DEFINE route == table.jev[RouteOf(t)]
      <3>1. /\ turn[t].pc = "plan" /\ RouteOf(t) \in DOMAIN table.jev /\ table' = table /\ responses' = responses
            /\ \/ \E result : Leaves(t, result)
               \/ GridOf(t) # None /\ PlanJev(t, Select2d(None, route, route.profiles # <<>>), <<>>)
               \/ GridOf(t) # None /\ \E asked : turn' = [turn EXCEPT ![t].pc = "deciding", ![t].askProfile = asked]
        BY <2>6 DEF PlanGrid, gateway
      <3>2. CASE \E result : Leaves(t, result)
        BY <3>1, <3>2, LeavesKeeps DEF Working
      <3>3. CASE GridOf(t) # None /\ PlanJev(t, Select2d(None, route, route.profiles # <<>>), <<>>)
        <4>1. None \in Answers(route) \cup {None} /\ turn[t].pc \in {"plan", "deciding"}
          BY <3>1
        <4> QED BY <2>5, <3>1, <3>3, <4>1
      <3>4. CASE GridOf(t) # None /\ \E asked : turn' = [turn EXCEPT ![t].pc = "deciding", ![t].askProfile = asked]
        BY <3>1, <3>4, AsksKeeps
      <3> QED BY <3>1, <3>2, <3>3, <3>4
    <2>7. ASSUME NEW t \in Turns, NEW answer \in Answers(table.jev[RouteOf(t)]) \cup {None}, Decide(t, answer)
          PROVE  SessionInv'
      <3>1. turn[t].pc = "deciding" /\ table' = table /\ responses' = responses
        BY <2>7 DEF Decide, gateway
      <3>2. RouteOf(t) \in DOMAIN table.jev /\ GridOf(t) # None
        BY <3>1, RouteIs DEF GridOf, SessionInv, TurnsGood, GoodTurn
      <3>3. \E rows : PlanJev(t, Select2d(answer, table.jev[RouteOf(t)], turn[t].askProfile), rows)
        BY <2>7 DEF Decide
      <3> QED BY <2>5, <2>7, <3>1, <3>2, <3>3
    <2>8. ASSUME NEW t \in Turns, LegFails(t) PROVE SessionInv'
      <3>1. turn[t].pc = "running" /\ table' = table /\ responses' = responses
        BY <2>8 DEF LegFails, gateway
      <3>2. CASE turn[t].at < Len(turn[t].plan)
        <4> DEFINE next == [turn[t] EXCEPT !.at = @ + 1]
        <4>1. turn' = [turn EXCEPT ![t] = next]
          BY <2>8, <3>2 DEF LegFails, SessionInv, TurnsGood
        <4>2. SameTurn(turn[t], next) /\ next.pc = "running" /\ next.plan = turn[t].plan /\ next.at = turn[t].at + 1
          BY <2>1, <3>1 DEF SameTurn, NoTurn
        <4>3. IsList(turn[t].plan) /\ turn[t].at \in DOMAIN turn[t].plan
          BY <3>1 DEF SessionInv, TurnsGood, GoodTurn, PlanFits
        <4>4. turn[t].at + 1 \in DOMAIN turn[t].plan
          BY <3>2, <4>3, ListShape
        <4> HIDE DEF next
        <4> QED BY <3>1, <4>1, <4>2, <4>4, MovesKeep DEF Working
      <3>3. CASE ~ (turn[t].at < Len(turn[t].plan))
        BY <2>8, <3>1, <3>3, LeavesKeeps DEF LegFails, Working
      <3> QED BY <3>2, <3>3
    <2>9. ASSUME NEW t \in Turns, Release(t) \/ Abandon(t) PROVE SessionInv'
      <3>1. PICK result : turn' = [turn EXCEPT ![t] = Ended(turn[t], result)]
        BY <2>9 DEF Release, Abandon, SessionInv, TurnsGood
      <3>2. table' = table /\ responses' = responses
        BY <2>9 DEF Release, Abandon, gateway
      <3> QED BY <3>1, <3>2, RefusedKeeps DEF Refused
    <2>10. CASE UNCHANGED vars
      BY <2>10 DEF vars, SessionInv, TurnsGood, ResponsesGood, SessionStaysPut
    <2> QED BY <2>2, <2>3, <2>4, <2>6, <2>7, <2>8, <2>9, <2>10, ArriveKeeps, ServesKeeps DEF Next
  <1> QED BY <1>1, <1>2, PTL DEF Spec

\* A session stays on the harness, the base and the profile that served its
\* first turn (UhpSessionRecord), for any tables, requests and number of turns.
THEOREM SessionsStay == Spec => []SessionStaysPut
  <1>1. SessionInv => SessionStaysPut
    BY DEF SessionInv
  <1> QED BY <1>1, SessionInvariant, PTL

\* A decided turn walks every cell its requirements allow, no other, none twice
\* (eligible_grid, order_grid), whatever the route, the catalog and the answer.
THEOREM PlansAreEligible == Spec => []PlanIsTheEligibleGrid
  <1>1. SessionInv => PlanIsTheEligibleGrid
    <2> SUFFICES ASSUME SessionInv, NEW t \in Turns, Planned(t)
                 PROVE  /\ CellsOf(turn[t].plan) = EligibleCells(table.jev[RouteOf(t)], table.catalog, Requirements(t))
                        /\ Len(turn[t].plan) =
                             Cardinality(EligibleCells(table.jev[RouteOf(t)], table.catalog, Requirements(t)))
      BY DEF PlanIsTheEligibleGrid, CellsOf
    <2>1. turn[t].pc = "running" /\ RouteOf(t) \in DOMAIN table.jev
      BY DEF Planned
    <2>2. GridPlan(turn[t].plan, table.jev[RouteOf(t)], table.catalog, Requirements(t))
      BY <2>1, RouteIs DEF SessionInv, TurnsGood, GoodTurn, PlanFits
    <2> QED BY <2>2 DEF GridPlan
  <1> QED BY <1>1, SessionInvariant, PTL

\* Base as the outer loop, tiers from one start to the hardest before the easier
\* ones (order_grid), whatever the profiles share.
THEOREM PlansKeepTheBase == Spec => []PlanKeepsTheBase
  <1>1. SessionInv => PlanKeepsTheBase
    <2> SUFFICES ASSUME SessionInv, NEW t \in Turns, Planned(t)
                 PROVE  \E start \in 1..Len(table.jev[RouteOf(t)].tiers) :
                          Ordered(turn[t].plan, Len(table.jev[RouteOf(t)].tiers), start)
      BY DEF PlanKeepsTheBase, Ordered, RankFrom
    <2>1. turn[t].pc = "running" /\ RouteOf(t) \in DOMAIN table.jev
      BY DEF Planned
    <2>2. GridPlan(turn[t].plan, table.jev[RouteOf(t)], table.catalog, Requirements(t))
      BY <2>1, RouteIs DEF SessionInv, TurnsGood, GoodTurn, PlanFits
    <2> QED BY <2>2 DEF GridPlan
  <1> QED BY <1>1, SessionInvariant, PTL

\* Whatever an accepted file says and whatever is dropped from its table, a route
\* left for Jev has a choice of tiers and profiles, and defaults that exist
\* (from_toml_str, without_providers, without_bases).
THEOREM RoutesAreDecidable == Spec => []RoutesStayDecidable
  <1>1. SessionInv => RoutesStayDecidable
    <2> SUFFICES ASSUME SessionInv PROVE RoutesStayDecidable
      OBVIOUS
    <2>1. IsTable(table) /\ (table \in Accepted \/ \A a \in DOMAIN table.jev : Tidy(table.jev[a], table.catalog))
      BY TablesAre DEF SessionInv
    <2>2. \A a \in DOMAIN table.jev : Decidable(table.jev[a], table.catalog)
      BY <2>1 DEF IsTable
    <2> QED BY <2>1, <2>2 DEF RoutesStayDecidable, Decidable, Tidy
  <1> QED BY <1>1, SessionInvariant, PTL
==============================================================================
