------------------------------ MODULE UhpSession ------------------------------
(* Harness turns: Gateway::uhp_response with plan_harness_route, and the      *)
(* UhpSessionStore they share. A turn finds the answer it continues, takes    *)
(* the session's busy mark, plans the cells to try, asks Jev, walks them with *)
(* the runner and stores what a later turn can continue.                      *)
(* A turn's number is also its response id and, for a first turn, the id of   *)
(* the session it starts. 0 and None are the code's None.                     *)
EXTENDS HarnessTable

CONSTANTS
  MaxTurns,       \* turns sent in a behaviour
  MaxSessions,    \* how many of them, the first ones, may start a session
  Files,          \* harnesses.toml, as it may have been written
  Drops,          \* [providers, bases] the table may have been pruned of
  HarnessOrder,   \* every harness id, in the order of the table's BTreeMap
  Asks            \* [harness, model, native, vision, needs, strategy], per request

\* What can be read from a file: lists, and maps whose keys are names.
ASSUME FilesAssumption ==
  \A f \in Files :
    /\ DOMAIN f.bases \subseteq Range(BaseOrder) /\ None \notin DOMAIN f.bases
    /\ \A r \in DOMAIN f.routes : LET e == f.routes[r] IN
         /\ e.legs = None \/ IsList(e.legs)
         /\ IsList(e.profiles) /\ \A i \in DOMAIN e.profiles : IsList(e.profiles[i].bases)
         /\ \A i, j \in DOMAIN e.profiles : e.profiles[i].name = e.profiles[j].name => i = j
         /\ \/ e.tiers = None
            \/ /\ IsList(e.tiers)
               /\ \A i \in DOMAIN e.tiers : IsList(e.tiers[i].targets)

Turns == 1..MaxTurns

\* The route tables the gateway may have been built with.
Accepted == {FromFile(f) : f \in Files} \ {None}
PrunedOf(built, drop) == WithoutBases(WithoutProviders(built, drop.providers), drop.bases)
Tables == Accepted \cup {PrunedOf(built, drop) : built \in Accepted, drop \in Drops}

VARIABLES
  table,      \* Gateway::harnesses
  runner,     \* whether Gateway::uhp_runner is there
  turn,       \* the turns, as tasks
  busy,       \* UhpSessionStore::busy_sessions
  responses   \* UhpSessionStore::responses: turn -> the session it left behind
gateway == <<table, runner>>
vars == <<table, runner, turn, busy, responses>>

NoTurn == [pc |-> "none", ask |-> None, previous |-> 0, prior |-> None, harness |-> None,
           session |-> 0, askProfile |-> FALSE, plan |-> <<>>, at |-> 0, rows |-> <<>>,
           report |-> None, result |-> "none"]

Init == /\ table \in Tables /\ runner \in BOOLEAN
        /\ turn = [t \in Turns |-> NoTurn]
        /\ busy = {}
        /\ responses = <<>>

\* The least harness id, for a first turn that names none.
FirstHarness ==
  LET ids == SelectSeq(HarnessOrder, LAMBDA h : h \in DOMAIN table.harnesses)
  IN IF ids = <<>> THEN AutoBase ELSE ids[1]

\* A harness nobody configured is one of the route of the same name, and so is
\* one configured without a route.
HarnessConfig(h) ==
  IF h \in DOMAIN table.harnesses THEN table.harnesses[h]
  ELSE [base |-> AutoBase, route |-> h, needs |-> {}]
RouteOf(t) ==
  LET h == turn[t].harness route == HarnessConfig(h).route IN IF route = None THEN h ELSE route

ExtractRequirements(ask, config, prior) ==
  [base   |-> IF prior # None THEN prior.base ELSE IF config.base # AutoBase THEN config.base ELSE None,
   model  |-> ask.model, native |-> ask.native, vision |-> ask.vision,
   needs  |-> ask.needs \cup config.needs]
Requirements(t) == ExtractRequirements(turn[t].ask, HarnessConfig(turn[t].harness), turn[t].prior)
GridOf(t) == EligibleGrid(table.jev[RouteOf(t)], table.catalog, Requirements(t))

\* The guard is held: the answer is fixed and the mark is freed on the way out.
Leaves(t, result) == turn' = [turn EXCEPT ![t].pc = "leaving", ![t].result = result]

\* What is left of a task: its locals are gone.
Ended(record, result) ==
  [NoTurn EXCEPT !.pc = "ended", !.previous = record.previous, !.session = record.session,
                 !.result = result]
Refused(t, record, result) == turn' = [turn EXCEPT ![t] = Ended(record, result)]

\* A request comes in and the answer it continues is read. An id that was never
\* given out is written as the turn's own.
Arrive(t, ask, previous) ==
  LET prior == IF previous \in DOMAIN responses THEN responses[previous] ELSE None
      new == [NoTurn EXCEPT !.ask = ask, !.previous = previous, !.prior = prior,
                !.harness = IF ask.harness # None THEN ask.harness
                            ELSE IF prior # None THEN prior.harness ELSE FirstHarness,
                !.session = IF prior # None THEN prior.session ELSE t]
  IN /\ turn[t].pc = "none"
     /\ \A u \in 1..(t - 1) : turn[u].pc # "none"
     /\ previous \in DOMAIN responses \cup {0, t}
     /\ previous = 0 => t <= MaxSessions
     /\ CASE previous # 0 /\ prior = None -> Refused(t, new, "bad_request")
          [] prior # None /\ ask.harness \notin {None, prior.harness} -> Refused(t, new, "harness_mismatch")
          [] OTHER -> turn' = [turn EXCEPT ![t] = [new EXCEPT !.pc = "acquire"]]
     /\ UNCHANGED <<gateway, busy, responses>>

\* UhpSessionStore::try_acquire_session
Acquire(t) ==
  /\ turn[t].pc = "acquire"
  /\ turn[t].session \notin busy
  /\ busy' = busy \cup {turn[t].session}
  /\ turn' = [turn EXCEPT ![t].pc = "plan"]
  /\ UNCHANGED <<gateway, responses>>

\* Fault: the refused turn's guard is dropped as well.
RefuseBusy_DropsGuard(t) ==
  /\ turn[t].pc = "acquire"
  /\ turn[t].session \in busy
  /\ Refused(t, turn[t], "session_busy")
  /\ busy' = busy \ {turn[t].session}
  /\ UNCHANGED <<gateway, responses>>

RefuseBusy(t) ==
  /\ turn[t].pc = "acquire"
  /\ turn[t].session \in busy
  /\ Refused(t, turn[t], "session_busy")
  /\ UNCHANGED <<gateway, busy, responses>>

\* The walk starts, or there is nothing to walk or nobody to walk it.
Run(t, plan, rows, unavailable) ==
  turn' = [turn EXCEPT ![t] =
    IF plan # <<>> /\ runner
    THEN [@ EXCEPT !.pc = "running", !.plan = plan, !.at = 1, !.rows = rows]
    ELSE [@ EXCEPT !.pc = "leaving", !.rows = rows,
            !.result = IF plan = <<>> THEN unavailable ELSE "harness_unavailable"]]

Unavailable(t) ==
  IF turn[t].ask.model # None THEN "model_unavailable" ELSE "harness_unavailable"

\* plan_harness_route, the routes no Jev decides: only the pinned base and the
\* requested model choose among the legs.
StaticPlan(t) ==
  LET reqs == Requirements(t)
      legs == Filter(table.static[RouteOf(t)],
                LAMBDA c : reqs.base \in {None, c.base} /\ reqs.model \in {None, c.leg.model})
  IN [i \in DOMAIN legs |-> [profile |-> 0, base |-> legs[i].base, tier |-> 0, leg |-> legs[i].leg]]

PlanStatic(t) ==
  /\ turn[t].pc = "plan"
  /\ RouteOf(t) \notin DOMAIN table.jev
  /\ CASE RouteOf(t) \notin DOMAIN table.static -> Leaves(t, "unknown_model")
       [] RouteOf(t) \in DOMAIN table.static /\ turn[t].ask.strategy \notin {None, "static"} ->
            Leaves(t, "bad_request")
       [] OTHER -> Run(t, StaticPlan(t), <<>>, Unavailable(t))
  /\ UNCHANGED <<gateway, busy, responses>>

\* Fault: every turn takes the profile it selected.
ChosenProfile_Selected(t, route, selected) == selected

\* A session stays on the profile that served it.
ChosenProfile(t, route, selected) ==
  LET pinned == IF turn[t].prior = None THEN None ELSE turn[t].prior.profile
      i == Position(route.profiles, LAMBDA p : p.name = pinned)
  IN IF i # 0 THEN i ELSE selected

PlanJev(t, selection, rows) ==
  LET route == table.jev[RouteOf(t)]
  IN Run(t, OrderGrid(GridOf(t), route, ChosenProfile(t, route, selection.profile), selection.tier),
         rows, "harness_unavailable")

\* plan_jev_harness up to the question, or past it when the client overrides it.
PlanGrid(t) ==
  /\ turn[t].pc = "plan"
  /\ RouteOf(t) \in DOMAIN table.jev
  /\ LET route == table.jev[RouteOf(t)] grid == GridOf(t)
     IN CASE turn[t].ask.strategy \notin {None, "static", "jev"} -> Leaves(t, "bad_request")
          [] turn[t].ask.strategy \in {None, "static", "jev"} /\ grid = None -> Leaves(t, Unavailable(t))
          [] turn[t].ask.strategy = "static" /\ grid # None ->
               PlanJev(t, Select2d(None, route, route.profiles # <<>>), <<>>)
          [] OTHER -> turn' = [turn EXCEPT ![t].pc = "deciding",
                ![t].askProfile = turn[t].prior = None /\ Cardinality(ActiveProfiles(grid)) >= 2]
  /\ UNCHANGED <<gateway, busy, responses>>

\* decide_harness_2d: an answer is paid for and has its row, whatever it says;
\* a missing client, a deadline or a failed call has none.
Decide(t, answer) ==
  /\ turn[t].pc = "deciding"
  /\ PlanJev(t, Select2d(answer, table.jev[RouteOf(t)], turn[t].askProfile),
             IF answer = None THEN <<>> ELSE <<"route_decision">>)
  /\ UNCHANGED <<gateway, busy, responses>>

Cell(t) == turn[t].plan[turn[t].at]

\* Any error of the runner moves on to the next cell.
LegFails(t) ==
  /\ turn[t].pc = "running"
  /\ IF turn[t].at < Len(turn[t].plan) THEN turn' = [turn EXCEPT ![t].at = @ + 1]
     ELSE Leaves(t, "all_legs_failed")
  /\ UNCHANGED <<gateway, busy, responses>>

ProfileName(t) ==
  IF Cell(t).profile = 0 THEN None ELSE table.jev[RouteOf(t)].profiles[Cell(t).profile].name

\* The row is enqueued, the session pinned to what served it, the answer stored.
LegServes(t) ==
  LET record == [session |-> turn[t].session, harness |-> turn[t].harness,
                 profile |-> ProfileName(t), base |-> Cell(t).base,
                 count |-> IF turn[t].prior = None THEN 1 ELSE turn[t].prior.count + 1]
  IN /\ turn[t].pc = "running"
     /\ responses' = [r \in DOMAIN responses \cup {t} |-> IF r = t THEN record ELSE responses[r]]
     /\ turn' = [turn EXCEPT ![t].pc = "leaving", ![t].result = "served",
                   ![t].rows = Append(@, "harness_turn"),
                   ![t].report = ReportFor(turn[t].plan, Cell(t))]
     /\ UNCHANGED <<gateway, busy>>

\* SessionGuard::drop
Freed(t) == busy \ {turn[t].session}

Release(t) ==
  /\ turn[t].pc = "leaving"
  /\ busy' = Freed(t)
  /\ turn' = [turn EXCEPT ![t] = Ended(@, @.result)]
  /\ UNCHANGED <<gateway, responses>>

\* The client goes away during an await: the future, and its guard, are dropped.
Abandon(t) ==
  /\ turn[t].pc \in {"deciding", "running"}
  /\ busy' = Freed(t)
  /\ turn' = [turn EXCEPT ![t] = Ended(@, "gone")]
  /\ UNCHANGED <<gateway, responses>>

Next ==
  \E t \in Turns :
    \/ \E ask \in Asks, previous \in 0..MaxTurns : Arrive(t, ask, previous)
    \/ Acquire(t) \/ RefuseBusy(t)
    \/ PlanStatic(t) \/ PlanGrid(t)
    \/ turn[t].pc = "deciding" /\ \E answer \in Answers(table.jev[RouteOf(t)]) \cup {None} : Decide(t, answer)
    \/ LegFails(t) \/ LegServes(t) \/ Release(t) \/ Abandon(t)

Spec == Init /\ [][Next]_vars

----------------------------------------------------------------------------
(* Correctness *)

Holding == {"plan", "deciding", "running", "leaving"}
Holders == {t \in Turns : turn[t].pc \in Holding}

\* try_acquire_session and SessionGuard: two turns of one session never run at
\* once, and a session is marked busy exactly while a turn of it runs: a refused
\* turn leaves the mark to its holder, an abandoned one takes it along.
OneTurnPerSession ==
  /\ \A t, u \in Holders : t # u => turn[t].session # turn[u].session
  /\ busy = {turn[t].session : t \in Holders}

\* UhpSessionRecord: whatever fails, however requirements and strategy change
\* and whichever answer a client continues from, a session stays on the harness,
\* the base and the profile that served its first turn.
SessionStaysPut ==
  \A t \in DOMAIN responses :
    LET previous == turn[t].previous IN
    previous # 0 =>
      /\ previous \in DOMAIN responses
      /\ [responses[t] EXCEPT !.count = @ - 1] = responses[previous]

Planned(t) == turn[t].pc = "running" /\ turn[t].at = 1 /\ RouteOf(t) \in DOMAIN table.jev

\* What the requirements leave of a route, cell by cell.
EligibleCells(route, catalog, reqs) ==
  {c \in [base : DOMAIN catalog, tier : DOMAIN route.tiers,
          leg : UNION {Range(t.legs) : t \in Range(route.tiers)}] :
     LET t == route.tiers[c.tier] spec == catalog[c.base] IN
     /\ c.leg \in Range(t.legs) /\ Allows(t, c.base) /\ Speaks(spec, c.leg)
     /\ route.profiles = <<>> \/ \E p \in Range(route.profiles) : c.base \in Range(p.bases)
     /\ reqs.base \in {None, c.base} /\ reqs.needs \subseteq spec.able
     /\ reqs.model \in {None, c.leg.model}
     /\ reqs.native => c.leg.provider = "vertex"
     /\ reqs.vision => c.leg.model \notin TextOnlyModels}

\* eligible_grid and order_grid, which filter profiles, tiers and legs apart
\* and repeat a base for every profile that lists it: the walk nevertheless
\* tries every cell the requirements allow, no other, and none twice.
PlanIsTheEligibleGrid ==
  \A t \in Turns : Planned(t) =>
    LET plan == turn[t].plan
        cells == EligibleCells(table.jev[RouteOf(t)], table.catalog, Requirements(t))
    IN /\ {[base |-> c.base, tier |-> c.tier, leg |-> c.leg] : c \in Range(plan)} = cells
       /\ Len(plan) = Cardinality(cells)

\* order_grid, "base as the outer loop": a base that was left is not returned
\* to, though several profiles list it, and on each base the walk climbs from
\* one and the same tier to the hardest before it tries easier ones.
PlanKeepsTheBase ==
  \A t \in Turns : Planned(t) =>
    LET plan == turn[t].plan
        n == Len(table.jev[RouteOf(t)].tiers)
        Rank(start, tier) == IF tier >= start THEN tier - start ELSE n - tier
    IN /\ \A i, k \in DOMAIN plan : \A j \in i..k :
            plan[i].base = plan[k].base => plan[j].base = plan[i].base
       /\ \E start \in 1..n : \A i, j \in DOMAIN plan :
            i < j /\ plan[i].base = plan[j].base => Rank(start, plan[i].tier) <= Rank(start, plan[j].tier)

\* from_toml_str, without_providers and without_bases: whatever a file the
\* gateway accepts says and whatever is dropped from it, a route left for Jev to
\* decide has two tiers or more, each with legs, two profiles or none, each with
\* a base, and defaults that exist; once pruned it has no leg or tier that no
\* base of the route can take.
RoutesStayDecidable ==
  (\A t \in Turns : turn[t] = NoTurn) => \A a \in DOMAIN table.jev :
    LET route == table.jev[a]
        bases == IF route.profiles = <<>> THEN DOMAIN table.catalog
                 ELSE UNION {Range(p.bases) : p \in Range(route.profiles)}
        Taken(t, l) == \E b \in bases : Allows(t, b) /\ Speaks(table.catalog[b], l)
    IN /\ Len(route.tiers) >= 2 /\ bases \subseteq DOMAIN table.catalog
       /\ \E t \in Range(route.tiers) : t.name = route.defaultTier
       /\ \A t \in Range(route.tiers) : t.legs # <<>>
       /\ table \in Accepted \/ \A t \in Range(route.tiers) : \A l \in Range(t.legs) : Taken(t, l)
       /\ route.profiles = <<>> \/ /\ Len(route.profiles) >= 2
                                   /\ \A p \in Range(route.profiles) : p.bases # <<>>
                                   /\ \E p \in Range(route.profiles) : p.name = route.defaultProfile

\* docs/docs/guides/jev-harness-router.md: x-synapse-tier is the "model
\* difficulty tier that served the turn".
HeadersNameTheServingTier ==
  \A t \in Turns : turn[t].pc = "leaving" /\ turn[t].result = "served" =>
                      turn[t].report.tier = Cell(t).tier
=============================================================================
