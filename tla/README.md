# synapse-gateway: TLA+ models, checks and proofs

This directory specifies the parts of synapse-gateway whose correctness depends
on order: who runs between two steps of a request, what fails half-way, what is
retried, what is read before something else changes it. Every module is
translated from the Rust source; `PROJECT.json` says, definition by definition,
from which lines.

    tlc -workers 2 -config breaker_race.cfg MCCircuitBreaker     # one run
    tlapm CircuitBreaker_proofs.tla                              # one module's proofs

## 1. The system

synapse-gateway is an AI gateway: clients send it OpenAI-shaped chat, embedding
and harness requests or native Gemini and System One ones, it picks a provider,
calls it, screens what goes in and what comes back and writes down what it cost.
Around it stand a broker (an egress proxy and an MCP gateway) that gives
sandboxes access to upstream services under an identity bound by a control plane,
and a registry of agents.

| Component | State | Operations | Meets |
|---|---|---|---|
| Startup (`main.rs`, `config.rs`, `providers/mod.rs`) | none; it makes the tables | settings, files, credentials, lenient pruning, refusal | every other part |
| Agent registry (`synapse-a2a`) | insert-only map with deadlines | seed, register, resolve, list, deregister | admin and public surfaces |
| Input guard (`guard/`) | none (per request) | read the leaves of a body, match, mask, block, ask a classifier | every lane, before routing |
| Route planner and Jev router (`route_planner.rs`, `routing/jev_router.rs`, `routing/table.rs`) | none (per request) | mode, decision under a deadline, order of legs, reported route | Jev, executor |
| Chat lanes (`gateway.rs`, `jev_native.rs`, `jev_hybrid.rs`) | none (per request) | dispatch, Jev and native Vertex lanes, extraction, rows | all of the above, ledger |
| Native Vertex lane (`vertex_native.rs`, `providers/vertex_auth.rs`) | one cached token; per stream a buffer and a tool index | token, send, cut the stream into events | chat and passthrough |
| Standard lane (`routing/executor.rs`) | per request: leg, attempts, failures, `all_circuit_open` | buffered and streaming walk of a fallback chain | breakers, provider clients |
| Resilience (`resilience.rs`) | per provider: `state`, `consecutive_failures`, `opened_at`, gauge | `guard`, attempts with back-off, `record` | every request that calls the provider |
| Streamed replies (`gateway.rs`, `guard/output.rs`, `guard/engine.rs`) | held text, pending items, worst outcome, status | `poll_next`, `screen`, `block`, drop | lane's item stream, SSE body, ledger |
| Embeddings (`gateway.rs`, `embeddings/`) | none (per request) | batches to one leg after another | ledger |
| Passthrough (`server.rs`) | usage guards of the calls in flight | screen, forward, fall back, meter on drop | Vertex, Jev, ledger |
| Usage ledger (`ledger/`) | bounded channel, row in hand, connected sinks, counters | connect, `enqueue`, writer loop, fan-out | every lane; databases and topics |
| Harness turns (`harness_planner.rs`, `routing/harness_*.rs`) | stored responses, busy sessions | `uhp_response`, grid filtering and ordering | Jev, a runner, ledger |
| MCP gateway (`synapse-mcp`) | registry with deadlines, client cache | admin register/deregister, list/call tools | context store, upstream MCP servers |
| Egress proxy (`synapse-proxy`) | none beyond the context store | match a route, inject identity, send, retry | context store, upstream services |
| Context store (`synapse-context`) | permanent base, one overlay with a deadline | push, clear, resolve | MCP gateway, egress proxy |

What makes these parts correct, and what makes them hard:

* **Breaker.** Three cells that are not updated together (`state` and the
  counter are atomics, `opened_at` is behind a mutex) and any number of calls
  between the accesses. It must not refuse for ever, must not refuse after its
  window, and should be a state machine an operator recognises.
* **Fallback.** Every way a leg can fail must leave the request in a state in
  which the next leg, or the final answer, is right: no text of a failed leg in
  the reply, no second provider after the client has seen an item, and an
  `all_circuits_open` that is true.
* **Screening and rows.** A request is screened by several policies, each of
  which may mask, block or ask a classifier that may fail; then it takes one of
  seven lanes, each with its own failures, fallbacks and rows, and its client may
  leave at any call. What must be masked is masked wherever the text goes, and
  the ledger tells what was called.
* **Decisions.** A route that Jev decides has to work without Jev's answer, with
  an unusable one, after pruning, and for requests only some legs can serve.
* **Streams.** Screening works on a sliding window over text that arrives cut
  anywhere, while tool calls, errors and the end of the reply pass by; the
  client may go away at any poll, and the row and the scan are written by a
  destructor. Below it the bytes of Vertex's reply are cut anywhere too.
* **Tokens.** Whoever finds the token stale fetches one without the lock and
  installs it later, in any order.
* **Ledger.** A queue that may be full, one writer, several sinks of which some
  are down, and a process that may stop. Gaps are allowed; silent ones, doubles
  and reorderings are not.
* **Broker.** An MCP connection is opened with the cache unlocked, under an
  identity read before, to a URL read before that; a proxied request keeps the
  context it resolved through reading its body and every retry; the control
  plane swaps all of these meanwhile, and both drop expired bindings for each
  other.
* **Harness sessions.** Turns of one session exclude each other; a session
  stays on the runtime that served its first turn whatever fails later.

## 2. Modules

| Module | Models | Abstraction |
|---|---|---|
| `CircuitBreaker` | `CircuitBreaker::guard`/`record`, `run_with_classifier`, the buffered drain's second record | one action per atomic access; an instant is its age, capped at the window; the counter is capped at the threshold |
| `BreakerStateMachine` | what a breaker promises | closed, open, half-open, a window, a gauge that follows |
| `Breaker` | the same code as whole operations on a value | for modules that call a breaker |
| `FallbackChain` | `execute_buffered_with_timeouts`, `execute_streaming_with_timeouts`, `commit_one_leg`, `buffer_one_leg_timed` | the legs of every request are chosen at the start; a reply is the set of legs its text came from; an upstream is a health flag per provider and model |
| `OutputScan` | `release_output`, `settled_cut`, `scan_segment`, `mask::apply`, `worse` | two scanners (a secret that grows, a banned word) stand for the pattern library |
| `GuardedStream` | `GuardedStream::poll_next`, `screen`, `block`, `fail`, `OutputGuard`, `StreamSideEffects`, the SSE body | items are marks, text is a sequence of symbols |
| `LossyFeed` | what a sink is promised | a subsequence in order, without doubles unless the sink repeats its last row |
| `Ledger` | `build_store` with every backend's connect, `LedgerHandle`, its writer, `FanoutLedger` | a row is a model value, a backend an up/down flag; a topic's client may publish a row again inside one call |
| `SseEvents` | `next_sse_boundary`, the driver of `stream_generate` | a byte is a line end, or part of a data line that is the kind of its chunk |
| `VertexAuth` | `VertexAuth::token` and its fetcher | a token is the time it is still good for |
| `VertexLane` | `stream_generate`, `passthrough_request` over the two above | a reply is a sequence of bytes, cut anywhere |
| `RouteTiers` | tiers, efforts and escalation shared by chat and harness routes | an effort is its rank |
| `RouteTable` | `RouteTable`: loading, pruning, Gemini's legs and policies | thresholds are small numbers |
| `RoutePlanner` | `jev_router.rs`, the pure half of `route_planner.rs` | a difficulty is counted in half tiers, so that rounding matters |
| `Leaves` | `guard/leaves.rs`, the bodies `server.rs` screens | a body is a sequence of parts: where each stands, and which scanners match in it |
| `InputGuard` | `guard/engine.rs`, `mask.rs`, `policy.rs`, `validate.rs` | a segment is the set of scanners that match in it |
| `RequestCore` | `guard_lane`, the classifier's walk, the record of calls and rows every lane keeps | one request at a time |
| `ChatRequest` | `chat_routed`, `chat_stream`, `plan_route`, `jev_native.rs`, `jev_hybrid.rs` | a leg answers, fails, breaks off or is left; the standard lane's own walk is `FallbackChain` |
| `EmbedRequest` | `embed_routed`, both embedders | a vector is the number of the input it is of |
| `Passthrough` | `gemini_passthrough` and `forward_gemini_legs`, `systemone_evaluate`, `forward_jev` | as `ChatRequest` |
| `Startup` | `Config::from_env`, `main.rs`, `build_catalog`, `GatewayBuilder` | a file is what it says, settings are a function |
| `AgentRegistry` | `AgentRegistry`, `seed_agents`, the admin and public routes | a deadline is ticks that are left |
| `GatewayProcess` | the process: launch, seeding, serving, crash | composes the seven above |
| `ContextStore` | `synapse-context` | a deadline is ahead or past |
| `McpGateway` | `McpRegistry`, `ClientCache`, `resolve_upstream`, the tool handlers, the admin surfaces | a header set is a function from keys to values, a connection a record of what it was opened with |
| `EgressProxy` | `proxy.rs`'s handler, `transform/`, `builder.rs` | a path is a sequence of pieces, a header or field has one value |
| `Broker` | MCP gateway and egress proxy over one context store | composition only |
| `HarnessGrid` | `routing/harness_jev.rs`, pruning in `routing/harness_table.rs` | which cells survive, in which order, what pruning leaves; one wire protocol is as good as another |
| `HarnessTable` | `HarnessRouteTable::from_toml_str` | a description is there or not |
| `UhpSession` | `uhp_response`, `plan_harness_route`, `decide_harness_2d`, `UhpSessionStore` | a turn's number is its response id; a runner is there or not, and serves or fails |
| `CircuitBreaker_proofs`, `FallbackChain_proofs`, `Broker_proofs`, `Ledger_proofs`, `GatewayProcess_proofs`, `UhpSession_proofs` | theorems about the module they are named after | section 5 |
| `ProviderCall_proofs` | theorems about a call of a provider: `GuardedStream` and `VertexAuth` | section 5 |
| `RouteTiers_proofs` | lemmas on lists, for the three modules of proofs whose models build them | section 5 |
| `MC*` | instances for TLC | section 3 |

How state and actions correspond to the code: a VARIABLE is a field (named as in
the source) or the position of a task between two awaits or two atomic accesses.
An action is what runs between two such points. Each module's comments name the
function an action comes from. Variables that are not in the code (`called`,
`arrived`, `offered`, `inForce`, `sawBound`, `calls`, `rows`, ...) only record what
happened, for properties to talk about. Definitions whose comment starts with
"Fault:" are not part of the specification: each is a definition with one
plausible mistake, and `PROJECT.json` ("mutants") says which property notices it.

Two compositions deserve a word. `GatewayProcess` serves one request at a time:
requests share the breakers (modelled with several requests in `CircuitBreaker`
and `FallbackChain`), Vertex's token (`VertexAuth`), the ledger's channel
(`Ledger`) and the SSE stream's window, which is a request's own
(`GuardedStream`); nothing else. `Broker` composes two components that share a
store, so that a call in one meets an expiry found by the other.

## 3. What each run shows

A run whose result is "violation" checks one sentence of the documentation that
the code does not keep; section 6 says which.

| Run | Instance | Shows |
|---|---|---|
| `breaker_race` | two callers, threshold 2, window 2, two attempts, fair | every interleaving of the atomic accesses of `guard` and `record`: an open breaker always has its instant or a caller about to write it, a stale copy of that instant never refuses a call after the window, every call ends, and calls that keep coming are not refused for ever |
| `breaker_serial` | one caller, the real threshold and attempts (5 and 3), window 4 | without overlap the breaker implements `BreakerStateMachine`, with its window, its reopening probe and its gauge |
| `breaker_gauge` | as `breaker_race` | violation: the gauge is left at a state the breaker is not in |
| `chain` | two requests; both on a chain without a gap, with the provider that is not in the catalog first, or last, or without any leg; one with the gap in the middle beside one that shares two of its breakers; one with two models of a provider beside one with the second model; threshold 1, two attempts, fair | of the two refusals, `all_circuits_open` is told exactly those that had a leg, called nobody and missed no provider; a reply is the text of one leg, no call after the client has an item, every request is answered, and a first leg whose provider is well for good serves again, whichever model or request had opened its breaker |
| `stream_screen` | replies of up to five items, texts cut anywhere, three policies, both lanes, a client that may leave at any poll | screening in a window is screening the whole reply; a block stops it and everything behind it; one scan with the worst outcome and one row that tells the reply |
| `stream_truncated` | the standard lane; secrets of two symbols, a window of one, four items | violation: a provider stream that closes early is not reported |
| `ledger` | two rows; a database, a Pub/Sub and an SNS topic and a backend without its settings; a queue of one, two attempts to connect, one publish a topic's client repeats, one restart, fair | what a connected sink is missing is queued, in hand or counted; each sink's log implements `LossyFeed`; a sink that is down holds up neither the start nor the rows of one that stays up |
| `broker` | two tool calls, or one and a proxied request; two servers, URLs and bindings, two changes by the control plane, two routes, one retry, fair | calls go where and as they were authorised while they ran, refusals are true, one connection per server, removed servers are swept, a silent control plane is followed; a proxied request speaks for one context in every attempt, never for its caller, and arrives once unless it is idempotent |
| `vertex_lane` | a streamed call beside a passthrough; tokens kept four ticks and good for five or six; four replies cut in every way | no call is made with a token that has run out; the items are those the whole reply says |
| `gateway` | seventeen configurations (settings, files and policies refused at startup, lenient pruning of each kind, no judge, no guardrails, one for the agent registry); chat, embedding, Gemini and System One requests of every shape the lanes tell apart, one for a route without legs among them; every answer an upstream may give; a client that may leave at any call; one crash, fair | a gateway that starts can serve what it lists; masked and blocked text is what upstreams see and do not see; a plan follows the decision and loses no leg; rows account for calls; vectors follow inputs; the registry keeps first writers over expiry, seeds and crashes; every request ends |
| `uhp_turns` | one session, a first turn and two that may continue it at the same time; four bases, two profiles, three tiers; 24 files, most of them an edit away from the good one, five ways to prune; seven kinds of request | turns exclude each other, the session stays on its base and profile, a plan is exactly the eligible grid and keeps to a base, an accepted and pruned route can still be decided |
| `uhp_report` | one turn, the table as built | violation: the tier header names a tier that did not serve |

Why these bounds are enough for what they are used for:

* **Breaker.** The counter is only compared with the threshold and an age only
  with the window, so capping both there loses no behaviour. Two callers suffice
  for the races: each involves one writer between two steps of one reader, and
  the proofs of section 5 remove the bound for the two that matter most.
  A threshold of 2 lets a success land between two failures; `breaker_serial`
  runs the shipped threshold.
* **Chain.** Two requests are what can meet in one breaker; a leg that fails at
  its start, in the middle or by an open circuit occurs first and last, one with
  an absent provider first, in the middle and last. The chains are chosen in
  `Init` among `Routings`; each of the three answers is given on each chain that
  allows it (an empty chain only ever fails, one with a gap is never told that
  its circuits were open).
* **Streams.** A secret of three symbols with a window of two is the boundary
  case of the documented rule (the window is at least one shorter than the
  match); five items let text, a tool call, an error and the end occur in every
  order around a match.
* **Ledger.** A queue of one is full while a row is in hand and another waits; an
  enqueue that finds it full is dropped as with 10,000. Three backends that
  connect are one of each kind: retried, not retried, without an address. One
  repeated publish puts a copy before, between or after failures and the restart.
* **Broker.** Two changes give one between any two steps of a call and one more
  before it; each extra one repeats a state. One retry separates the first
  attempt from the others, which are alike.
* **Vertex.** Two calls are what can fetch side by side. The times are
  the tightest `VertexAuthAssumption` allows. The replies have both line endings, two chunks in one event, a chunk that does not
  parse and an end without a blank line.
* **Gateway.** Requests are enumerated by what the lanes branch on (alias,
  strategy, streaming, native features, effort, questions, candidates, action), a
  body by which of its places match which scanners. Batches of one and two inputs
  make an embedding leg fail before, between and after its batches. Four tiers
  are the least in which escalation goes up, then down, past a tier that cannot
  serve. One crash is enough to lose and seed the registry again.
* **Harness.** Two continuations of one answer are the most that can contend for
  one mark; sessions share nothing but the map. Three tiers are the least for
  which going up and then down is an order of its own.

`CHECK_DEADLOCK FALSE` stands where a system ends: a streamed reply and its
client, and the bounded number of turns. All other runs check for deadlock.

## 4. Fairness

Only liveness properties need it, and each assumption is one the code makes true:

* `CircuitBreaker`, `FallbackChain`: the clock ticks; synchronous code runs on;
  an attempt or a wait for a chunk ends because provider clients and the drain
  loop have timeouts (first chunk, idle). No caller has to call, no upstream has
  to recover.
* `Ledger`: connecting goes on (each attempt ends, and Pub/Sub's are bounded), the
  writer task is scheduled and every sink call returns. Enqueueing, outages and
  restarts are not fair.
* `Broker`: handlers are scheduled and each tool call is bounded by
  `DEFAULT_UPSTREAM_TIMEOUT`. Neither the control plane nor a proxied request,
  whose body its client may send for ever, owes anything.
* `GatewayProcess`: the process runs, and every call to a provider ends because
  every HTTP client is built with `config.request_timeout`. A decision's answer is
  not fair: only the route's own timeout ends it, as in `decide`
  (`route_planner.rs:138`), and that is what `EveryRequestEnds` depends on.
  Launching, requests, clients and agents owe nothing.
* `GuardedStream`, `UhpSession`, `VertexLane`: none. A provider, a client or a
  runner may stop at any point and only safety is stated. In particular the
  gateway puts no deadline on a runner (`harness_planner.rs:670`; `timeout_seconds`
  is handed to it), so nothing makes a harness turn end.

## 5. What is proved

`CircuitBreaker_proofs`, for every set of callers, every threshold, window and
number of attempts (`BreakerAssumption`: they are positive, and the mark for "no
instant" is not a number):

* `TypeCorrect`: `Spec => []TypeOK`. The content is in the caps: the counter and
  every age stay within theirs (`UpToBounds`).
* `OpenInstantKnown`: `Spec => []OpenHasInstant`. The property is not inductive:
  a caller that swaps to half-open keeps the state away from closed without
  touching the instant, so the invariant must also say that a caller which saw an
  open breaker and finds no instant is overlapped by one about to write it.
  That is `InstantInv`; `Stamping` names the writer.
* `RejectionsAreTimely`: `Spec => NoRejectionAfterCoolDown`. The inductive part
  is `SeenNeverYounger`: a copy of the instant held by a caller between its read
  and its comparison is never younger than the breaker's own, because ages grow
  together (`UpToMonotone`) and a new instant starts at age zero.

For calls that do not overlap (the theorems' hypothesis is `Callers = {c}`), the
same module proves what `breaker_serial` checks. It is the hypothesis the code
would need to keep: with two callers `breaker_gauge` refutes the first, and the second
fails as well (two failures both swap the state to open before either has
written the instant).

* `LoneGaugeIsTrue`: `Spec => []GaugeTracksState`.
* `LoneCallsSeeTheStateMachine`: `Spec => ImplementsStateMachine`, every step of
  the atomics mapped to a step of `BreakerStateMachine` or to none. `OneCallAt`
  says what the caller knows of the shared state between two accesses (a caller
  that compares ages holds the current instant, one that attempts has not left
  the breaker open, ...): every swap relies on it.

`FallbackChain_proofs`, for any number of requests, any chains, empty ones
included (`ChainAssumption`: legs name a provider and a model, and an attempt is
allowed) and whatever a breaker says:

* `OpenAnswerIsTrue`: `Spec => []OpenAnswerMeansNoCall`, which says of both
  refusals when they are given, `ReplyIsOneLegs`:
  `Spec => []ReplyFromOneLeg`, `CommitIsFinal`: `Spec => NoCallAfterCommit`. The
  invariant `WalkInv` ties the flag `all_circuit_open` to the legs passed
  (`PassedLegs`; not to the one being tried, for which it may be wrong until
  that leg ends) and the text held to the one leg it came from (`TextHeld`).

`Broker_proofs`, for any servers, rules, deadlines, calls, requests, answers and
number of changes by the control plane (`McpAssumption`: what is registered first
is a URL and a binding; `ProxyAssumption`: a refusal is no status, the
configuration was accepted, and its routes, steps and paths are lists;
`BrokerAssumption`: who talks to it are its calls and requests):

* `CallsAreAuthorised`: `Spec => []ForwardedAsAuthorised`, `RefusalsHaveCause`:
  `Spec => []RefusedForCause`. A call decides from what it read some awaits ago.
  `Backed` says of each phase which of its readings were true of the registry or
  the store at some moment of the call (`inForce` records these moments, and
  `WitnessedGrows` that they only add up); it holds of a cached client too,
  because a cache hit compares its URL and headers.
* `CacheHoldsOnePerServer`: `Spec => []OneConnectionPerServer`, `SweepIsThorough`:
  `Spec => RemovedServersAreSwept`. The cache's lock has one holder
  (`OneSweeper`), and a sweep has still to visit every cached server that was
  gone all along (`SweepCovers`), whichever it visits first.
* `RetriesNeverDuplicate`: `Spec => []SentOnceUnlessIdempotent`. Every send that
  may have arrived has used up a retry or is the first (`SendsCounted`).
* `SendsAreBound`: `Spec => []SentAsBound`. What `Transformed` computes is the last
  of the values after 0, 1, ... steps (`TransformedIs`). `PipelineBinds` says of
  each of these values that it is as the steps so far bind it, whatever they are;
  `OneMoreStep` carries that over one step, by what one step does to the headers,
  to the body and by wrapping it (`HeaderSet`, `FieldSet`, `BodyWrapped`). The
  compiled routes are lists (`StepsListed`). The invariant `BoundInv` then keeps
  for a request being sent the one context it was transformed with, which is one
  it had seen in force.

`Ledger_proofs`, for any finite set of rows, any backends in any order, any
capacity, number of attempts to connect, of repeated publishes and of restarts
(`LedgerAssumption`: the bounds are positive, a backend is named once):

* `LedgerImplementsLossyFeed`: `Spec => EverySinkIsAFeed`, the refinement of
  `LossyFeed` at every sink: `Feed(s)!FeedInit` at the start and a step of the
  feed, or none, for each step of queue, writer, sinks and process. A sink takes
  rows one by one from a hand that was filled from the queue, so the invariant
  `OrderInv` states the order of the three places: what is stored came before
  what is in hand as long as the sink waits for it, or is a copy of it in a topic,
  that before what is queued, and both of these after everything an earlier
  process was offered.
* `GapsAreCounted`: `Spec => []CountersAccountForGaps`. The count moves between
  four places (queued, in hand, dropped, failed at this sink); the proof follows
  it by the cardinality of the rows that a sink is missing. The property's bound
  is not inductive: a topic that has taken a row and not answered is still
  allowed that row, and no longer when it answers. `GapsCovered` does not allow it.

`GatewayProcess_proofs`, for any configurations, requests of every kind, bodies,
policies, answers and orders of failure (`LoadsAssumption`: a request is a body of
its kind, a seed is an agent, entries of the files have their fields and lists, and
credentials are of providers the code knows; `AnswersAssumption`: Jev scores with
numbers, and no answer at all is no way to plan or to fail; `RegistryAssumption`: a
deadline is a number or never). A request's steps are shown once to be of few kinds (a step of screening,
a call with or without its row, an end), so that each invariant is checked
against those and not against every action of every lane:

* `MaskingHolds`: `Spec => []MaskedTextOnly`, `BlockingHolds`:
  `Spec => []BlockedReachesNobody`. `ScreenInv`: a policy that is enforced on the
  request is still to come or has left the text clear, before anything but a
  classifier is called; masking for one policy does not undo another's, and no
  lane changes a body it has screened.
* `RowsMatchCalls`: `Spec => []RowsAccountForCalls`. The property speaks of
  requests that are over; `RowsInv` is what holds on the way, operation by
  operation: as many rows as calls that owe one.
* `VectorsFollow`: `Spec => []VectorsFollowInputs`. `EmbedInv` says it of the leg
  at work: it has the vectors of the inputs before the next one, in their order,
  and none of an earlier leg's (`NextBatch`, for any batch sizes; an answer that
  is sorted and complete is its batch, `WholeAnswer`).
* `IdsKeepTheirWriter`: `Spec => FirstWriterKeepsTheId`, an action property.
  `RegistryInv` relates the agents registered while seeding to the cards fetched
  so far: an id is free exactly if no card for it has come.
* `TablesAreServable`: `Spec => []TableIsServable`. What a gateway lists is what
  startup makes of the files it was loaded with, as long as it lives (`StartInv`);
  `StartedIs` follows the files from `FromFile` through both ways to validate them.
  Credentials tell legs apart by provider only, so the proof is about the providers
  of a list: flattening the tiers of a route, ordering and stamping them changes
  none (`StaticProviders`, `OwnProviders`), and dropping a provider takes away
  just its legs (`KeptIs`). `PrunedIs` says what is left of a decided route: tiers
  to choose from with a default among them, a static order of the same legs, or
  nothing, and nothing only if every leg it listed was dropped.
* `PlansFollowDecisions`: `Spec => []PlanFollowsDecision`. A plan and the static
  order are computed apart: one filters the tiers and then puts them in order from
  where the decision lands, the other puts all tiers in order from the default and
  is filtered afterwards. The proof compares them by the place each of their legs
  has in the route. A list `GoesThrough` some places when it has each of them once,
  in the order of an escalation from a tier; `Before` is that order.
  `OrderGoesThrough` shows it of what `order_legs` returns, `ThroughTheEligible` of
  a plan over the tiers that can serve, `ThroughTheVertex` of a list filtered for
  Vertex. Two such lists have the same length and the same models
  (`AsManyAsPlaces`, `ModelsOfPlaces`), and are the same list of models when they
  start at the same tier (`Agree`). They do not always: without a decision a
  plan starts at the nearest tier to the default that can serve, the static order
  at the default itself; among the tiers that can serve the two orders are one
  (`StartsAtNearest`), and for that reason the property holds. `PlannedIs` is the
  result, for any route and selection; `PlanInv` carries it from the step that
  plans to the end of the request, and says of a request that awaits a decision
  that some tier can serve it, because the decision arrives when that check is long
  past.

`ProviderCall_proofs` has the two halves of a call. Its reply (`GuardedStream`),
for any text deltas, any number of items, any holdback window and any shortest
match (`StreamAssumption`: the window is at most one symbol shorter than the
shortest match, deltas are not empty):

* `RepliesAreScreenedWhole`: `Spec => []ReplyIsScreenedWhole`,
  `BlockedRepliesStop`: `Spec => []BlockedReplyStops`. Three facts about texts
  carry these. A cut that no match straddles (`Between`) divides the matches of a
  text into those of its parts (`SecretsOfParts`, `BannedOfParts`), so masking
  part by part is masking the whole (`MaskedParts`); `settled_cut` finds such a
  cut (`SettledIs`); and a window's worth of text behind it makes the cut
  `Final`: no text still to come can put a match across it, not even a secret
  that goes on growing (`FinalLater`, `FinalHolds`). The invariant `StreamInv` says that
  what was released of a reply ends at a cut between the matches, and at a final
  one while the provider may go on, and that the client's items and the queue
  together are the released part, screened (`ReplySoFar`). Handing out an item,
  a client that leaves and the closing [DONE] do not change that (`HandedOut`).
* `RepliesAreScannedOnce`: `Spec => []OneScanWithTheWorst`. The outcome kept so far
  is that of the released part as a whole (`ScreenedGrows`), though each release
  was scanned on its own and counts only the matches before its own cut
  (`MatchesBefore`).
* `RowsTellTheReply`: `Spec => []RowTellsTheReply`. What is held back is text, never
  a mark, and masking keeps every mark (`MaskedRange`), so the error or Done that
  came is the one the client reads; `StatusSoFar` ties it to the status.

And its token (`VertexAuth`), for any number of calls and any times that satisfy
`VertexAuthAssumption` (the time a token is kept, less the margin, and twice the
delay of a task are within what an issued token is good for at least; the 120 and
60 seconds of the code are within the minutes google-cloud-auth leaves):

* `TokensAreGood`: `AuthSpec => []NoExpiredToken`. The token a call sends may come
  from the cache, whose content nobody looks at, or from a fetch that was over
  some time ago. So the invariant `AuthInv` says how good either must be:
  `KeptIsGood` relates how long the cache will still be used to how long its token
  lasts, though fetches install theirs in any order, and `InHandIsGood` that a
  token in a call's hands outlasts what its task may still wait.
  `AuthInvTick` is the step that ages all of these at once.

`UhpSession_proofs`, for any number of turns, sessions and requests, any
`harnesses.toml` and whatever is dropped from its table. The assumptions say what
can be read from a file at all: lists are lists, maps have a name once
(`FilesAssumption`, `ModelRoutesAssumption`), `BaseOrder` lists a base once
(`BaseOrderAssumption`), and no strategy given is not the strategy "jev"
(`NoneAssumption`).

* `TurnsExclude`: `Spec => []OneTurnPerSession`. Every action is shown to be one
  of four ways of handling the marks (`MarkStep`: not at all, keep, take when
  free, give up one's own), and `MarkStepKeeps` shows once that these preserve
  the property; `Shape` adds only that turns are records.
* `RoutesAreDecidable`: `Spec => []RoutesStayDecidable`. `TablesAre` follows a
  file through `FromFile`, its checks and every way to prune: an accepted route
  is `Decidable`, and what pruning leaves of one is decidable still (`PrunedRouteIs`)
  or became a static route.
* `PlansAreEligible`: `Spec => []PlanIsTheEligibleGrid`, `PlansKeepTheBase`:
  `Spec => []PlanKeepsTheBase`. Both are about `order_grid`, for every grid:
  `GridPlanIs` says that its result has each eligible cell once, base by base,
  and each base's tiers from one start up and then down, although
  `eligible_grid` filters bases, legs and profiles against each other and the
  profiles may share bases. The turn's invariant keeps that of the plan it
  walks (`PlanFits`).
* `SessionsStay`: `Spec => []SessionStaysPut`. The plan is made from a table and
  walked later, one cell after another, so the invariant `SessionInv` must say of
  the whole plan, not of the cell at hand, that every cell which may serve is on
  the base and profile of the session so far (`PlanFits`, `Continues`): the base
  because requirements pin it, the profile because the bound one comes first and
  lists that base (`StaysWith`).

These rest on `RouteTiers_proofs`: what putting together, cutting, flattening,
filtering and looking up return for lists of any length. Lists here are built by first-order operators
(`FlattenSeq`, `ElementsAt`, `FirstOf`) for that reason, and where a lemma needs
induction over a list it takes a least counterexample (`LeastOf`), which is a
statement about a set of numbers; the induction rules of the library take an
operator, which the provers cannot instantiate.

What stays with TLC: every liveness property, because the prover does not
do fairness and `ENABLED`, and the invariants that section 7 lists.

## 6. Where code and documentation disagree

Each of these has a run.

* `breaker_gauge`: `record` reports a transition only when its swap found
  HALF_OPEN (`resilience.rs:244`), so a late success that closes an open breaker
  leaves the gauge at 1; metrics-catalogue.md:116 says the gauge is the state.
* `stream_truncated`: `poll_next` ends when the provider's stream ends, Done or
  not (`gateway.rs:1585`); fallback-chains.md:46 and :51, of the standard lane, call
  that a failure that ends with an error event. The run is of that lane.
* `uhp_report`: `report_for` looks the served cell up by base, provider and model
  (`harness_jev.rs:556`); with the guide's own table, where "moderate" lists a
  leg of "hard", a turn that failed over from the one to the other is reported
  under the first. The ledger row and the stored answer have the right tier.
  The chat lane's `report_for` takes the first planned leg in the same way.

Met while modelling, with no run of their own:

* The breaker belongs to the provider object (`genai_provider.rs:24`), not to the
  `(provider, model)` leg as fallback-chains.md:27 has it: a leg can be skipped
  that never failed.
* Two overlapping calls can half-open a breaker that was re-opened in between,
  before its new window has passed (`resilience.rs:225` swaps without looking at
  the instant again). That the window is kept is part of `BreakerStateMachine`
  and checked for calls that do not overlap.
* After a provider error the stream is polled again (`gateway.rs:1584`), so
  items may follow the error event that fallback-chains.md:52-53 makes the last.
* A streamed leg that breaks after it was committed is recorded as a success
  when it started: requests that do not overlap never open a breaker by it.
* A sink that is slow to fail fills the queue of all sinks (`ledger/mod.rs:185`),
  and rows are then dropped for the healthy ones, which cost-ledger.md:86-87
  means to avoid with a second sink. The SQL sinks do not store `op`.
* A passthrough body that cannot be read is a 502 for the client and an "ok" row
  (`server.rs:556`); cost-ledger.md:52 says "error". A client that leaves while a
  Gemini request is being sent leaves no row, though the comment near
  `server.rs:743` has every termination path metered; one that leaves while Jev is
  called leaves an "ok" row without tokens.
* `record_guard_input_block` writes provider "synapse" and the policy's name as
  model; cost-ledger.md says provider "guard" and the scanner's name.
* `EmbeddingProvider::embed` promises one vector per input (`embeddings/mod.rs:18`)
  and nobody checks it: after an answer that leaves one out, later vectors carry
  the wrong index. `VectorsFollowInputs` excludes such answers.
* A header the proxy injects is left as the caller wrote it when the bound value
  cannot be written in a header (`transform/mod.rs:62` says it skips silently,
  `inject.rs:2` that the caller's is overwritten); the MCP gateway fails the call
  in that case. `SentAsBound` excludes such values.
* An MCP call can pair a URL and an identity that were never in force together:
  they are read under two locks (`synapse-mcp/src/gateway.rs:383`). Each was in
  force while the call ran, which is what `ForwardedAsAuthorised` says.
* static-seed.md:71 counts a seed's ttl from the gateway's start; the registry
  counts it from the seed's registration, which waits for earlier cards.
* Lenient validation still refuses to start when the route of a policy's
  classifier is left without a leg, and for embedding legs of providers without an
  embedder; the documentation says so.
* Pruning that leaves one profile drops the axis, and the route then ranges over
  every base of the catalog, those no profile ever listed included
  (`harness_table.rs:871`). A decided route without profiles is accepted although
  no base can take a cell of it.
* A static harness route filters by pinned base and model only; the other
  requirements are not looked at (`harness_planner.rs:246`).
* Every error of a runner moves to the next cell (`harness_planner.rs:783`); the
  guide says retryable ones do. A turn that fails leaves no `harness_turn` row
  (jev-harness-router.md:161-163).
* A static route may be written without legs (`table.rs:865`,
  `empty_static_legs_stay_legal`). Strict validation lists such an alias, a request for
  it ends as if all of its legs had failed, with nobody called and no row written
  (`NoLegs`); lenient validation always drops it. `TableIsServable`
  therefore does not say that every alias can serve.
* The store of answers that turns continue is never pruned.
* `main.rs` installs neither a harness table nor a runner: harness turns exist
  for programs that embed the gateway, and in the tests. `vertex_native`'s
  buffered `generate` has no caller, and the last return of
  `forward_gemini_legs` cannot be reached.

## 7. Not modelled, and the plan

Not modelled, because it converts or does arithmetic on one value and no order
matters: the providers' payloads and error envelopes, request parsing and model
listings, prices and task types, the SQL and the publish calls behind a sink, the
text of Jev's questions and the history they quote, harness effort and step
budgets, the syntax of the configuration files, the pattern library of the
scanners. Not modelled, because it is I/O around the parts that are: listeners
and their modes, the proxy's own start, readiness and shutdown, and all
instruments but the breaker's gauge and the ledger's counters.

Deliberately not screened by the code, and so excluded in `NotScanned`:
assistant and model turns, function calls and media (the table in
guardrails-policy.md). Excluded as well, though that table does not list it: the
content of a chat message given as a JSON object, which is no leaf
(`guard/leaves.rs:33`) and yet part of what Jev is asked (`routing/jev_router.rs:117`).

Hazards without a property: which kind of failure opens a breaker
(`executor.rs:1226`; a buffered leg records two results, and no document says
what should happen), and a sink that is slow rather than down
(`ledger/mod.rs:185`; the model reaches it, `CountersAccountForGaps` says the rows
are counted, and what the documentation promises is not more than that a sink
may fail).

Model-checked and not proved: `VertexLane`'s `ItemsOfTheWire`, which compares a
parser with a reference parser that is recursive over bytes (what a recursion
computes for every input is an induction over data), and the properties
that need fairness: that requests, calls, stores, sweeps and streams come to an
end and that a call is not refused for ever. Every other property of a passing run
has a theorem.
