---------------------------- MODULE EgressProxy ----------------------------
(***************************************************************************)
(* The egress proxy (crates/synapse-proxy): the handler behind every path  *)
(* of the data plane (proxy.rs) with its request and response steps        *)
(* (transform/*.rs, builder.rs).                                           *)
(*                                                                         *)
(* A request is routed and given the context bound at that moment; its     *)
(* body is read, its steps applied, and what came out is sent again and    *)
(* again to the upstream until that answers or no more retries are left.   *)
(*   A path is a sequence of pieces.                                       *)
(*   written  [prefix, methods (empty: any), require, headers, steps,      *)
(*            remap]: a route of the configuration                         *)
(*   spec     a step of one: [header, body, from_context, const], two of   *)
(*            them None, or [under, inject]                                *)
(*   route    [prefix, methods, require, steps, remap], compiled           *)
(*   step     [target, name, key, const]: inject a context key or, where   *)
(*            that is None, a constant into a header or the body; or, as   *)
(*            target "wrap", make the body a field of a new one            *)
(*   outgoing [headers : name -> value, body : field -> value, or Opaque   *)
(*            when it is not JSON]                                         *)
(***************************************************************************)
EXTENDS ContextStore, Integers, SequencesExt

CONSTANTS
  Requests,     \* requests in flight at a time
  Written,      \* the routes of the configuration, in order
  Incoming,     \* what clients send: [path, method, headers, body]
  Statuses,     \* what upstreams answer
  MaxRetries,   \* SYNAPSE_PROXY_UPSTREAM_SEND_RETRIES
  Caller,       \* model value: what a caller wrote
  Opaque, None  \* model values

\* Exactly one target and exactly one source.
InjectAccepted(spec) == /\ spec.header = None <=> spec.body # None
                        /\ spec.from_context = None <=> spec.const # None

StepAccepted(spec) ==
  IF "under" \in DOMAIN spec THEN \A s \in ToSet(spec.inject) : InjectAccepted(s)
  ELSE InjectAccepted(spec)

\* How the proxy refuses a request without sending it.
Refusals == {"no_route", "context_unbound", "body_too_large", "invalid_body"}

IsListed(s) == s \in Seq(ToSet(s))

\* Lists are lists, and a proxy whose configuration has a refused step is not built.
ASSUME ProxyAssumption ==
  /\ MaxRetries \in Nat
  /\ Refusals \cap (Statuses \cup {None}) = {}
  /\ IsListed(Written)
  /\ \A r \in ToSet(Written) : /\ IsListed(r.prefix) /\ IsListed(r.headers) /\ IsListed(r.steps)
                               /\ \A spec \in ToSet(r.steps) :
                                    StepAccepted(spec) /\ ("under" \in DOMAIN spec => IsListed(spec.inject))
  /\ \A in \in Incoming : IsListed(in.path)

InjectOf(spec) ==
  [target |-> IF spec.header # None THEN "header" ELSE "body",
   name |-> IF spec.header # None THEN spec.header ELSE spec.body,
   key |-> spec.from_context, const |-> spec.const]

\* A wrap is its envelope and then the injection of its siblings.
CompileStep(spec) ==
  IF "under" \in DOMAIN spec
  THEN <<[target |-> "wrap", name |-> spec.under, key |-> None, const |-> None]>>
         \o [i \in DOMAIN spec.inject |-> InjectOf(spec.inject[i])]
  ELSE <<InjectOf(spec)>>

\* The route's own headers become constants that are injected first.
CompileRoute(r) ==
  LET first == [i \in DOMAIN r.headers |->
                 [target |-> "header", name |-> r.headers[i][1], key |-> None, const |-> r.headers[i][2]]]
      steps == FlattenSeq([i \in DOMAIN r.steps |-> CompileStep(r.steps[i])])
  IN [prefix |-> r.prefix, methods |-> r.methods, require |-> r.require, remap |-> r.remap,
      steps |-> first \o steps]

Routes == [i \in DOMAIN Written |-> CompileRoute(Written[i])]

VARIABLES
  proxied,   \* request -> what its handler holds
  sawBound   \* request -> the contexts in force since it came

proxyVars == <<proxied, sawBound>>

NoProxied == [phase |-> "idle", route |-> 0, method |-> None, context |-> Base,
              headers |-> << >>, body |-> << >>, retries |-> 0, arrived |-> 0,
              status |-> None]

ProxyInit ==
  /\ proxied = [r \in Requests |-> NoProxied]
  /\ sawBound = [r \in Requests |-> {}]

-----------------------------------------------------------------------------
(* Routing and steps *)

Longest(is) == CHOOSE i \in is : \A j \in is :
  LET li == Len(Routes[i].prefix) lj == Len(Routes[j].prefix) IN li > lj \/ (li = lj /\ i >= j)

\* The longest prefix of the path among the routes that allow the method, the
\* last of several, or 0.
MatchRoute(path, method) ==
  LET fit == {i \in DOMAIN Routes : /\ IsPrefix(Routes[i].prefix, path)
                                    /\ Routes[i].methods = {} \/ method \in Routes[i].methods}
  IN IF fit = {} THEN 0 ELSE Longest(fit)

With(f, k, v) == [x \in DOMAIN f \cup {k} |-> IF x = k THEN v ELSE f[x]]
Without(f, k) == [x \in DOMAIN f \ {k} |-> f[x]]

Unresolved(step, context) == step.key # None /\ step.key \notin DOMAIN context
InjectedValue(step, context) == IF step.key = None THEN step.const ELSE context[step.key]

\* A value that cannot be written in a header leaves the header as it was.
SetHeader(headers, name, value) ==
  IF value \in Writable THEN With(headers, name, value) ELSE headers

\* Fault: a header whose key is not bound is left as the caller sent it.
Inject_KeepsCallers(step, context, out) ==
  IF Unresolved(step, context) THEN out
  ELSE IF step.target = "header"
  THEN [out EXCEPT !.headers = SetHeader(@, step.name, InjectedValue(step, context))]
  ELSE IF out.body = Opaque THEN None
  ELSE [out EXCEPT !.body = With(@, step.name, InjectedValue(step, context))]

\* A header whose key is not bound goes, whoever wrote it; a body field stays.
Inject(step, context, out) ==
  IF step.target = "header"
  THEN [out EXCEPT !.headers = IF Unresolved(step, context) THEN Without(@, step.name)
                               ELSE SetHeader(@, step.name, InjectedValue(step, context))]
  ELSE IF Unresolved(step, context) THEN out
  ELSE IF out.body = Opaque THEN None
  ELSE [out EXCEPT !.body = With(@, step.name, InjectedValue(step, context))]

\* The body becomes one field of a new one.
Wrap(step, out) ==
  IF out.body = Opaque THEN None
  ELSE [out EXCEPT !.body = With(<< >>, step.name, Caller)]

\* One step; a request that an earlier one rejected stays rejected.
Apply(step, context, out) ==
  IF out = None THEN None
  ELSE IF step.target = "wrap" THEN Wrap(step, out) ELSE Inject(step, context, out)

\* All request steps in order; None when one rejects the request.
Transformed(steps, context, out) ==
  LET after[i \in 0..Len(steps)] ==
        IF i = 0 THEN out ELSE Apply(steps[i], context, after[i - 1])
  IN after[Len(steps)]

-----------------------------------------------------------------------------
(* The handler *)

\* The request is over; what was sent, and how often, is remembered.
Answered(p, status) ==
  [NoProxied EXCEPT !.phase = "answered", !.status = status, !.method = p.method,
                    !.arrived = p.arrived]

Answer(r, status) == proxied' = [proxied EXCEPT ![r] = Answered(@, status)]

\* Match, resolve and gate happen without a wait in between.
Receive(r, in) ==
  LET i == MatchRoute(in.path, in.method) IN
  /\ proxied[r].phase = "idle"
  /\ store' = IF i = 0 THEN store ELSE AfterResolve
  /\ IF i = 0 THEN Answer(r, "no_route")
     ELSE IF ~ Routes[i].require \subseteq DOMAIN Resolved THEN Answer(r, "context_unbound")
     ELSE proxied' = [proxied EXCEPT ![r] =
            [NoProxied EXCEPT !.phase = "reading", !.route = i, !.method = in.method,
             !.context = Resolved, !.headers = in.headers, !.body = in.body]]

BodyTooLarge(r) ==
  /\ proxied[r].phase = "reading" /\ Answer(r, "body_too_large")
  /\ UNCHANGED store

\* The body is there: the steps see it with the context of the beginning.
BodyRead(r) ==
  LET p == proxied[r]
      out == Transformed(Routes[p.route].steps, p.context, [headers |-> p.headers, body |-> p.body])
  IN /\ p.phase = "reading"
     /\ IF out = None THEN Answer(r, "invalid_body")
        ELSE proxied' = [proxied EXCEPT ![r].phase = "sending", ![r].context = Base,
                                        ![r].headers = out.headers, ![r].body = out.body]
     /\ UNCHANGED store

Idempotent(method) == method \in {"GET", "HEAD", "OPTIONS", "TRACE", "PUT", "DELETE"}

\* Fault: whoever sent it, a failed send is retried.
SendRetryable_Always(method, connect) == TRUE
\* A connection error never put the request on the wire.
SendRetryable(method, connect) == connect \/ Idempotent(method)

\* A send fails, before the connection stood or after: then the request may have
\* arrived. The retry sends the same bytes.
SendFails(r, connect) ==
  LET p == [proxied[r] EXCEPT !.arrived = IF connect THEN @ ELSE @ + 1] IN
  /\ p.phase = "sending"
  /\ proxied' = [proxied EXCEPT ![r] =
       IF p.retries < MaxRetries /\ SendRetryable(p.method, connect)
       THEN [p EXCEPT !.retries = @ + 1]
       ELSE Answered(p, "request_failed")]
  /\ UNCHANGED store

\* An answer, whatever its status, is passed on or remapped, never retried.
SendAnswered(r, status) ==
  LET p == [proxied[r] EXCEPT !.arrived = @ + 1] IN
  /\ p.phase = "sending"
  /\ proxied' = [proxied EXCEPT ![r] =
       Answered(p, IF status \in Routes[p.route].remap THEN "remapped" ELSE status)]
  /\ UNCHANGED store

\* The reply has been read, or the client went away.
Hangup(r) ==
  /\ proxied[r].phase # "idle"
  /\ proxied' = [proxied EXCEPT ![r] = NoProxied]
  /\ UNCHANGED store

ProxyHandles(r) ==
  \/ \E in \in Incoming : Receive(r, in)
  \/ BodyTooLarge(r) \/ BodyRead(r)
  \/ \E connect \in BOOLEAN : SendFails(r, connect)
  \/ \E status \in Statuses : SendAnswered(r, status)
  \/ Hangup(r)

\* The contexts a request has seen in force, the one of this step included.
SeeBound ==
  sawBound' = [r \in Requests |-> IF proxied'[r].phase \in {"reading", "sending"}
                                  THEN sawBound[r] \cup {Resolved} ELSE {}]

-----------------------------------------------------------------------------
(* Properties *)

\* No later step writes the header or the field that step i writes, or wraps it.
LastWord(steps, i) ==
  \A j \in DOMAIN steps : j > i =>
    /\ steps[j].target = steps[i].target => steps[j].name # steps[i].name
    /\ steps[j].target = "wrap" => steps[i].target = "header"

\* A header says what the last step for it injects, or is not there if that has
\* nothing to inject; only a value that no header can carry leaves it as it was.
HeadersAsBound(steps, context, headers) ==
  \A i \in DOMAIN steps : steps[i].target = "header" /\ LastWord(steps, i) =>
    LET s == steps[i] IN
    IF Unresolved(s, context) THEN s.name \notin DOMAIN headers
    ELSE InjectedValue(s, context) \in Writable =>
           s.name \in DOMAIN headers /\ headers[s.name] = InjectedValue(s, context)

\* So does a field of the body; and a wrapped body has none beside the envelope
\* that no step injected.
BodyAsBound(steps, context, body) ==
  \A i \in DOMAIN steps :
    /\ steps[i].target = "body" /\ LastWord(steps, i) /\ ~ Unresolved(steps[i], context) =>
         steps[i].name \in DOMAIN body /\ body[steps[i].name] = InjectedValue(steps[i], context)
    /\ steps[i].target = "wrap" /\ LastWord(steps, i) =>
         \A f \in DOMAIN body \ {steps[i].name} : \E j \in DOMAIN steps :
           j > i /\ steps[j].target = "body" /\ steps[j].name = f /\ ~ Unresolved(steps[j], context)

\* What goes upstream speaks for one context, the same in every header and field
\* of every attempt, that was bound while the request ran, with the keys the route
\* requires: no header a route injects is ever the caller's own, unless the bound
\* value cannot be written in a header, and no sibling of a wrapped body is
\* (inject.rs, wrap.rs, proxy.rs handler).
SentAsBound ==
  \A r \in Requests : proxied[r].phase = "sending" =>
    LET p == proxied[r] route == Routes[p.route] IN
    \E context \in sawBound[r] :
      /\ route.require \subseteq DOMAIN context
      /\ HeadersAsBound(route.steps, context, p.headers)
      /\ BodyAsBound(route.steps, context, p.body)

\* An upstream gets a request that is not idempotent at most once, however
\* connection errors and lost answers alternate; any request at most once per
\* retry and once more; and one the proxy itself refused, never (proxy.rs handler,
\* docs/docs/synapse-family/proxy/configuration.md).
SentOnceUnlessIdempotent ==
  \A r \in Requests :
    /\ ~ Idempotent(proxied[r].method) => proxied[r].arrived <= 1
    /\ proxied[r].arrived <= MaxRetries + 1
    /\ proxied[r].status \in Refusals => proxied[r].arrived = 0
=============================================================================
