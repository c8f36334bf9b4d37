---------------------------- MODULE Broker_proofs ----------------------------
(***************************************************************************)
(* Proofs about Broker for any number of calls, servers, URLs, bindings,   *)
(* injection rules and proxied requests, and without the bound on changes: *)
(* MaxChanges may be any number.                                           *)
(***************************************************************************)
EXTENDS Broker, TLAPS, SequenceTheorems, WellFoundedInduction

(***************************************************************************)
(* Tool calls.  What a call may do next it decided from what it read some  *)
(* steps ago, so the invariant says of every phase which of its readings   *)
(* were true when they were taken.                                         *)
(***************************************************************************)

\* Phases in which the call has a URL, its headers, and a client.
HasUrl    == {"routed", "bound", "dialing", "connected", "sweeping", "forwarding"}
HasInjection == {"bound", "dialing", "connected", "sweeping", "forwarding"}
HasClient == {"connected", "sweeping", "forwarding"}

\* x has the fields of a call, whatever their values.
CallFields == {"phase", "server", "url", "injection", "client", "sweep"}
IsCall(x)  == x = [f \in CallFields |-> x[f]]

\* What the call x holds was in force while it ran, if seen is what was.
Backed(x, seen) ==
  /\ x.phase \in HasUrl => x.url \in seen.urls
  /\ x.phase \in HasInjection =>
       x.injection \in seen.injections /\ Required \subseteq DOMAIN x.injection
  /\ x.phase \in HasClient =>
       x.client = [server |-> x.server, injection |-> x.injection, url |-> x.url]
  /\ x.phase = "unknown_server" => Absent \in seen.urls
  /\ x.phase = "unbound" => Unbound \in seen.injections

\* A sweep has still to visit every cached server that was gone all along.
SweepCovers(x, seen, entries) ==
  x.phase = "sweeping" => CachedServers(entries) \cap seen.gone \subseteq x.sweep

\* The cache's lock has at most one holder.
OneSweeper ==
  \A c, d \in Calls : call[c].phase = "sweeping" /\ call[d].phase = "sweeping" => c = d

CallInv ==
  /\ call = [c \in Calls |-> call[c]]
  /\ \A c \in Calls : /\ IsCall(call[c])
                      /\ Backed(call[c], inForce[c])
                      /\ SweepCovers(call[c], inForce[c], cache)
  /\ OneSweeper
  /\ OneConnectionPerServer

(***************************************************************************)
(* Proxied requests.  While a request is being sent, every send that may   *)
(* have arrived has cost a retry, and a request that is not idempotent has *)
(* not arrived at all: its first lost answer ends it.                      *)
(***************************************************************************)

ProxiedFields == {"phase", "route", "method", "context", "headers", "body",
                  "retries", "arrived", "status"}
IsProxied(p)  == p = [f \in ProxiedFields |-> p[f]]

SendsCounted(p) ==
  /\ p.phase \in {"idle", "reading", "sending", "answered"}
  /\ p.retries \in 0..MaxRetries /\ p.arrived \in 0..(MaxRetries + 1)
  /\ p.phase \in {"idle", "reading"} => p.arrived = 0 /\ p.retries = 0
  /\ p.phase = "sending" => /\ p.arrived <= p.retries
                            /\ ~ Idempotent(p.method) => p.arrived = 0
  /\ p.phase # "answered" => p.status = None
  /\ ~ Idempotent(p.method) => p.arrived <= 1
  /\ p.status \in Refusals => p.arrived = 0

ProxyInv ==
  /\ proxied = [r \in Requests |-> proxied[r]]
  /\ \A r \in Requests : IsProxied(proxied[r]) /\ SendsCounted(proxied[r])

ClientsKnown == clients \in [calls : SUBSET Calls, requests : SUBSET Requests]

BrokerInv == CallInv /\ ProxyInv /\ ClientsKnown

-----------------------------------------------------------------------------
(* Tool calls *)

\* What was in force stays on record while the call runs.
LEMMA WitnessedGrows ==
  ASSUME NEW x, NEW seen, NEW s, Backed(x, seen)
  PROVE  Backed(x, Witnessed(seen, s))
  BY DEF Backed, Witnessed

\* An identity is resolved only with every required key in it.
LEMMA InjectionIsComplete ==
  ASSUME NEW context,
         ResolvedInjection(context) # Unbound
  PROVE  Required \subseteq DOMAIN ResolvedInjection(context)
  <1>1. CASE Required \subseteq DOMAIN context
    <2> DEFINE injected == [k \in Rules \cap DOMAIN context |-> context[k]]
    <2>1. ResolvedInjection(context) = injected
      BY <1>1 DEF ResolvedInjection
    <2>2. DOMAIN injected = Rules \cap DOMAIN context
      OBVIOUS
    <2> QED BY <1>1, <2>1, <2>2, McpAssumption
  <1>2. CASE ~(Required \subseteq DOMAIN context)
    BY <1>2 DEF ResolvedInjection
  <1> QED BY <1>1, <1>2

\* A step of one call, to x, keeps the invariant if x is backed by what the call
\* witnesses in this step, and the cache is only touched under its lock.
LEMMA OneCallMoves ==
  ASSUME CallInv, Observe, NEW c \in Calls, NEW x,
         call' = [call EXCEPT ![c] = x], IsCall(x), x.phase # "idle",
         Backed(x, Witnessed(inForce[c], x.server)),
         SweepCovers(x, Witnessed(inForce[c], x.server), cache'),
         cache' # cache \/ x.phase = "sweeping" =>
           \A d \in Calls \ {c} : call[d].phase # "sweeping",
         OneConnectionPerServer'
  PROVE  CallInv'
  <1> USE DEF CallInv
  <1>1. /\ call'[c] = x
        /\ \A d \in Calls \ {c} : call'[d] = call[d]
        /\ call' = [d \in Calls |-> call'[d]]
    OBVIOUS
  <1>2. inForce'[c] = Witnessed(inForce[c], x.server)
    BY <1>1 DEF Observe
  <1>3. ASSUME NEW d \in Calls
        PROVE  (IsCall(call[d]) /\ Backed(call[d], inForce[d])
                  /\ SweepCovers(call[d], inForce[d], cache))'
    <2>1. CASE d = c
      BY <1>1, <1>2, <2>1 DEF IsCall, CallFields, Backed, SweepCovers, CachedServers
    <2>2. CASE d # c
      <3>1. call'[d] = call[d]
        BY <1>1, <2>2
      <3>2. CASE call[d].phase = "idle"
        BY <3>1, <3>2 DEF IsCall, CallFields, Backed, SweepCovers, HasUrl, HasInjection, HasClient
      <3>3. CASE call[d].phase # "idle"
        <4>1. inForce'[d] = Witnessed(inForce[d], call[d].server)
          BY <3>1, <3>3 DEF Observe
        <4>2. Backed(call'[d], inForce'[d])
          BY <3>1, <4>1, WitnessedGrows
        <4>3. SweepCovers(call'[d], inForce'[d], cache')
          BY <2>2, <3>1, <4>1 DEF SweepCovers, Witnessed
        <4> QED BY <3>1, <4>2, <4>3 DEF IsCall, CallFields, Backed, SweepCovers, CachedServers
      <3> QED BY <3>2, <3>3
    <2> QED BY <2>1, <2>2
  <1>4. OneSweeper'
    BY <1>1 DEF OneSweeper
  <1> QED BY <1>1, <1>3, <1>4

\* The same of a step that leaves the cache and its lock alone.
LEMMA OneCallReads ==
  ASSUME CallInv, Observe, UNCHANGED cache, NEW c \in Calls, NEW x,
         call' = [call EXCEPT ![c] = x], IsCall(x),
         x.phase \notin {"idle", "sweeping"},
         Backed(x, Witnessed(inForce[c], x.server))
  PROVE  CallInv'
  <1>1. SweepCovers(x, Witnessed(inForce[c], x.server), cache')
    BY DEF SweepCovers
  <1>2. OneConnectionPerServer'
    BY DEF CallInv, OneConnectionPerServer
  <1> QED BY <1>1, <1>2, OneCallMoves

\* A call that ends, and a step of the control plane, leave the others what
\* they have.
LEMMA CallsStay ==
  ASSUME CallInv, Observe, UNCHANGED cache,
         \/ UNCHANGED call
         \/ \E c \in Calls : call' = [call EXCEPT ![c] = NoCall]
  PROVE  CallInv'
  <1> USE DEF CallInv
  <1>1. /\ \A d \in Calls : call'[d] = call[d] \/ call'[d] = NoCall
        /\ call' = [d \in Calls |-> call'[d]]
    OBVIOUS
  <1>2. ASSUME NEW d \in Calls
        PROVE  (IsCall(call[d]) /\ Backed(call[d], inForce[d])
                  /\ SweepCovers(call[d], inForce[d], cache))'
    <2>1. CASE call'[d] = NoCall
      BY <2>1
      DEF NoCall, IsCall, CallFields, Backed, SweepCovers, HasUrl, HasInjection, HasClient
    <2>2. CASE call'[d] = call[d] /\ call[d].phase = "idle"
      BY <2>2 DEF IsCall, CallFields, Backed, SweepCovers, HasUrl, HasInjection, HasClient
    <2>3. CASE call'[d] = call[d] /\ call[d].phase # "idle"
      <3>1. inForce'[d] = Witnessed(inForce[d], call[d].server)
        BY <2>3 DEF Observe
      <3>2. Backed(call'[d], inForce'[d])
        BY <2>3, <3>1, WitnessedGrows
      <3>3. SweepCovers(call'[d], inForce'[d], cache')
        BY <2>3, <3>1 DEF SweepCovers, Witnessed
      <3> QED BY <2>3, <3>2, <3>3 DEF IsCall, CallFields
    <2> QED BY <1>1, <2>1, <2>2, <2>3
  <1>3. OneSweeper' /\ OneConnectionPerServer'
    BY <1>1 DEF OneSweeper, NoCall, OneConnectionPerServer
  <1> QED BY <1>1, <1>2, <1>3

\* Every step of a call, its beginning included.
LEMMA CallStepKeeps ==
  ASSUME CallInv, Observe, NEW c \in Calls, CallStep(c)
  PROVE  CallInv'
  <1> DEFINE was == call[c]
  <1>0. /\ call = [d \in Calls |-> call[d]]
        /\ IsCall(was) /\ Backed(was, inForce[c]) /\ SweepCovers(was, inForce[c], cache)
        /\ OneSweeper /\ OneConnectionPerServer
    BY DEF CallInv
  <1>1. ASSUME NEW s \in Servers, ResolveServer(c, s) PROVE CallInv'
    <2> DEFINE x == [was EXCEPT !.server = s,
                       !.phase = IF Registered(s) THEN "routed" ELSE "unknown_server",
                       !.url = IF Registered(s) THEN registry[s].url ELSE Absent]
    <2>1. call' = [call EXCEPT ![c] = x]
      BY <1>0, <1>1 DEF ResolveServer
    <2>2. IsCall(x) /\ x.phase \in {"routed", "unknown_server"}
      BY <1>0 DEF IsCall, CallFields
    <2>3. Backed(x, Witnessed(inForce[c], x.server))
      BY <1>0 DEF IsCall, CallFields, Backed, Witnessed, HasInjection, HasClient
    <2> HIDE DEF x
    <2> QED
      BY <1>1, <2>1, <2>2, <2>3, OneCallReads DEF ResolveServer
  <1>2. ASSUME ResolveContext(c) PROVE CallInv'
    <2> DEFINE x == [was EXCEPT !.injection = BoundInjection,
                       !.phase = IF BoundInjection = Unbound THEN "unbound" ELSE "bound"]
    <2>1. call' = [call EXCEPT ![c] = x] /\ was.phase = "routed"
      BY <1>0, <1>2 DEF ResolveContext
    <2>2. IsCall(x) /\ x.phase \in {"unbound", "bound"}
      BY <1>0 DEF IsCall, CallFields
    <2>3. Backed(x, Witnessed(inForce[c], x.server))
      BY <1>0, <2>1, InjectionIsComplete
      DEF BoundInjection, IsCall, CallFields, Backed, Witnessed, HasUrl, HasInjection, HasClient
    <2> HIDE DEF x
    <2> QED
      BY <1>2, <2>1, <2>2, <2>3, OneCallReads DEF ResolveContext
  <1>3. ASSUME CacheHit(c) PROVE CallInv'
    <2> DEFINE x == [was EXCEPT !.phase = "sweeping", !.client = Wanted(c),
                                !.sweep = CachedServers(cache)]
    <2>1. call' = [call EXCEPT ![c] = x] /\ was.phase = "bound" /\ UNCHANGED cache
      BY <1>0, <1>3 DEF CacheHit
    <2>2. IsCall(x) /\ x.phase = "sweeping"
      BY <1>0 DEF IsCall, CallFields
    <2>3. Backed(was, Witnessed(inForce[c], was.server))
      BY <1>0, WitnessedGrows
    <2>4. Backed(x, Witnessed(inForce[c], x.server))
      BY <1>0, <2>1, <2>3 DEF IsCall, CallFields, Backed, HasUrl, HasInjection, HasClient, Wanted
    <2>5. SweepCovers(x, Witnessed(inForce[c], x.server), cache')
      BY <1>0, <2>1 DEF IsCall, CallFields, SweepCovers
    <2>6. \A d \in Calls \ {c} : call[d].phase # "sweeping"
      BY <1>3 DEF CacheHit, CacheUnlocked
    <2>7. OneConnectionPerServer'
      BY <1>0, <2>1 DEF OneConnectionPerServer
    <2> HIDE DEF x
    <2> QED
      BY <2>1, <2>2, <2>4, <2>5, <2>6, <2>7, OneCallMoves
  <1>4. ASSUME CacheMiss(c) PROVE CallInv'
    <2> DEFINE x == [was EXCEPT !.phase = "dialing"]
    <2>1. call' = [call EXCEPT ![c] = x] /\ was.phase = "bound"
      BY <1>0, <1>4 DEF CacheMiss
    <2>2. IsCall(x) /\ x.phase = "dialing"
      BY <1>0 DEF IsCall, CallFields
    <2>3. Backed(was, Witnessed(inForce[c], was.server))
      BY <1>0, WitnessedGrows
    <2>4. Backed(x, Witnessed(inForce[c], x.server))
      BY <1>0, <2>1, <2>3 DEF IsCall, CallFields, Backed, HasUrl, HasInjection, HasClient
    <2> HIDE DEF x
    <2> QED
      BY <1>4, <2>1, <2>2, <2>4, OneCallReads DEF CacheMiss
  <1>5. ASSUME Connect(c) PROVE CallInv'
    <2> DEFINE x == [was EXCEPT !.phase = "connected", !.client = Wanted(c)]
    <2>1. call' = [call EXCEPT ![c] = x] /\ was.phase = "dialing"
      BY <1>0, <1>5 DEF Connect
    <2>2. IsCall(x) /\ x.phase = "connected"
      BY <1>0 DEF IsCall, CallFields
    <2>3. Backed(was, Witnessed(inForce[c], was.server))
      BY <1>0, WitnessedGrows
    <2>4. Backed(x, Witnessed(inForce[c], x.server))
      BY <1>0, <2>1, <2>3 DEF IsCall, CallFields, Backed, HasUrl, HasInjection, HasClient, Wanted
    <2> HIDE DEF x
    <2> QED
      BY <1>5, <2>1, <2>2, <2>4, OneCallReads DEF Connect
  <1>6. ASSUME Insert(c) PROVE CallInv'
    <2> DEFINE x == [was EXCEPT !.phase = "sweeping", !.sweep = CachedServers(cache')]
    <2>1. /\ call' = [call EXCEPT ![c] = x] /\ was.phase = "connected"
          /\ cache' = {e \in cache : e.server # was.server} \cup {was.client}
      BY <1>0, <1>6 DEF Insert
    <2>2. IsCall(x) /\ x.phase = "sweeping"
      BY <1>0 DEF IsCall, CallFields
    <2>3. Backed(was, Witnessed(inForce[c], was.server))
      BY <1>0, WitnessedGrows
    <2>4. Backed(x, Witnessed(inForce[c], x.server))
      BY <1>0, <2>1, <2>3 DEF IsCall, CallFields, Backed, HasUrl, HasInjection, HasClient
    <2>5. SweepCovers(x, Witnessed(inForce[c], x.server), cache')
      BY <1>0, <2>1 DEF IsCall, CallFields, SweepCovers
    <2>6. was.client.server = was.server
      BY <1>0, <2>1 DEF Backed, HasClient
    <2>7. OneConnectionPerServer'
      BY <1>0, <2>1, <2>6 DEF OneConnectionPerServer
    <2> HIDE DEF x
    <2> QED
      BY <1>0, <1>6, <2>1, <2>2, <2>4, <2>5, <2>7, OneCallMoves
      DEF Insert, CacheUnlocked
  <1>7. ASSUME NEW s \in Servers, Sweep(c, s) PROVE CallInv'
    <2> DEFINE x == [was EXCEPT !.sweep = @ \ {s}]
    <2>1. /\ call' = [call EXCEPT ![c] = x] /\ was.phase = "sweeping"
          /\ cache' = {e \in cache : e.server # s \/ Registered(s)}
      BY <1>0, <1>7 DEF Sweep
    <2>2. IsCall(x) /\ x.phase = "sweeping" /\ x.sweep = was.sweep \ {s}
      BY <1>0, <2>1 DEF IsCall, CallFields
    <2>3. Backed(was, Witnessed(inForce[c], was.server))
      BY <1>0, WitnessedGrows
    <2>4. Backed(x, Witnessed(inForce[c], x.server))
      BY <1>0, <2>1, <2>3 DEF IsCall, CallFields, Backed, HasUrl, HasInjection, HasClient
    <2>5. SweepCovers(x, Witnessed(inForce[c], x.server), cache')
      BY <1>0, <2>1, <2>2 DEF SweepCovers, CachedServers, Witnessed
    <2>6. \A d \in Calls \ {c} : call[d].phase # "sweeping"
      BY <1>0, <2>1 DEF OneSweeper
    <2>7. OneConnectionPerServer'
      BY <1>0, <2>1 DEF OneConnectionPerServer
    <2> QED BY <2>1, <2>2, <2>4, <2>5, <2>6, <2>7, OneCallMoves
  <1>8. ASSUME SweepEnds(c) PROVE CallInv'
    <2> DEFINE x == [was EXCEPT !.phase = "forwarding"]
    <2>1. call' = [call EXCEPT ![c] = x] /\ was.phase = "sweeping"
      BY <1>0, <1>8 DEF SweepEnds
    <2>2. IsCall(x) /\ x.phase = "forwarding"
      BY <1>0 DEF IsCall, CallFields
    <2>3. Backed(was, Witnessed(inForce[c], was.server))
      BY <1>0, WitnessedGrows
    <2>4. Backed(x, Witnessed(inForce[c], x.server))
      BY <1>0, <2>1, <2>3 DEF IsCall, CallFields, Backed, HasUrl, HasInjection, HasClient
    <2> HIDE DEF x
    <2> QED
      BY <1>8, <2>1, <2>2, <2>4, OneCallReads DEF SweepEnds
  <1>9. ASSUME End(c) \/ Leave(c) PROVE CallInv'
    BY <1>9, CallsStay DEF End, Leave
  <1> QED
    BY <1>1, <1>2, <1>3, <1>4, <1>5, <1>6, <1>7, <1>8, <1>9 DEF CallStep, Progress

-----------------------------------------------------------------------------
(* Proxied requests *)

\* A step of one request keeps the invariant if it leaves its count in order.
LEMMA OneRequestMoves ==
  ASSUME ProxyInv, NEW r \in Requests, NEW p,
         proxied' = [proxied EXCEPT ![r] = p], IsProxied(p), SendsCounted(p)
  PROVE  ProxyInv'
  <1>1. /\ proxied' = [q \in Requests |-> proxied'[q]]
        /\ \A q \in Requests : proxied'[q] = IF q = r THEN p ELSE proxied[q]
    BY DEF ProxyInv
  <1>2. ASSUME NEW q \in Requests
        PROVE  IsProxied(proxied'[q]) /\ SendsCounted(proxied'[q])
    <2>1. CASE q = r
      BY <1>1, <2>1
    <2>2. CASE q # r
      BY <1>1, <2>2 DEF ProxyInv
    <2> QED BY <2>1, <2>2
  <1> QED BY <1>1, <1>2 DEF ProxyInv, IsProxied, SendsCounted

\* Nothing has been sent for a request that is idle or being read.
LEMMA NothingSentYet ==
  ASSUME NEW p, IsProxied(p), p.phase \in {"idle", "reading"},
         p.retries = 0, p.arrived = 0, p.status = None
  PROVE  SendsCounted(p)
  BY ProxyAssumption DEF SendsCounted

\* An answer keeps the count of what arrived.
LEMMA AnsweredCounts ==
  ASSUME NEW p, NEW status, IsProxied(p), p.arrived \in 0..(MaxRetries + 1),
         ~ Idempotent(p.method) => p.arrived <= 1,
         status \in Refusals => p.arrived = 0
  PROVE  IsProxied(Answered(p, status)) /\ SendsCounted(Answered(p, status))
  <1> DEFINE a == Answered(p, status)
  <1>1. IsProxied(a)
    BY DEF Answered, NoProxied, IsProxied, ProxiedFields
  <1>2. /\ a.phase = "answered" /\ a.status = status /\ a.method = p.method
        /\ a.arrived = p.arrived /\ a.retries = 0
    BY DEF Answered, NoProxied
  <1> HIDE DEF a
  <1>3. SendsCounted(a)
    BY <1>2, ProxyAssumption DEF SendsCounted
  <1> QED BY <1>1, <1>3 DEF a

\* Every step of a request.  A send that fails after the connection stood may
\* have arrived: it is retried only if the method is idempotent.
LEMMA ProxyStepKeeps ==
  ASSUME ProxyInv, NEW r \in Requests, ProxyHandles(r)
  PROVE  ProxyInv'
  <1> DEFINE was == proxied[r]
  <1>0. /\ proxied = [q \in Requests |-> proxied[q]]
        /\ IsProxied(was) /\ SendsCounted(was)
        /\ MaxRetries \in Nat
    BY ProxyAssumption DEF ProxyInv
  <1>1. ASSUME NEW status, was.phase \in {"idle", "reading"}, Answer(r, status)
        PROVE  ProxyInv'
    <2>1. was.arrived = 0
      BY <1>0, <1>1 DEF SendsCounted
    <2>2. proxied' = [proxied EXCEPT ![r] = Answered(was, status)]
      BY <1>0, <1>1 DEF Answer
    <2>3. IsProxied(Answered(was, status)) /\ SendsCounted(Answered(was, status))
      BY <1>0, <2>1, AnsweredCounts
    <2> QED BY <2>2, <2>3, OneRequestMoves
  <1>2. ASSUME NEW in \in Incoming, Receive(r, in) PROVE ProxyInv'
    <2> DEFINE i == MatchRoute(in.path, in.method)
               p == [NoProxied EXCEPT !.phase = "reading", !.route = i,
                       !.method = in.method, !.context = Resolved,
                       !.headers = in.headers, !.body = in.body]
    <2>1. \/ Answer(r, "no_route") \/ Answer(r, "context_unbound")
          \/ proxied' = [proxied EXCEPT ![r] = p]
      BY <1>2 DEF Receive
    <2>2. CASE proxied' = [proxied EXCEPT ![r] = p]
      <3>1. /\ IsProxied(p) /\ p.phase = "reading" /\ p.retries = 0
            /\ p.arrived = 0 /\ p.status = None
        BY DEF NoProxied, IsProxied, ProxiedFields
      <3>2. SendsCounted(p)
        BY <3>1, NothingSentYet
      <3> HIDE DEF p
      <3> QED BY <2>2, <3>1, <3>2, OneRequestMoves
    <2>3. was.phase = "idle"
      BY <1>2 DEF Receive
    <2> QED BY <1>1, <2>1, <2>2, <2>3
  <1>3. ASSUME BodyTooLarge(r) PROVE ProxyInv'
    BY <1>1, <1>3 DEF BodyTooLarge
  <1>4. ASSUME BodyRead(r) PROVE ProxyInv'
    <2>1. PICK out :
            IF out = None THEN Answer(r, "invalid_body")
            ELSE proxied' = [proxied EXCEPT ![r].phase = "sending", ![r].context = Base,
                                            ![r].headers = out.headers, ![r].body = out.body]
      BY <1>4 DEF BodyRead
    <2>2. was.phase = "reading"
      BY <1>4 DEF BodyRead
    <2>3. CASE out # None
      <3> DEFINE p == [was EXCEPT !.phase = "sending", !.context = Base,
                                  !.headers = out.headers, !.body = out.body]
      <3>1. proxied' = [proxied EXCEPT ![r] = p]
        BY <1>0, <2>1, <2>3
      <3>2. /\ IsProxied(p) /\ p.phase = "sending" /\ p.retries = was.retries
            /\ p.arrived = was.arrived /\ p.status = was.status /\ p.method = was.method
        BY <1>0 DEF IsProxied, ProxiedFields
      <3> HIDE DEF p
      <3>3. SendsCounted(p)
        BY <1>0, <2>2, <3>2 DEF SendsCounted
      <3> QED BY <3>1, <3>2, <3>3, OneRequestMoves
    <2> QED BY <1>1, <2>1, <2>2, <2>3
  <1>5. ASSUME NEW connect \in BOOLEAN, SendFails(r, connect) PROVE ProxyInv'
    <2> DEFINE p == [was EXCEPT !.arrived = IF connect THEN @ ELSE @ + 1]
               again == [p EXCEPT !.retries = @ + 1]
    <2>1. /\ IsProxied(p) /\ p.phase = was.phase /\ p.retries = was.retries
          /\ p.arrived = IF connect THEN was.arrived ELSE was.arrived + 1
          /\ p.status = was.status /\ p.method = was.method
      <3>1. was = [f \in ProxiedFields |-> was[f]]
        BY <1>0 DEF IsProxied
      <3> HIDE DEF was
      <3> DEFINE n == IF connect THEN was.arrived ELSE was.arrived + 1
      <3>2. p = [was EXCEPT !.arrived = n]
        OBVIOUS
      <3> HIDE DEF n, p
      <3>3. IsProxied(p) /\ p.phase = was.phase /\ p.retries = was.retries
        BY <3>1, <3>2 DEF IsProxied, ProxiedFields
      <3>4. p.arrived = n /\ p.status = was.status /\ p.method = was.method
        BY <3>1, <3>2 DEF ProxiedFields
      <3> QED BY <3>3, <3>4 DEF n
    <2>2. /\ IsProxied(again) /\ again.phase = p.phase /\ again.retries = p.retries + 1
          /\ again.arrived = p.arrived /\ again.status = p.status /\ again.method = p.method
      <3> HIDE DEF p
      <3> QED BY <2>1 DEF IsProxied, ProxiedFields
    <2>3. /\ p.phase = "sending"
          /\ proxied' = [proxied EXCEPT ![r] =
               IF p.retries < MaxRetries /\ SendRetryable(p.method, connect)
               THEN again ELSE Answered(p, "request_failed")]
      BY <1>5 DEF SendFails
    <2> HIDE DEF p, again
    <2>4. CASE p.retries < MaxRetries /\ SendRetryable(p.method, connect)
      <3>1. SendsCounted(again)
        BY <1>0, <2>1, <2>2, <2>3, <2>4, ProxyAssumption DEF SendsCounted, SendRetryable
      <3> QED BY <2>2, <2>3, <2>4, <3>1, OneRequestMoves
    <2>5. CASE ~(p.retries < MaxRetries /\ SendRetryable(p.method, connect))
      <3>1. /\ p.arrived \in 0..(MaxRetries + 1)
            /\ ~ Idempotent(p.method) => p.arrived <= 1
        BY <1>0, <2>1, <2>3 DEF SendsCounted
      <3>2. /\ IsProxied(Answered(p, "request_failed"))
            /\ SendsCounted(Answered(p, "request_failed"))
        BY <2>1, <3>1, AnsweredCounts DEF Refusals
      <3> QED BY <2>3, <2>5, <3>2, OneRequestMoves
    <2> QED BY <2>4, <2>5
  <1>6. ASSUME NEW status \in Statuses, SendAnswered(r, status) PROVE ProxyInv'
    <2> DEFINE p == [was EXCEPT !.arrived = @ + 1]
    <2>1. PICK said \in {"remapped", status} :
            p.phase = "sending" /\ proxied' = [proxied EXCEPT ![r] = Answered(p, said)]
      BY <1>6 DEF SendAnswered
    <2>2. /\ IsProxied(p) /\ p.phase = was.phase
          /\ p.arrived = was.arrived + 1 /\ p.method = was.method
      BY <1>0 DEF IsProxied, ProxiedFields
    <2> HIDE DEF p
    <2>3. /\ p.arrived \in 0..(MaxRetries + 1)
          /\ ~ Idempotent(p.method) => p.arrived <= 1
      BY <1>0, <2>1, <2>2 DEF SendsCounted
    <2>4. said \notin Refusals
      BY ProxyAssumption DEF Refusals
    <2>5. IsProxied(Answered(p, said)) /\ SendsCounted(Answered(p, said))
      BY <2>2, <2>3, <2>4, AnsweredCounts
    <2> QED BY <2>1, <2>5, OneRequestMoves
  <1>7. ASSUME Hangup(r) PROVE ProxyInv'
    <2>1. /\ IsProxied(NoProxied) /\ NoProxied.phase = "idle" /\ NoProxied.retries = 0
          /\ NoProxied.arrived = 0 /\ NoProxied.status = None
      BY DEF NoProxied, IsProxied, ProxiedFields
    <2>2. SendsCounted(NoProxied)
      BY <2>1, NothingSentYet
    <2> QED BY <1>7, <2>1, <2>2, OneRequestMoves DEF Hangup
  <1> QED BY <1>2, <1>3, <1>4, <1>5, <1>6, <1>7 DEF ProxyHandles

-----------------------------------------------------------------------------
(* The two together *)

\* The invariant holds in every state of the broker.
LEMMA BrokerInvariant == Spec => []BrokerInv
  <1>1. Init => BrokerInv
    <2> SUFFICES ASSUME Init PROVE BrokerInv
      OBVIOUS
    <2>1. CallInv
      BY DEF Init, McpInit, NoCall, CallInv, IsCall, CallFields, Backed, SweepCovers,
             HasUrl, HasInjection, HasClient, OneSweeper, OneConnectionPerServer
    <2>2. /\ IsProxied(NoProxied) /\ NoProxied.phase = "idle" /\ NoProxied.retries = 0
          /\ NoProxied.arrived = 0 /\ NoProxied.status = None
      BY DEF NoProxied, IsProxied, ProxiedFields
    <2>3. SendsCounted(NoProxied)
      BY <2>2, NothingSentYet
    <2>4. ProxyInv
      BY <2>2, <2>3 DEF Init, ProxyInit, ProxyInv
    <2>5. ClientsKnown
      BY BrokerAssumption DEF Init, ClientsKnown
    <2> QED BY <2>1, <2>4, <2>5 DEF BrokerInv
  <1>2. BrokerInv /\ [Next]_vars => BrokerInv'
    <2> SUFFICES ASSUME BrokerInv, [Next]_vars PROVE BrokerInv'
      OBVIOUS
    <2> USE DEF BrokerInv
    <2>1. CASE CallsAndChanges /\ Watched
      <3>1. ProxyInv' /\ ClientsKnown'
        BY <2>1 DEF CallsAndChanges, Watched, ProxyInv, IsProxied, SendsCounted, ClientsKnown
      <3>2. ASSUME ControlPlane PROVE CallInv'
        <4>1. UNCHANGED <<cache, call>>
          BY <3>2 DEF ControlPlane, Register, Deregister, RegistrationFallsDue, Bind,
                      Unbind, BindingFallsDue
        <4> QED BY <2>1, <4>1, CallsStay DEF Watched
      <3>3. ASSUME NEW c \in clients.calls, CallStep(c) PROVE CallInv'
        <4>1. c \in Calls
          BY DEF ClientsKnown
        <4> QED BY <2>1, <3>3, <4>1, CallStepKeeps DEF Watched
      <3> QED BY <2>1, <3>1, <3>2, <3>3 DEF CallsAndChanges
    <2>2. CASE Proxies /\ Watched
      <3>1. CallInv' /\ ClientsKnown'
        BY <2>2, CallsStay DEF Proxies, Watched, ClientsKnown
      <3>2. PICK r \in clients.requests : ProxyHandles(r)
        BY <2>2 DEF Proxies
      <3>3. r \in Requests
        BY <3>2 DEF ClientsKnown
      <3> QED BY <3>1, <3>2, <3>3, ProxyStepKeeps
    <2>3. CASE UNCHANGED vars
      BY <2>3 DEF vars, mcpVars, proxyVars, CallInv, IsCall, Backed, SweepCovers,
                  CachedServers, OneSweeper, OneConnectionPerServer, ProxyInv, IsProxied,
                  SendsCounted, ClientsKnown
    <2> QED BY <2>1, <2>2, <2>3 DEF Next
  <1> QED BY <1>1, <1>2, PTL DEF Spec

\* However many calls open connections without the cache's lock, a server never
\* has two of them in it.
THEOREM CacheHoldsOnePerServer == Spec => []OneConnectionPerServer
  <1>1. BrokerInv => OneConnectionPerServer
    BY DEF BrokerInv, CallInv
  <1> QED BY <1>1, BrokerInvariant, PTL

\* A call reaches its upstream only under a URL and an identity that were both
\* in force while it ran, through whatever client it found or built.
THEOREM CallsAreAuthorised == Spec => []ForwardedAsAuthorised
  <1>1. BrokerInv => ForwardedAsAuthorised
    <2> SUFFICES ASSUME BrokerInv, NEW c \in Calls, call[c].phase = "forwarding"
                 PROVE  /\ call[c].client.server = call[c].server
                        /\ call[c].client.url \in inForce[c].urls
                        /\ call[c].client.injection \in inForce[c].injections
                        /\ Required \subseteq DOMAIN call[c].client.injection
      BY DEF ForwardedAsAuthorised
    <2>1. Backed(call[c], inForce[c])
      BY DEF BrokerInv, CallInv
    <2>2. call[c].client = [server |-> call[c].server, injection |-> call[c].injection,
                            url |-> call[c].url]
      BY <2>1 DEF Backed, HasClient
    <2>3. /\ call[c].url \in inForce[c].urls
          /\ call[c].injection \in inForce[c].injections
          /\ Required \subseteq DOMAIN call[c].injection
      BY <2>1 DEF Backed, HasUrl, HasInjection
    <2> QED BY <2>2, <2>3
  <1> QED BY <1>1, BrokerInvariant, PTL

\* No call is refused for a server or an identity that was there all along.
THEOREM RefusalsHaveCause == Spec => []RefusedForCause
  <1>1. BrokerInv => RefusedForCause
    BY DEF BrokerInv, CallInv, Backed, RefusedForCause
  <1> QED BY <1>1, BrokerInvariant, PTL

\* When a call leaves the sweep, no client of a server that was unregistered
\* all the time is left in the cache: the sweep covered every one it found, and
\* nobody else could add one.
THEOREM SweepIsThorough == Spec => RemovedServersAreSwept
  <1>1. BrokerInv /\ [Next]_vars =>
          [\A c \in Calls :
             (call'[c].phase = "forwarding" /\ call[c].phase # "forwarding")
               => CachedServers(cache') \cap inForce[c].gone = {}]_mcpVars
    <2> SUFFICES ASSUME BrokerInv, Next, NEW c \in Calls,
                        call'[c].phase = "forwarding", call[c].phase # "forwarding"
                 PROVE  CachedServers(cache') \cap inForce[c].gone = {}
      BY DEF vars
    <2>1. call = [d \in Calls |-> call[d]] /\ \A d \in Calls : IsCall(call[d])
      BY DEF BrokerInv, CallInv
    <2>2. PICK d \in Calls : CallStep(d)
      BY <2>1 DEF Next, CallsAndChanges, Proxies, BrokerInv, ClientsKnown, ControlPlane,
                  Register, Deregister, RegistrationFallsDue, Bind, Unbind, BindingFallsDue
    <2>3. d = c
      BY <2>1, <2>2 DEF CallStep, Progress, ResolveServer, ResolveContext, CacheHit,
           CacheMiss, Connect, Insert, Sweep, SweepEnds, End, Leave
    <2>4. SweepEnds(c)
      <3>1. ASSUME NEW s \in Servers, ResolveServer(c, s) PROVE FALSE
        <4>1. CASE Registered(s)
          BY <2>1, <3>1, <4>1 DEF ResolveServer, IsCall, CallFields
        <4>2. CASE ~ Registered(s)
          BY <2>1, <3>1, <4>2 DEF ResolveServer, IsCall, CallFields
        <4> QED BY <4>1, <4>2
      <3>2. ~(ResolveContext(c) \/ CacheHit(c) \/ CacheMiss(c) \/ Connect(c) \/ Insert(c))
        <4>1. ~ ResolveContext(c)
          BY <2>1 DEF ResolveContext, IsCall, CallFields
        <4>2. ~ CacheHit(c)
          BY <2>1 DEF CacheHit, IsCall, CallFields
        <4>3. ~ CacheMiss(c)
          BY <2>1 DEF CacheMiss, IsCall, CallFields
        <4>4. ~ Connect(c)
          BY <2>1 DEF Connect, IsCall, CallFields
        <4>5. ~ Insert(c)
          BY <2>1 DEF Insert, IsCall, CallFields
        <4> QED BY <4>1, <4>2, <4>3, <4>4, <4>5
      <3>3. ~ \E s \in Servers : Sweep(c, s)
        BY <2>1 DEF Sweep, IsCall, CallFields
      <3>4. ~(End(c) \/ Leave(c))
        BY <2>1 DEF End, Leave, NoCall
      <3> QED BY <2>2, <2>3, <3>1, <3>2, <3>3, <3>4 DEF CallStep, Progress
    <2>5. /\ UNCHANGED cache /\ call[c].phase = "sweeping" /\ call[c].sweep = {}
          /\ SweepCovers(call[c], inForce[c], cache)
      BY <2>4 DEF SweepEnds, BrokerInv, CallInv
    <2> QED BY <2>5 DEF SweepCovers, CachedServers
  <1> QED BY <1>1, BrokerInvariant, PTL DEF Spec, RemovedServersAreSwept

\* Whatever fails and in whatever order, an upstream gets a request that is not
\* idempotent at most once, any request at most MaxRetries + 1 times, and a
\* refused one never.
THEOREM RetriesNeverDuplicate == Spec => []SentOnceUnlessIdempotent
  <1>1. BrokerInv => SentOnceUnlessIdempotent
    BY ProxyAssumption DEF BrokerInv, ProxyInv, SendsCounted, SentOnceUnlessIdempotent
  <1> QED BY <1>1, BrokerInvariant, PTL

-----------------------------------------------------------------------------
(* Lists *)

\* Every set of naturals has a least one.
LEMMA LeastOf ==
  ASSUME NEW T, T \subseteq Nat, T # {}
  PROVE  \E m \in T : \A n \in T : m <= n
  <1> DEFINE R == OpToRel(<, Nat)
  <1>1. IsWellFoundedOn(R, Nat)
    BY NatLessThanWellFounded
  <1>2. \A x, y \in Nat : x < y => <<x, y>> \in R
    BY DEF OpToRel
  <1> HIDE DEF R
  <1>3. PICK x \in T : \A y \in T : ~ (<<y, x>> \in R)
    BY <1>1, WFMin, Zenon
  <1>4. ASSUME NEW y \in T PROVE x <= y
    <2>1. ~ (y < x)
      BY <1>2, <1>3
    <2> QED BY <2>1
  <1> QED BY <1>4

\* A list has a length and its elements at 1 to that length.
LEMMA ListedShape ==
  ASSUME NEW s, IsListed(s)
  PROVE  Len(s) \in Nat /\ DOMAIN s = 1..Len(s) /\ \A i \in 1..Len(s) : s[i] \in ToSet(s)
  BY DEF IsListed, ToSet

-----------------------------------------------------------------------------
(* The pipeline: whatever its steps, the last one for a header or a field  *)
(* has the last word.                                                      *)

\* What a fold over a list is: the values after 0, 1, ... n steps, the i-th of
\* which is what the i-th step of `steps` makes of the one before.
Applies(after, n, steps, context, out) ==
  after = [i \in 0..n |-> IF i = 0 THEN out ELSE Apply(steps[i], context, after[i - 1])]

\* There are such values for every number of steps.
LEMMA AppliesExists ==
  ASSUME NEW steps, NEW context, NEW out, NEW n \in Nat
  PROVE  \E after : Applies(after, n, steps, context, out)
  <1> DEFINE T == {m \in Nat : ~ \E after : Applies(after, m, steps, context, out)}
  <1>1. SUFFICES ASSUME T # {} PROVE FALSE
    OBVIOUS
  <1>2. PICK m \in T : \A k \in T : m <= k
    <2>1. T \subseteq Nat
      OBVIOUS
    <2> HIDE DEF T
    <2> QED BY <1>1, <2>1, LeastOf
  <1>3. CASE m = 0
    <2> DEFINE g == [i \in 0..0 |-> out]
    <2>1. g = [i \in 0..0 |-> IF i = 0 THEN out ELSE Apply(steps[i], context, g[i - 1])]
      OBVIOUS
    <2> HIDE DEF g
    <2>2. Applies(g, 0, steps, context, out)
      BY <2>1 DEF Applies
    <2> QED BY <1>3, <2>2
  <1>4. CASE m # 0
    <2>1. m - 1 \in Nat /\ m - 1 \notin T /\ m \in Nat
      BY <1>2, <1>4
    <2>2. PICK g : Applies(g, m - 1, steps, context, out)
      BY <2>1
    <2> DEFINE f == [i \in 0..m |-> IF i = m THEN Apply(steps[i], context, g[i - 1]) ELSE g[i]]
    <2>3. ASSUME NEW i \in 0..m
          PROVE  f[i] = IF i = 0 THEN out ELSE Apply(steps[i], context, f[i - 1])
      <3>1. CASE i = m
        <4>1. i - 1 \in 0..m /\ i - 1 # m /\ i # 0
          BY <1>4, <2>1, <3>1
        <4>2. f[i - 1] = g[i - 1]
          BY <4>1
        <4> QED BY <3>1, <4>1, <4>2
      <3>2. CASE i # m
        <4>1. i \in 0..(m - 1) /\ f[i] = g[i]
          BY <2>1, <3>2
        <4>2. i # 0 => i - 1 \in 0..m /\ i - 1 # m /\ f[i - 1] = g[i - 1]
          BY <2>1, <3>2
        <4> HIDE DEF f
        <4>3. g[i] = IF i = 0 THEN out ELSE Apply(steps[i], context, g[i - 1])
          BY <2>2, <4>1 DEF Applies
        <4> QED BY <4>1, <4>2, <4>3
      <3> QED BY <3>1, <3>2
    <2>4. f = [i \in 0..m |-> f[i]]
      OBVIOUS
    <2> HIDE DEF f
    <2>5. Applies(f, m, steps, context, out)
      BY <2>3, <2>4 DEF Applies
    <2> QED BY <2>5
  <1> QED BY <1>3, <1>4

\* The pipeline's result is the last of them.
LEMMA TransformedIs ==
  ASSUME NEW steps, Len(steps) \in Nat, NEW context, NEW out
  PROVE  \E after : /\ Applies(after, Len(steps), steps, context, out)
                    /\ Transformed(steps, context, out) = after[Len(steps)]
  <1> DEFINE after == CHOOSE f : f = [i \in 0..Len(steps) |->
                        IF i = 0 THEN out ELSE Apply(steps[i], context, f[i - 1])]
  <1>1. \E f : f = [i \in 0..Len(steps) |->
                        IF i = 0 THEN out ELSE Apply(steps[i], context, f[i - 1])]
    <2>1. PICK f : Applies(f, Len(steps), steps, context, out)
      BY AppliesExists
    <2> QED BY <2>1 DEF Applies
  <1>2. Applies(after, Len(steps), steps, context, out)
    BY <1>1, Zenon DEF Applies
  <1>3. Transformed(steps, context, out) = after[Len(steps)]
    BY Zenon DEF Transformed
  <1> QED BY <1>2, <1>3

\* HeadersAsBound and BodyAsBound of the first n steps.
LastOfFirst(n, steps, i) ==
  \A j \in 1..n : j > i =>
    /\ steps[j].target = steps[i].target => steps[j].name # steps[i].name
    /\ steps[j].target = "wrap" => steps[i].target = "header"

HeaderSoFar(i, steps, context, headers) ==
  IF Unresolved(steps[i], context) THEN steps[i].name \notin DOMAIN headers
  ELSE InjectedValue(steps[i], context) \in Writable =>
         steps[i].name \in DOMAIN headers /\ headers[steps[i].name] = InjectedValue(steps[i], context)

FieldSoFar(i, steps, context, body) ==
  ~ Unresolved(steps[i], context) =>
    steps[i].name \in DOMAIN body /\ body[steps[i].name] = InjectedValue(steps[i], context)

WrapSoFar(n, i, steps, context, body) ==
  \A f \in DOMAIN body \ {steps[i].name} : \E j \in 1..n :
    j > i /\ steps[j].target = "body" /\ steps[j].name = f /\ ~ Unresolved(steps[j], context)

SoFar(n, steps, context, out) ==
  \A i \in 1..n : LastOfFirst(n, steps, i) =>
    /\ steps[i].target = "header" => HeaderSoFar(i, steps, context, out.headers)
    /\ steps[i].target = "body" => FieldSoFar(i, steps, context, out.body)
    /\ steps[i].target = "wrap" => WrapSoFar(n, i, steps, context, out.body)

IsOut(out) == out = [headers |-> out.headers, body |-> out.body]

\* What one step makes of the headers and the body.
LEMMA OneStep ==
  ASSUME NEW step, NEW context, NEW out, IsOut(out), Apply(step, context, out) # None
  PROVE  LET made == Apply(step, context, out) IN
         /\ IsOut(made)
         /\ step.target = "wrap" => /\ made.headers = out.headers
                                    /\ made.body = With(<< >>, step.name, Caller)
         /\ step.target = "header" =>
              /\ made.body = out.body
              /\ made.headers = IF Unresolved(step, context) THEN Without(out.headers, step.name)
                                ELSE SetHeader(out.headers, step.name, InjectedValue(step, context))
         /\ step.target \notin {"wrap", "header"} =>
              /\ made.headers = out.headers
              /\ made.body = IF Unresolved(step, context) THEN out.body
                             ELSE With(out.body, step.name, InjectedValue(step, context))
  BY DEF Apply, Wrap, Inject, IsOut

\* The places of a function are as they were but for one.
SameBut(f, g, name) ==
  \A k : k # name => /\ k \in DOMAIN f <=> k \in DOMAIN g
                     /\ k \in DOMAIN f => f[k] = g[k]

\* A header is set or taken away, and others stay.
LEMMA HeaderSet ==
  ASSUME NEW step, NEW context, NEW out, IsOut(out), Apply(step, context, out) # None,
         step.target = "header"
  PROVE  LET made == Apply(step, context, out) IN
         /\ made.body = out.body
         /\ SameBut(out.headers, made.headers, step.name)
         /\ IF Unresolved(step, context) THEN step.name \notin DOMAIN made.headers
            ELSE InjectedValue(step, context) \in Writable =>
                   /\ step.name \in DOMAIN made.headers
                   /\ made.headers[step.name] = InjectedValue(step, context)
  <1> DEFINE made == Apply(step, context, out)
             value == InjectedValue(step, context)
  <1>1. /\ made.body = out.body
        /\ made.headers = IF Unresolved(step, context) THEN Without(out.headers, step.name)
                          ELSE SetHeader(out.headers, step.name, value)
    BY OneStep
  <1> HIDE DEF made, value
  <1>2. CASE Unresolved(step, context)
    BY <1>1, <1>2 DEF Without, SameBut, made
  <1>3. CASE ~ Unresolved(step, context)
    BY <1>1, <1>3 DEF SetHeader, With, SameBut, made, value
  <1> QED BY <1>2, <1>3

\* A field is set, unless there is nothing to set, and others stay.
LEMMA FieldSet ==
  ASSUME NEW step, NEW context, NEW out, IsOut(out), Apply(step, context, out) # None,
         step.target = "body"
  PROVE  LET made == Apply(step, context, out) IN
         /\ made.headers = out.headers
         /\ SameBut(out.body, made.body, step.name)
         /\ IF Unresolved(step, context) THEN made.body = out.body
            ELSE /\ step.name \in DOMAIN made.body
                 /\ made.body[step.name] = InjectedValue(step, context)
  <1> DEFINE made == Apply(step, context, out)
             value == InjectedValue(step, context)
  <1>1. /\ made.headers = out.headers
        /\ made.body = IF Unresolved(step, context) THEN out.body
                       ELSE With(out.body, step.name, value)
    BY OneStep
  <1> HIDE DEF made, value
  <1>2. CASE Unresolved(step, context)
    BY <1>1, <1>2 DEF SameBut, made
  <1>3. CASE ~ Unresolved(step, context)
    BY <1>1, <1>3 DEF With, SameBut, made, value
  <1> QED BY <1>2, <1>3

\* A wrapped body has one field.
LEMMA BodyWrapped ==
  ASSUME NEW step, NEW context, NEW out, IsOut(out), Apply(step, context, out) # None,
         step.target = "wrap"
  PROVE  LET made == Apply(step, context, out) IN
         made.headers = out.headers /\ DOMAIN made.body \subseteq {step.name}
  <1> DEFINE made == Apply(step, context, out)
  <1>1. made.headers = out.headers /\ made.body = With(<< >>, step.name, Caller)
    BY OneStep
  <1> HIDE DEF made
  <1>2. DOMAIN << >> = {}
    OBVIOUS
  <1>3. DOMAIN With(<< >>, step.name, Caller) = {step.name}
    BY <1>2 DEF With
  <1> QED BY <1>1, <1>3 DEF made

\* One step more.
LEMMA OneMoreStep ==
  ASSUME NEW n \in Nat, NEW steps, NEW context, NEW out, IsOut(out), SoFar(n, steps, context, out),
         steps[n + 1].target \in {"header", "body", "wrap"},
         Apply(steps[n + 1], context, out) # None
  PROVE  /\ IsOut(Apply(steps[n + 1], context, out))
         /\ SoFar(n + 1, steps, context, Apply(steps[n + 1], context, out))
  <1> DEFINE step == steps[n + 1]
             made == Apply(step, context, out)
  <1>1. IsOut(made)
    BY OneStep
  <1>2. step.target = "header" =>
          /\ made.body = out.body
          /\ SameBut(out.headers, made.headers, step.name)
          /\ IF Unresolved(step, context) THEN step.name \notin DOMAIN made.headers
             ELSE InjectedValue(step, context) \in Writable =>
                    /\ step.name \in DOMAIN made.headers
                    /\ made.headers[step.name] = InjectedValue(step, context)
    BY HeaderSet
  <1>3. step.target = "body" =>
          /\ made.headers = out.headers
          /\ SameBut(out.body, made.body, step.name)
          /\ IF Unresolved(step, context) THEN made.body = out.body
             ELSE /\ step.name \in DOMAIN made.body
                  /\ made.body[step.name] = InjectedValue(step, context)
    BY FieldSet
  <1>4. step.target = "wrap" => made.headers = out.headers /\ DOMAIN made.body \subseteq {step.name}
    BY BodyWrapped
  <1>5. step.target \in {"header", "body", "wrap"}
    OBVIOUS
  <1> SUFFICES ASSUME NEW i \in 1..(n + 1), LastOfFirst(n + 1, steps, i)
               PROVE  /\ steps[i].target = "header" => HeaderSoFar(i, steps, context, made.headers)
                      /\ steps[i].target = "body" => FieldSoFar(i, steps, context, made.body)
                      /\ steps[i].target = "wrap" => WrapSoFar(n + 1, i, steps, context, made.body)
    BY <1>1 DEF SoFar
  <1> HIDE DEF made
  <1>6. CASE i = n + 1
    <2>1. steps[i] = step
      BY <1>6
    <2> HIDE DEF step
    <2>2. step.target = "header" => HeaderSoFar(i, steps, context, made.headers)
      BY <1>2, <2>1 DEF HeaderSoFar
    <2>3. step.target = "body" => FieldSoFar(i, steps, context, made.body)
      BY <1>3, <2>1 DEF FieldSoFar
    <2>4. step.target = "wrap" => WrapSoFar(n + 1, i, steps, context, made.body)
      BY <1>4, <2>1 DEF WrapSoFar
    <2> QED BY <2>1, <2>2, <2>3, <2>4
  <1>7. CASE i # n + 1
    <2>1. i \in 1..n /\ n + 1 > i /\ n + 1 \in 1..(n + 1) /\ \A j \in 1..n : j \in 1..(n + 1)
      BY <1>7
    <2>2. LastOfFirst(n, steps, i)
      BY <2>1 DEF LastOfFirst
    <2>3. /\ step.target = steps[i].target => step.name # steps[i].name
          /\ step.target = "wrap" => steps[i].target = "header"
      BY <2>1 DEF LastOfFirst
    <2>4. /\ steps[i].target = "header" => HeaderSoFar(i, steps, context, out.headers)
          /\ steps[i].target = "body" => FieldSoFar(i, steps, context, out.body)
          /\ steps[i].target = "wrap" => WrapSoFar(n, i, steps, context, out.body)
      BY <2>1, <2>2 DEF SoFar
    <2> DEFINE name == steps[i].name
    <2>5. ASSUME steps[i].target = "header" PROVE HeaderSoFar(i, steps, context, made.headers)
      <3> HIDE DEF step
      <3>1. /\ name \in DOMAIN made.headers <=> name \in DOMAIN out.headers
            /\ name \in DOMAIN out.headers => made.headers[name] = out.headers[name]
        BY <1>2, <1>3, <1>4, <1>5, <2>3, <2>5 DEF SameBut
      <3> QED BY <2>4, <2>5, <3>1 DEF HeaderSoFar
    <2>6. ASSUME steps[i].target = "body" PROVE FieldSoFar(i, steps, context, made.body)
      <3> HIDE DEF step
      <3>1. /\ name \in DOMAIN made.body <=> name \in DOMAIN out.body
            /\ name \in DOMAIN out.body => made.body[name] = out.body[name]
        BY <1>2, <1>3, <1>5, <2>3, <2>6 DEF SameBut
      <3> QED BY <2>4, <2>6, <3>1 DEF FieldSoFar
    <2>7. ASSUME steps[i].target = "wrap", NEW f \in DOMAIN made.body \ {name}
          PROVE  \E j \in 1..(n + 1) : /\ j > i /\ steps[j].target = "body"
                                       /\ steps[j].name = f /\ ~ Unresolved(steps[j], context)
      <3>1. CASE f \in DOMAIN out.body
        <4>1. PICK j \in 1..n : /\ j > i /\ steps[j].target = "body"
                                /\ steps[j].name = f /\ ~ Unresolved(steps[j], context)
          BY <2>4, <2>7, <3>1 DEF WrapSoFar
        <4> QED BY <2>1, <4>1
      <3>2. CASE f \notin DOMAIN out.body
        <4> HIDE DEF step
        <4>1. step.target = "body" /\ ~ Unresolved(step, context) /\ f = step.name
          BY <1>2, <1>3, <1>5, <2>3, <2>7, <3>2 DEF SameBut
        <4> QED BY <2>1, <4>1 DEF step
      <3> QED BY <3>1, <3>2
    <2> QED BY <2>5, <2>6, <2>7 DEF WrapSoFar
  <1> QED BY <1>6, <1>7

AllTargets(steps) == \A i \in DOMAIN steps : steps[i].target \in {"header", "body", "wrap"}

\* What comes out of the pipeline is as bound.
LEMMA PipelineBinds ==
  ASSUME NEW steps, Len(steps) \in Nat, DOMAIN steps = 1..Len(steps), AllTargets(steps),
         NEW context, NEW in, IsOut(in), Transformed(steps, context, in) # None
  PROVE  LET out == Transformed(steps, context, in) IN
         HeadersAsBound(steps, context, out.headers) /\ BodyAsBound(steps, context, out.body)
  <1> DEFINE n == Len(steps)
  <1>1. PICK after : Applies(after, n, steps, context, in) /\ Transformed(steps, context, in) = after[n]
    BY TransformedIs
  <1>2. after[0] = in /\ \A m \in 0..(n - 1) : after[m + 1] = Apply(steps[m + 1], context, after[m])
    <2>1. after[0] = in
      BY <1>1 DEF Applies
    <2>2. ASSUME NEW m \in 0..(n - 1) PROVE after[m + 1] = Apply(steps[m + 1], context, after[m])
      <3>1. m + 1 \in 0..n /\ m + 1 # 0 /\ (m + 1) - 1 = m
        OBVIOUS
      <3>2. after[m + 1] = Apply(steps[m + 1], context, after[(m + 1) - 1])
        BY <1>1, <3>1 DEF Applies
      <3> QED BY <3>1, <3>2
    <2> QED BY <2>1, <2>2
  <1> DEFINE Good(m) == after[m] # None => IsOut(after[m]) /\ SoFar(m, steps, context, after[m])
             T == {m \in 0..n : ~ Good(m)}
  <1>3. T = {}
    <2> SUFFICES ASSUME T # {} PROVE FALSE
      OBVIOUS
    <2>1. PICK m \in T : \A k \in T : m <= k
      <3>1. T \subseteq Nat
        OBVIOUS
      <3> HIDE DEF T
      <3> QED BY <3>1, LeastOf
    <2>2. m # 0
      <3>1. SoFar(0, steps, context, in)
        BY DEF SoFar
      <3> QED BY <1>2, <3>1
    <2>3. m - 1 \in 0..(n - 1) /\ Good(m - 1) /\ (m - 1) + 1 = m /\ m \in DOMAIN steps /\ m - 1 \in Nat
      BY <2>1, <2>2
    <2>4. after[m] = Apply(steps[m], context, after[m - 1]) /\ after[m] # None
      BY <1>2, <2>1, <2>3
    <2>5. after[m - 1] # None /\ steps[m].target \in {"header", "body", "wrap"}
      BY <2>3, <2>4 DEF Apply, AllTargets
    <2>6. Good(m)
      <3> DEFINE k == m - 1
      <3>1. k \in Nat /\ k + 1 = m /\ IsOut(after[k]) /\ SoFar(k, steps, context, after[k])
        BY <2>3, <2>5
      <3> HIDE DEF k
      <3>2. after[m] = Apply(steps[k + 1], context, after[k])
        BY <2>4, <3>1 DEF k
      <3> QED BY <2>4, <2>5, <3>1, <3>2, OneMoreStep
    <2> QED BY <2>1, <2>6
  <1>4. SoFar(n, steps, context, after[n])
    <2>1. n \in 0..n
      OBVIOUS
    <2> QED BY <1>1, <1>3, <2>1
  <1>5. \A i \in DOMAIN steps : LastWord(steps, i) <=> LastOfFirst(n, steps, i)
    BY DEF LastWord, LastOfFirst
  <1> QED BY <1>1, <1>4, <1>5 DEF SoFar, HeadersAsBound, HeaderSoFar, BodyAsBound, FieldSoFar, WrapSoFar

-----------------------------------------------------------------------------
(* The routes of the configuration *)

\* The first n steps of flattening ss.
Flattens(f, n, ss) == f = [i \in 1..n |-> IF i = 1 THEN ss[i] ELSE f[i - 1] \o ss[i]]

LEMMA FlattenExists ==
  ASSUME NEW ss, NEW n \in Nat
  PROVE  \E f : Flattens(f, n, ss)
  <1> DEFINE T == {m \in Nat : ~ \E f : Flattens(f, m, ss)}
  <1>1. SUFFICES ASSUME T # {} PROVE FALSE
    OBVIOUS
  <1>2. PICK m \in T : \A k \in T : m <= k
    <2>1. T \subseteq Nat
      OBVIOUS
    <2> HIDE DEF T
    <2> QED BY <1>1, <2>1, LeastOf
  <1>3. CASE m = 0
    <2>1. Flattens(<<>>, 0, ss)
      BY DEF Flattens
    <2> QED BY <1>3, <2>1
  <1>4. CASE m # 0
    <2>1. m - 1 \in Nat /\ m - 1 \notin T /\ m \in Nat
      BY <1>2, <1>4
    <2>2. PICK g : Flattens(g, m - 1, ss)
      BY <2>1
    <2> DEFINE f == [i \in 1..m |-> IF i = m THEN IF i = 1 THEN ss[i] ELSE g[i - 1] \o ss[i] ELSE g[i]]
    <2>3. ASSUME NEW i \in 1..m PROVE f[i] = IF i = 1 THEN ss[i] ELSE f[i - 1] \o ss[i]
      <3>1. CASE i = m
        BY <2>1, <3>1
      <3>2. CASE i # m
        <4>1. i \in 1..(m - 1) /\ f[i] = g[i] /\ (i # 1 => i - 1 \in 1..(m - 1) /\ f[i - 1] = g[i - 1])
          BY <2>1, <3>2
        <4>2. g[i] = IF i = 1 THEN ss[i] ELSE g[i - 1] \o ss[i]
          BY <2>2, <4>1 DEF Flattens
        <4> QED BY <4>1, <4>2
      <3> QED BY <3>1, <3>2
    <2>4. f = [i \in 1..m |-> f[i]]
      OBVIOUS
    <2> HIDE DEF f
    <2>5. Flattens(f, m, ss)
      BY <2>3, <2>4 DEF Flattens
    <2> QED BY <2>5
  <1> QED BY <1>3, <1>4

\* Lists over a set, put together, are a list over that set.
LEMMA FlattenListed ==
  ASSUME NEW S, NEW ss, ss \in Seq(Seq(S))
  PROVE  FlattenSeq(ss) \in Seq(S)
  <1> DEFINE n == Len(ss)
             flatten == CHOOSE f : f = [i \in 1..Len(ss) |-> IF i = 1 THEN ss[i] ELSE f[i - 1] \o ss[i]]
  <1>1. n \in Nat /\ \A i \in 1..n : ss[i] \in Seq(S)
    OBVIOUS
  <1>2. CASE n = 0
    <2>1. FlattenSeq(ss) = ss
      BY <1>2 DEF FlattenSeq
    <2>2. ss = <<>>
      BY <1>2
    <2> QED BY <2>1, <2>2
  <1>3. CASE n # 0
    <2>1. \E f : f = [i \in 1..Len(ss) |-> IF i = 1 THEN ss[i] ELSE f[i - 1] \o ss[i]]
      <3>1. PICK f : Flattens(f, n, ss)
        BY <1>1, FlattenExists
      <3> QED BY <3>1 DEF Flattens
    <2>2. Flattens(flatten, n, ss)
      BY <2>1, Zenon DEF Flattens
    <2>3. FlattenSeq(ss) = flatten[n]
      BY <1>3, Zenon DEF FlattenSeq
    <2> HIDE DEF flatten
    <2>4. \A i \in 1..n : flatten[i] = IF i = 1 THEN ss[i] ELSE flatten[i - 1] \o ss[i]
      BY <2>2 DEF Flattens
    <2> DEFINE T == {i \in 1..n : flatten[i] \notin Seq(S)}
    <2>5. T = {}
      <3> SUFFICES ASSUME T # {} PROVE FALSE
        OBVIOUS
      <3>1. PICK m \in T : \A k \in T : m <= k
        <4>1. T \subseteq Nat
          BY <1>1
        <4> HIDE DEF T
        <4> QED BY <4>1, LeastOf
      <3>2. m # 1
        BY <1>1, <2>4, <3>1
      <3>3. m - 1 \in 1..n /\ m - 1 \notin T /\ m \in 1..n
        BY <1>1, <3>1, <3>2
      <3>4. flatten[m - 1] \in Seq(S) /\ flatten[m] = flatten[m - 1] \o ss[m]
        BY <2>4, <3>2, <3>3
      <3>5. flatten[m] \in Seq(S)
        BY <1>1, <3>3, <3>4, ConcatProperties
      <3> QED BY <3>1, <3>5
    <2>6. n \in 1..n
      BY <1>1, <1>3
    <2> QED BY <2>3, <2>5, <2>6
  <1> QED BY <1>2, <1>3

\* A list over a set is one over any larger set.
LEMMA ListedIn ==
  ASSUME NEW S, NEW V, V \subseteq S, NEW s \in Seq(V)
  PROVE  s \in Seq(S)
  <1>1. s \in [1..Len(s) -> S] /\ Len(s) \in Nat
    <2>1. s \in [1..Len(s) -> V] /\ Len(s) \in Nat
      OBVIOUS
    <2> QED BY <2>1
  <1> QED BY <1>1

\* What a step of the configuration is compiled to.
CompiledTo(spec) ==
  IF "under" \in DOMAIN spec
  THEN {[target |-> "wrap", name |-> spec.under, key |-> None, const |-> None]}
         \cup {InjectOf(spec.inject[i]) : i \in DOMAIN spec.inject}
  ELSE {InjectOf(spec)}

LEMMA CompiledListed ==
  ASSUME NEW spec, "under" \in DOMAIN spec => IsListed(spec.inject)
  PROVE  /\ CompileStep(spec) \in Seq(CompiledTo(spec))
         /\ \A s \in CompiledTo(spec) : s.target \in {"header", "body", "wrap"}
  <1>1. ASSUME NEW x PROVE InjectOf(x).target \in {"header", "body"}
    BY DEF InjectOf
  <1>2. CASE "under" \in DOMAIN spec
    <2> DEFINE envelope == [target |-> "wrap", name |-> spec.under, key |-> None, const |-> None]
               rest == [i \in DOMAIN spec.inject |-> InjectOf(spec.inject[i])]
               V == CompiledTo(spec)
    <2>1. envelope \in V /\ envelope.target = "wrap"
      BY <1>2 DEF CompiledTo
    <2>2. \A i \in DOMAIN spec.inject : InjectOf(spec.inject[i]) \in V
      BY <1>2 DEF CompiledTo
    <2>3. \A s \in V : s = envelope \/ \E i \in DOMAIN spec.inject : s = InjectOf(spec.inject[i])
      BY <1>2 DEF CompiledTo
    <2>4. Len(spec.inject) \in Nat /\ DOMAIN spec.inject = 1..Len(spec.inject)
      BY <1>2, ListedShape
    <2>5. CompileStep(spec) = <<envelope>> \o rest
      BY <1>2 DEF CompileStep
    <2>6. rest \in Seq(V)
      <3> HIDE DEF V
      <3>1. rest \in [1..Len(spec.inject) -> V]
        BY <2>2, <2>4
      <3> QED BY <2>4, <3>1
    <2> HIDE DEF V, envelope, rest
    <2>7. <<envelope>> \in Seq(V)
      BY <2>1
    <2>8. CompileStep(spec) \in Seq(V)
      BY <2>5, <2>6, <2>7, ConcatProperties
    <2>9. \A s \in V : s.target \in {"header", "body", "wrap"}
      BY <1>1, <2>1, <2>3
    <2> QED BY <2>8, <2>9 DEF V
  <1>3. CASE "under" \notin DOMAIN spec
    <2>1. CompileStep(spec) = <<InjectOf(spec)>> /\ CompiledTo(spec) = {InjectOf(spec)}
      BY <1>3 DEF CompileStep, CompiledTo
    <2> QED BY <1>1, <2>1
  <1> QED BY <1>2, <1>3

\* The pipeline of a route of the configuration is a list of steps.
LEMMA StepsListed ==
  ASSUME NEW i \in DOMAIN Written
  PROVE  LET steps == Routes[i].steps IN
         Len(steps) \in Nat /\ DOMAIN steps = 1..Len(steps) /\ AllTargets(steps)
  <1> DEFINE r == Written[i]
             first == [k \in DOMAIN r.headers |->
                 [target |-> "header", name |-> r.headers[k][1], key |-> None, const |-> r.headers[k][2]]]
             parts == [k \in DOMAIN r.steps |-> CompileStep(r.steps[k])]
             F == {first[k] : k \in DOMAIN r.headers}
             S == F \cup UNION {CompiledTo(r.steps[k]) : k \in DOMAIN r.steps}
  <1>1. r \in ToSet(Written)
    BY DEF ToSet
  <1>2. /\ IsListed(r.headers) /\ IsListed(r.steps)
        /\ \A spec \in ToSet(r.steps) : "under" \in DOMAIN spec => IsListed(spec.inject)
    BY <1>1, ProxyAssumption
  <1>3. /\ Len(r.headers) \in Nat /\ DOMAIN r.headers = 1..Len(r.headers)
        /\ Len(r.steps) \in Nat /\ DOMAIN r.steps = 1..Len(r.steps)
        /\ \A k \in DOMAIN r.steps : r.steps[k] \in ToSet(r.steps)
    BY <1>2, ListedShape
  <1>4. \A k \in DOMAIN r.steps : CompileStep(r.steps[k]) \in Seq(CompiledTo(r.steps[k]))
    BY <1>2, <1>3, CompiledListed
  <1>5. \A s \in S : s.target \in {"header", "body", "wrap"}
    <2>1. \A s \in F : s.target = "header"
      <3>1. \A k \in DOMAIN r.headers : first[k].target = "header"
        OBVIOUS
      <3> HIDE DEF first, r
      <3> QED BY <3>1
    <2>2. \A k \in DOMAIN r.steps : \A s \in CompiledTo(r.steps[k]) : s.target \in {"header", "body", "wrap"}
      BY <1>2, <1>3, CompiledListed
    <2> HIDE DEF F
    <2> QED BY <2>1, <2>2
  <1>6. first \in Seq(S)
    <2>1. \A k \in DOMAIN r.headers : first[k] \in S
      OBVIOUS
    <2>2. first = [k \in 1..Len(r.headers) |-> first[k]]
      BY <1>3
    <2> HIDE DEF S, first, r
    <2>3. first \in [1..Len(r.headers) -> S]
      BY <1>3, <2>1, <2>2
    <2> QED BY <1>3, <2>3
  <1>7. parts \in Seq(Seq(S))
    <2>1. ASSUME NEW k \in DOMAIN r.steps PROVE CompileStep(r.steps[k]) \in Seq(S)
      <3>1. CompiledTo(r.steps[k]) \subseteq S
        OBVIOUS
      <3> HIDE DEF S
      <3> QED BY <1>4, <3>1, ListedIn
    <2> HIDE DEF S, r
    <2>2. parts \in [1..Len(r.steps) -> Seq(S)]
      BY <1>3, <2>1
    <2> QED BY <1>3, <2>2
  <1>8. Routes[i].steps = first \o FlattenSeq(parts)
    BY DEF Routes, CompileRoute
  <1> HIDE DEF S, first, parts
  <1>9. FlattenSeq(parts) \in Seq(S)
    BY <1>7, FlattenListed
  <1>10. Routes[i].steps \in Seq(S)
    BY <1>6, <1>8, <1>9, ConcatProperties
  <1> QED BY <1>5, <1>10 DEF AllTargets

\* A route that is matched is one of the configuration.
LEMMA MatchedRoute ==
  ASSUME NEW in \in Incoming, MatchRoute(in.path, in.method) # 0
  PROVE  MatchRoute(in.path, in.method) \in DOMAIN Written
  <1> DEFINE fit == {i \in DOMAIN Routes : /\ IsPrefix(Routes[i].prefix, in.path)
                                           /\ Routes[i].methods = {} \/ in.method \in Routes[i].methods}
             l(i) == Len(Routes[i].prefix)
             p == Len(in.path)
             n == Len(Written)
             Best(i) == \A j \in fit : LET li == Len(Routes[i].prefix) lj == Len(Routes[j].prefix) IN li > lj \/ (li = lj /\ i >= j)
  <1>1. fit # {} /\ MatchRoute(in.path, in.method) = Longest(fit)
    BY DEF MatchRoute
  <1>2. /\ DOMAIN Routes = DOMAIN Written /\ DOMAIN Written = 1..n /\ n \in Nat
        /\ \A i \in DOMAIN Written : Written[i] \in ToSet(Written)
    BY ListedShape, ProxyAssumption DEF Routes
  <1>3. p \in Nat /\ \A i \in fit : i \in 1..n /\ l(i) \in 0..p
    <2>1. p \in Nat
      BY ListedShape, ProxyAssumption
    <2>2. ASSUME NEW i \in fit PROVE i \in 1..n /\ l(i) \in 0..p
      <3>1. Routes[i].prefix = Written[i].prefix /\ i \in 1..n
        BY <1>2 DEF Routes, CompileRoute
      <3>2. IsListed(Written[i].prefix)
        BY <1>2, ProxyAssumption
      <3>3. l(i) \in Nat
        BY <3>1, <3>2, ListedShape
      <3>4. l(i) <= p
        BY <2>1, <3>3 DEF IsPrefix
      <3> QED BY <2>1, <3>1, <3>3, <3>4
    <2> QED BY <2>1, <2>2
  <1>4. PICK a \in fit : \A j \in fit : l(j) <= l(a)
    <2> DEFINE T == {p - l(i) : i \in fit}
    <2>1. T # {} /\ T \subseteq Nat
      <3> HIDE DEF l, fit, p
      <3> QED BY <1>1, <1>3
    <2>2. PICK m \in T : \A k \in T : m <= k
      <3> HIDE DEF T
      <3> QED BY <2>1, LeastOf
    <2>3. PICK a \in fit : m = p - l(a)
      BY <2>2
    <2>4. \A j \in fit : p - l(a) <= p - l(j)
      BY <2>2, <2>3
    <2> HIDE DEF l, T, fit, p
    <2>5. \A j \in fit : l(j) <= l(a)
      BY <1>3, <2>4
    <2> QED BY <2>5
  <1>5. PICK b \in fit : l(b) = l(a) /\ \A j \in fit : l(j) = l(a) => j <= b
    <2> DEFINE T == {n - i : i \in {j \in fit : l(j) = l(a)}}
    <2>1. T # {} /\ T \subseteq Nat
      BY <1>2, <1>3
    <2>2. PICK m \in T : \A k \in T : m <= k
      <3> HIDE DEF T
      <3> QED BY <2>1, LeastOf
    <2>3. PICK b \in fit : l(b) = l(a) /\ m = n - b
      BY <2>2
    <2>4. \A j \in fit : l(j) = l(a) => n - b <= n - j
      BY <2>2, <2>3
    <2> HIDE DEF l, T, fit, p
    <2>5. \A j \in fit : l(j) = l(a) => j <= b
      BY <1>2, <1>3, <2>4
    <2> QED BY <2>3, <2>5
  <1>6. Best(b)
    <2> SUFFICES ASSUME NEW j \in fit PROVE l(b) > l(j) \/ (l(b) = l(j) /\ b >= j)
      OBVIOUS
    <2> HIDE DEF l, fit, p
    <2> QED BY <1>3, <1>4, <1>5
  <1>7. Longest(fit) \in fit
    <2>1. Longest(fit) = CHOOSE i \in fit : Best(i)
      BY DEF Longest
    <2> HIDE DEF Best, fit
    <2> QED BY <1>6, <2>1
  <1> QED BY <1>1, <1>3, <1>7, <1>2

-----------------------------------------------------------------------------
(* What is sent is what was bound *)

\* A request in a handler's hands is backed by a context it has seen in force: while
\* its body is read it holds it, and once it is sent its headers and fields show it.
BoundBy(p, seen) ==
  /\ p.phase = "reading" => /\ p.route \in DOMAIN Written /\ p.context \in seen
                            /\ Routes[p.route].require \subseteq DOMAIN p.context
  /\ p.phase = "sending" =>
       \E context \in seen : /\ Routes[p.route].require \subseteq DOMAIN context
                             /\ HeadersAsBound(Routes[p.route].steps, context, p.headers)
                             /\ BodyAsBound(Routes[p.route].steps, context, p.body)

BoundInv == \A r \in Requests : BoundBy(proxied[r], sawBound[r])

\* What a request has seen stays seen until it is over.
LEMMA SeenGrows ==
  ASSUME SeeBound, NEW r \in Requests
  PROVE  proxied'[r].phase \in {"reading", "sending"} =>
           sawBound[r] \subseteq sawBound'[r] /\ Resolved \in sawBound'[r]
  BY DEF SeeBound

LEMMA BoundStays ==
  ASSUME BoundInv, SeeBound, NEW r \in Requests, proxied'[r] = proxied[r]
  PROVE  BoundBy(proxied'[r], sawBound'[r])
  BY SeenGrows DEF BoundInv, BoundBy

\* A step of a request's handler.
LEMMA HandlerBinds ==
  ASSUME ProxyInv, BoundInv, SeeBound, NEW r \in Requests, ProxyHandles(r)
  PROVE  BoundBy(proxied'[r], sawBound'[r])
  <1> DEFINE was == proxied[r]
             now == proxied'[r]
  <1>1. /\ was = [f \in ProxiedFields |-> was[f]] /\ proxied = [q \in Requests |-> proxied[q]]
        /\ BoundBy(was, sawBound[r])
    BY DEF ProxyInv, IsProxied, BoundInv
  <1>2. ASSUME NEW status, Answer(r, status) PROVE now.phase = "answered"
    BY <1>1, <1>2 DEF Answer, Answered, NoProxied
  <1>3. ASSUME now.phase \in {"idle", "answered"} PROVE BoundBy(now, sawBound'[r])
    BY <1>3 DEF BoundBy
  <1>4. ASSUME NEW in \in Incoming, Receive(r, in) PROVE BoundBy(now, sawBound'[r])
    <2> DEFINE i == MatchRoute(in.path, in.method)
    <2>1. CASE i = 0 \/ ~ Routes[i].require \subseteq DOMAIN Resolved
      <3>1. Answer(r, "no_route") \/ Answer(r, "context_unbound")
        BY <1>4, <2>1 DEF Receive
      <3> QED BY <1>2, <1>3, <3>1
    <2>2. CASE i # 0 /\ Routes[i].require \subseteq DOMAIN Resolved
      <3>1. now = [NoProxied EXCEPT !.phase = "reading", !.route = i, !.method = in.method,
                     !.context = Resolved, !.headers = in.headers, !.body = in.body]
        BY <1>1, <1>4, <2>2 DEF Receive
      <3>2. now.phase = "reading" /\ now.route = i /\ now.context = Resolved
        BY <3>1 DEF NoProxied
      <3>3. i \in DOMAIN Written
        BY <2>2, MatchedRoute
      <3>4. Resolved \in sawBound'[r]
        BY <3>2, SeenGrows
      <3> HIDE DEF now, i
      <3> QED BY <2>2, <3>2, <3>3, <3>4 DEF BoundBy
    <2> QED BY <2>1, <2>2
  <1>5. ASSUME BodyTooLarge(r) PROVE BoundBy(now, sawBound'[r])
    BY <1>2, <1>3, <1>5 DEF BodyTooLarge
  <1>6. ASSUME BodyRead(r) PROVE BoundBy(now, sawBound'[r])
    <2> DEFINE steps == Routes[was.route].steps
               in == [headers |-> was.headers, body |-> was.body]
               out == Transformed(steps, was.context, in)
    <2>1. was.phase = "reading"
      BY <1>6 DEF BodyRead
    <2>2. CASE out = None
      <3>1. Answer(r, "invalid_body")
        BY <1>6, <2>2 DEF BodyRead
      <3> QED BY <1>2, <1>3, <3>1
    <2>3. CASE out # None
      <3>1. now = [was EXCEPT !.phase = "sending", !.context = Base,
                              !.headers = out.headers, !.body = out.body]
        BY <1>1, <1>6, <2>3 DEF BodyRead
      <3> HIDE DEF out
      <3>2. now.phase = "sending" /\ now.route = was.route /\ now.headers = out.headers /\ now.body = out.body
        BY <1>1, <3>1 DEF ProxiedFields
      <3>3. /\ was.route \in DOMAIN Written /\ was.context \in sawBound[r]
            /\ Routes[was.route].require \subseteq DOMAIN was.context
        BY <1>1, <2>1 DEF BoundBy
      <3>4. HeadersAsBound(steps, was.context, out.headers) /\ BodyAsBound(steps, was.context, out.body)
        <4>1. IsOut(in)
          BY DEF IsOut
        <4>2. Len(steps) \in Nat /\ DOMAIN steps = 1..Len(steps) /\ AllTargets(steps)
          BY <3>3, StepsListed
        <4> HIDE DEF in, steps
        <4> QED BY <2>3, <4>1, <4>2, PipelineBinds DEF out
      <3>5. was.context \in sawBound'[r]
        BY <3>2, <3>3, SeenGrows
      <3> HIDE DEF now, was
      <3> QED BY <3>2, <3>3, <3>4, <3>5 DEF BoundBy
    <2> QED BY <2>2, <2>3
  <1>7. ASSUME was.phase = "sending", now.phase = "sending", now.route = was.route,
               now.headers = was.headers, now.body = was.body
        PROVE  BoundBy(now, sawBound'[r])
    <2>1. sawBound[r] \subseteq sawBound'[r]
      BY <1>7, SeenGrows
    <2> HIDE DEF now, was
    <2> QED BY <1>1, <1>7, <2>1 DEF BoundBy
  <1>8. ASSUME NEW connect \in BOOLEAN, SendFails(r, connect) PROVE BoundBy(now, sawBound'[r])
    <2> DEFINE p == [was EXCEPT !.arrived = IF connect THEN @ ELSE @ + 1]
    <2>1. CASE p.retries < MaxRetries /\ SendRetryable(p.method, connect)
      <3>1. now = [p EXCEPT !.retries = @ + 1] /\ p.phase = "sending"
        BY <1>1, <1>8, <2>1 DEF SendFails
      <3>2. /\ was.phase = "sending" /\ now.phase = "sending" /\ now.route = was.route
            /\ now.headers = was.headers /\ now.body = was.body
        <4> HIDE DEF was, now
        <4> QED BY <1>1, <3>1 DEF ProxiedFields
      <3> QED BY <1>7, <3>2
    <2>2. CASE ~ (p.retries < MaxRetries /\ SendRetryable(p.method, connect))
      <3>1. now = Answered(p, "request_failed")
        BY <1>1, <1>8, <2>2 DEF SendFails
      <3>2. now.phase = "answered"
        BY <3>1 DEF Answered, NoProxied
      <3> QED BY <1>3, <3>2
    <2> QED BY <2>1, <2>2
  <1>9. ASSUME NEW status \in Statuses, SendAnswered(r, status) PROVE BoundBy(now, sawBound'[r])
    <2>1. now.phase = "answered"
      BY <1>1, <1>9 DEF SendAnswered, Answered, NoProxied
    <2> QED BY <1>3, <2>1
  <1>10. ASSUME Hangup(r) PROVE BoundBy(now, sawBound'[r])
    <2>1. now.phase = "idle"
      BY <1>1, <1>10 DEF Hangup, NoProxied
    <2> QED BY <1>3, <2>1
  <1> QED BY <1>4, <1>5, <1>6, <1>8, <1>9, <1>10 DEF ProxyHandles

\* Nobody else touches a request, and all see what is in force.
LEMMA BoundInvariant == Spec => []BoundInv
  <1>1. Init => BoundInv
    BY DEF Init, ProxyInit, NoProxied, BoundInv, BoundBy
  <1>2. BrokerInv /\ BoundInv /\ [Next]_vars => BoundInv'
    <2> SUFFICES ASSUME BrokerInv, BoundInv, [Next]_vars PROVE BoundInv'
      OBVIOUS
    <2>1. CASE CallsAndChanges /\ Watched
      <3>1. SeeBound /\ UNCHANGED proxied
        BY <2>1 DEF CallsAndChanges, Watched
      <3> QED BY <3>1, BoundStays DEF BoundInv
    <2>2. CASE Proxies /\ Watched
      <3>1. SeeBound /\ ProxyInv
        BY <2>2 DEF Watched, BrokerInv
      <3>2. PICK r \in Requests : ProxyHandles(r)
        BY <2>2 DEF Proxies, BrokerInv, ClientsKnown
      <3>3. \A q \in Requests \ {r} : proxied'[q] = proxied[q]
        BY <3>1, <3>2 DEF ProxyInv, ProxyHandles, Receive, Answer, BodyTooLarge, BodyRead,
                          SendFails, SendAnswered, Hangup
      <3>4. BoundBy(proxied'[r], sawBound'[r])
        BY <3>1, <3>2, HandlerBinds
      <3>5. \A q \in Requests \ {r} : BoundBy(proxied'[q], sawBound'[q])
        BY <3>1, <3>3, BoundStays
      <3> QED BY <3>4, <3>5 DEF BoundInv
    <2>3. CASE UNCHANGED vars
      BY <2>3 DEF vars, proxyVars, BoundInv, BoundBy
    <2> QED BY <2>1, <2>2, <2>3 DEF Next
  <1> QED BY <1>1, <1>2, BrokerInvariant, PTL DEF Spec

\* Whatever a route injects and wraps, in whatever order, what is sent speaks for
\* one context that was bound while the request ran, and never for its caller.
THEOREM SendsAreBound == Spec => []SentAsBound
  <1>1. BoundInv => SentAsBound
    BY DEF BoundInv, BoundBy, SentAsBound
  <1> QED BY <1>1, BoundInvariant, PTL
=============================================================================
