----------------------------- MODULE McpGateway -----------------------------
(***************************************************************************)
(* The MCP gateway (crates/synapse-mcp): McpRegistry, ClientCache and the  *)
(* tools/list and tools/call handlers, over the ContextStore the control   *)
(* plane binds identities in.  Broker says when its steps are taken.       *)
(*                                                                         *)
(* Calls run at the same time as each other and as the control plane.  A   *)
(* call reads the registry, then the context, then the cache; it opens a   *)
(* connection with the cache unlocked and puts it in the cache after.      *)
(***************************************************************************)
EXTENDS ContextStore, Integers, FiniteSets

CONSTANTS
  Calls,        \* calls in flight at a time
  Servers,      \* names under /mcp/
  Urls,         \* upstream URLs
  Bindings,     \* key -> value maps the control plane may bind
  Rules,        \* context keys with an injection rule
  Required,     \* those of the rules that are required
  FirstUrl,     \* server -> the URL it is registered under at startup
  FirstBinding, \* the identity bound at startup
  MaxChanges,   \* bound: steps of the control plane and of the deadlines
  Absent,       \* model value: the name is not registered
  Unbound,      \* model value: a required key is missing
  NoClient      \* model value: the call has no upstream client yet

ASSUME McpAssumption ==
  /\ Required \subseteq Rules
  /\ FirstUrl \in [Servers -> Urls] /\ FirstBinding \in Bindings
  /\ MaxChanges \in Nat

VARIABLES
  registry,   \* server -> Absent or [url, due]
  cache,      \* ClientCache.entries: [server, injection, url] of live clients
  call,       \* call -> what its handler holds
  inForce,    \* call -> what has been registered and bound since it began
  changes     \* control plane steps so far

mcpVars == <<registry, store, cache, call, inForce, changes>>

-----------------------------------------------------------------------------
(* ResolvedInjection and McpRegistry *)

\* The headers of a call: one per rule whose key is bound; a missing required
\* key refuses the call.
ResolvedInjection(context) ==
  IF Required \subseteq DOMAIN context
  THEN [k \in Rules \cap DOMAIN context |-> context[k]]
  ELSE Unbound

BoundInjection == ResolvedInjection(Resolved)

Registered(s) == registry[s] # Absent /\ ~ registry[s].due

\* resolve(s) drops an entry that is due.
RegistryAfterResolve(s) ==
  IF registry[s] # Absent /\ registry[s].due
  THEN [registry EXCEPT ![s] = Absent] ELSE registry

\* Phases a handler waits in, where a timeout or a client that goes away ends
\* the call.
Waiting == {"bound", "dialing", "connected", "forwarding"}

NoCall == [phase |-> "idle", server |-> Absent, url |-> Absent,
           injection |-> Unbound, client |-> NoClient, sweep |-> {}]

\* What has been in force since a call began, and the servers that have been
\* unregistered all that time.
NothingYet == [urls |-> {}, injections |-> {}, gone |-> Servers]

\* The control plane sets a session up before its first call.
McpInit ==
  /\ registry = [s \in Servers |-> [url |-> FirstUrl[s], due |-> FALSE]]
  /\ store = Pushed(FirstBinding)
  /\ cache = {}
  /\ call = [c \in Calls |-> NoCall]
  /\ inForce = [c \in Calls |-> NothingYet]
  /\ changes = 0

-----------------------------------------------------------------------------
(* The control plane and the clock *)

Change == changes < MaxChanges /\ changes' = changes + 1

\* POST /internal/mcp/servers: a new entry or a hot swap.
Register(s, u) ==
  /\ Change
  /\ registry' = [registry EXCEPT ![s] = [url |-> u, due |-> FALSE]]
  /\ UNCHANGED <<store, cache, call>>

\* DELETE /internal/mcp/servers/{name}.
Deregister(s) ==
  /\ Change /\ registry[s] # Absent
  /\ registry' = [registry EXCEPT ![s] = Absent]
  /\ UNCHANGED <<store, cache, call>>

RegistrationFallsDue(s) ==
  /\ Change /\ Registered(s)
  /\ registry' = [registry EXCEPT ![s].due = TRUE]
  /\ UNCHANGED <<store, cache, call>>

\* POST and DELETE /internal/bind.
Bind(binding) ==
  /\ Change
  /\ store' = Pushed(binding)
  /\ UNCHANGED <<registry, cache, call>>

Unbind ==
  /\ Change /\ store # NoOverlay
  /\ store' = Cleared
  /\ UNCHANGED <<registry, cache, call>>

BindingFallsDue ==
  /\ Change /\ HasDeadlineAhead
  /\ store' = AtDeadline
  /\ UNCHANGED <<registry, cache, call>>

-----------------------------------------------------------------------------
(* A call *)

\* resolve_upstream: the registry first.
ResolveServer(c, s) ==
  /\ call[c].phase = "idle"
  /\ call' = [call EXCEPT ![c].server = s,
                ![c].phase = IF Registered(s) THEN "routed" ELSE "unknown_server",
                ![c].url = IF Registered(s) THEN registry[s].url ELSE Absent]
  /\ registry' = RegistryAfterResolve(s)
  /\ UNCHANGED <<store, cache, changes>>

\* Fault: a missing optional key refuses the call too.
ResolveContext_AllRequired(c) ==
  /\ call[c].phase = "routed"
  /\ call' = [call EXCEPT ![c].injection = BoundInjection,
                ![c].phase = IF Rules \subseteq DOMAIN Resolved
                             THEN "bound" ELSE "unbound"]
  /\ store' = AfterResolve
  /\ UNCHANGED <<registry, cache, changes>>

\* Then the context, with no wait in between but under another lock.
ResolveContext(c) ==
  /\ call[c].phase = "routed"
  /\ call' = [call EXCEPT ![c].injection = BoundInjection,
                ![c].phase = IF BoundInjection = Unbound THEN "unbound" ELSE "bound"]
  /\ store' = AfterResolve
  /\ UNCHANGED <<registry, cache, changes>>

\* The cache's lock is held from a lookup or an insert to the end of the sweep.
CacheUnlocked == \A c \in Calls : call[c].phase # "sweeping"

Wanted(c) == [server |-> call[c].server, injection |-> call[c].injection,
              url |-> call[c].url]

CachedServers(entries) == {e.server : e \in entries}

\* Fault: a cached client is taken whatever URL it is connected to.
CacheHit_AnyUrl(c) ==
  /\ call[c].phase = "bound" /\ CacheUnlocked
  /\ \E e \in cache :
       /\ e.server = call[c].server /\ e.injection = call[c].injection
       /\ call' = [call EXCEPT ![c].phase = "sweeping", ![c].client = e,
                     ![c].sweep = CachedServers(cache)]
  /\ UNCHANGED <<registry, store, cache, changes>>

\* Fault: a cached client is taken whatever headers it sends.
CacheHit_AnyIdentity(c) ==
  /\ call[c].phase = "bound" /\ CacheUnlocked
  /\ \E e \in cache :
       /\ e.server = call[c].server /\ e.url = call[c].url
       /\ call' = [call EXCEPT ![c].phase = "sweeping", ![c].client = e,
                     ![c].sweep = CachedServers(cache)]
  /\ UNCHANGED <<registry, store, cache, changes>>

\* Fault: a hit does not sweep.
CacheHit_NoSweep(c) ==
  /\ call[c].phase = "bound" /\ CacheUnlocked
  /\ Wanted(c) \in cache
  /\ call' = [call EXCEPT ![c].phase = "forwarding", ![c].client = Wanted(c)]
  /\ UNCHANGED <<registry, store, cache, changes>>

\* get_or_build finds a client with this call's headers and URL.
CacheHit(c) ==
  /\ call[c].phase = "bound" /\ CacheUnlocked
  /\ Wanted(c) \in cache
  /\ call' = [call EXCEPT ![c].phase = "sweeping", ![c].client = Wanted(c),
                ![c].sweep = CachedServers(cache)]
  /\ UNCHANGED <<registry, store, cache, changes>>

\* No such client: the lock is released and a connection opened.
CacheMiss(c) ==
  /\ call[c].phase = "bound" /\ CacheUnlocked
  /\ Wanted(c) \notin cache
  /\ call' = [call EXCEPT ![c].phase = "dialing"]
  /\ UNCHANGED <<registry, store, cache, changes>>

\* A value that cannot be written in a header fails the call before it connects.
Connect(c) ==
  /\ call[c].phase = "dialing"
  /\ \A k \in DOMAIN call[c].injection : call[c].injection[k] \in Writable
  /\ call' = [call EXCEPT ![c].phase = "connected", ![c].client = Wanted(c)]
  /\ UNCHANGED <<registry, store, cache, changes>>

\* Fault: the server's clients with other headers stay.
Insert_KeepsOthers(c) ==
  /\ call[c].phase = "connected" /\ CacheUnlocked
  /\ cache' = {e \in cache : e.server # call[c].server
                               \/ e.injection # call[c].injection} \cup {call[c].client}
  /\ call' = [call EXCEPT ![c].phase = "sweeping", ![c].sweep = CachedServers(cache')]
  /\ UNCHANGED <<registry, store, changes>>

\* The new client replaces every other client of its server, whatever other
\* calls have put there meanwhile.
Insert(c) ==
  /\ call[c].phase = "connected" /\ CacheUnlocked
  /\ cache' = {e \in cache : e.server # call[c].server} \cup {call[c].client}
  /\ call' = [call EXCEPT ![c].phase = "sweeping", ![c].sweep = CachedServers(cache')]
  /\ UNCHANGED <<registry, store, changes>>

\* sweep_deregistered resolves one cached name after the other.
Sweep(c, s) ==
  /\ call[c].phase = "sweeping" /\ s \in call[c].sweep
  /\ cache' = {e \in cache : e.server # s \/ Registered(s)}
  /\ registry' = RegistryAfterResolve(s)
  /\ call' = [call EXCEPT ![c].sweep = @ \ {s}]
  /\ UNCHANGED <<store, changes>>

SweepEnds(c) ==
  /\ call[c].phase = "sweeping" /\ call[c].sweep = {}
  /\ call' = [call EXCEPT ![c].phase = "forwarding"]
  /\ UNCHANGED <<registry, store, cache, changes>>

\* A failed connection, the upstream's answer or error, the 30 seconds of the
\* handler, or a client that goes away.
End(c) ==
  /\ call[c].phase \in Waiting
  /\ call' = [call EXCEPT ![c] = NoCall]
  /\ UNCHANGED <<registry, store, cache, changes>>

Leave(c) ==
  /\ call[c].phase \in {"unknown_server", "unbound"}
  /\ call' = [call EXCEPT ![c] = NoCall]
  /\ UNCHANGED <<registry, store, cache, changes>>

-----------------------------------------------------------------------------

ControlPlane ==
  \/ \E s \in Servers : \/ Deregister(s) \/ RegistrationFallsDue(s)
                        \/ \E u \in Urls : Register(s, u)
  \/ \E binding \in Bindings : Bind(binding)
  \/ Unbind \/ BindingFallsDue

Progress(c) ==
  \/ ResolveContext(c) \/ CacheHit(c) \/ CacheMiss(c) \/ Connect(c) \/ Insert(c)
  \/ \E s \in Servers : Sweep(c, s)
  \/ SweepEnds(c) \/ End(c) \/ Leave(c)

\* What a call finds in force at a step is added to what it found before.
Witnessed(was, s) ==
  [urls       |-> was.urls \cup {IF Registered(s) THEN registry[s].url ELSE Absent},
   injections |-> was.injections \cup {BoundInjection},
   gone       |-> {t \in was.gone : ~ Registered(t)}]

Observe ==
  inForce' = [c \in Calls |->
                IF call'[c].phase = "idle" THEN NothingYet
                ELSE Witnessed(inForce[c], call'[c].server)]

CallStep(c) == Progress(c) \/ \E s \in Servers : ResolveServer(c, s)

-----------------------------------------------------------------------------
(* Properties *)

\* A call goes out on a connection to a URL its server was registered under
\* while the call ran, with exactly the headers of a context that was bound
\* while the call ran, every required key among them: no hot swap, re-binding,
\* expiry or client left by another call can send it elsewhere or as somebody
\* else (resolve_upstream, ClientCache::get_or_build).
ForwardedAsAuthorised ==
  \A c \in Calls : call[c].phase = "forwarding" =>
    /\ call[c].client.server = call[c].server
    /\ call[c].client.url \in inForce[c].urls
    /\ call[c].client.injection \in inForce[c].injections
    /\ Required \subseteq DOMAIN call[c].client.injection

\* A refusal is a true one: the name was unregistered or past its deadline, or
\* a required key unbound, at some moment of the call (McpRegistry::resolve).
RefusedForCause ==
  \A c \in Calls :
    /\ call[c].phase = "unknown_server" => Absent \in inForce[c].urls
    /\ call[c].phase = "unbound" => Unbound \in inForce[c].injections

\* The cache holds one connection per server, so one identity at a time, though
\* calls open connections without its lock (ClientCache::get_or_build).
OneConnectionPerServer ==
  \A e, f \in cache : e.server = f.server => e = f

\* When a call reaches its upstream the cache holds no connection to a server
\* that was unregistered all the time the call ran (sweep_deregistered).
RemovedServersAreSwept ==
  [][\A c \in Calls :
       (call'[c].phase = "forwarding" /\ call[c].phase # "forwarding")
         => CachedServers(cache') \cap inForce[c].gone = {}]_mcpVars

\* The control plane falls silent (MaxChanges), and from some moment every call
\* goes where it left things: a client that a slow call still puts in the cache
\* for an old URL or identity is used by no later call, and nothing goes to a
\* server that is no longer registered (ClientCache::get_or_build).
CallsFollowTheControlPlane ==
  <>[](\A c \in Calls : call[c].phase = "forwarding" =>
         /\ Registered(call[c].server)
         /\ call[c].client.url = registry[call[c].server].url
         /\ call[c].client.injection = BoundInjection)
=============================================================================
