----------------------------- MODULE AgentRegistry -----------------------------
(* The A2A agent registry: insert-only, kept in memory for as long as the    *)
(* process lives, seeded from a file before anything is served (registry.rs, *)
(* seed.rs, admin.rs and public.rs of synapse-a2a).                          *)
(*   agent  [by : who wrote it, left : ticks until it expires, or Forever]   *)
EXTENDS Naturals, Sequences

CONSTANTS
  Ids,      \* agent ids
  Forever,  \* no ttl
  NoAgent,
  Ttls,     \* ttls an administrator gives
  Writers   \* who may register through the admin routes

FetchAttempts == 3   \* one and two retries

ASSUME RegistryAssumption ==
  /\ Forever \notin Nat /\ Ttls \subseteq Nat \cup {Forever} /\ Writers \subseteq STRING
  /\ NoAgent \notin [by : STRING, left : Nat \cup {Forever}]

VARIABLES
  agents,   \* id -> agent or NoAgent
  seeds,    \* the seed file's agents [id, by, ttl] not yet dealt with
  tries,    \* attempts made to fetch the first one's card
  fetched   \* seeds whose card came, in order

registryVars == <<agents, seeds, tries, fetched>>

NewRegistry(file) ==
  /\ agents = [i \in Ids |-> NoAgent]
  /\ seeds = file /\ tries = 0 /\ fetched = <<>>

Expired(a) == a # NoAgent /\ a.left = 0

\* Fault: an expired agent makes way.
TryRegister_Expired(id, by, ttl) ==
  agents' = IF agents[id] = NoAgent \/ Expired(agents[id])
            THEN [agents EXCEPT ![id] = [by |-> by, left |-> ttl]] ELSE agents
\* Insert-only: whoever is there stays, expired or not.
TryRegister(id, by, ttl) ==
  agents' = IF agents[id] = NoAgent THEN [agents EXCEPT ![id] = [by |-> by, left |-> ttl]] ELSE agents

----------------------------------------------------------------------------
(* Seeding, one agent of the file after another *)

SeedFetched ==
  /\ seeds # <<>>
  /\ TryRegister(Head(seeds).id, Head(seeds).by, Head(seeds).ttl)
  /\ fetched' = Append(fetched, Head(seeds))
  /\ seeds' = Tail(seeds) /\ tries' = 0

\* A transport error, 5xx or 429.
SeedRetried ==
  /\ seeds # <<>> /\ tries < FetchAttempts - 1 /\ tries' = tries + 1
  /\ UNCHANGED <<agents, seeds, fetched>>

\* The last attempt, or an answer nobody would retry.
SeedSkipped ==
  /\ seeds # <<>> /\ seeds' = Tail(seeds) /\ tries' = 0
  /\ UNCHANGED <<agents, fetched>>

----------------------------------------------------------------------------
(* The admin and the public routes *)

\* Both answer 204, whether or not anything changed.
RegisterAgent(id, by, ttl) ==
  TryRegister(id, by, ttl) /\ UNCHANGED <<seeds, tries, fetched>>
DeregisterAgent(id) ==
  /\ agents' = [agents EXCEPT ![id] = NoAgent]
  /\ UNCHANGED <<seeds, tries, fetched>>

\* The agent card and resolve: an expired agent is dropped by whoever asks.
ResolveAgent(id) ==
  /\ agents' = IF Expired(agents[id]) THEN [agents EXCEPT ![id] = NoAgent] ELSE agents
  /\ UNCHANGED <<seeds, tries, fetched>>
\* The catalog drops every expired one.
ListAgents ==
  /\ agents' = [i \in Ids |-> IF Expired(agents[i]) THEN NoAgent ELSE agents[i]]
  /\ UNCHANGED <<seeds, tries, fetched>>

AgentsAge ==
  /\ \E i \in Ids : agents[i] # NoAgent /\ agents[i].left \notin {0, Forever}
  /\ agents' = [i \in Ids |-> IF agents[i] = NoAgent \/ agents[i].left \in {0, Forever} THEN agents[i]
                              ELSE [agents[i] EXCEPT !.left = @ - 1]]
  /\ UNCHANGED <<seeds, tries, fetched>>
=============================================================================
