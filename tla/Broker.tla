-------------------------------- MODULE Broker --------------------------------
(* A sandbox broker: the MCP gateway and the egress proxy over one bound     *)
(* context. Whoever finds a binding past its deadline, a tool call or a      *)
(* proxied request, drops it for both.                                       *)
EXTENDS McpGateway, EgressProxy

CONSTANT Workloads   \* bound: who talks to the broker, as sets of [calls, requests]

ASSUME BrokerAssumption ==
  Workloads \subseteq [calls : SUBSET Calls, requests : SUBSET Requests]

VARIABLE clients

vars == <<mcpVars, proxyVars, clients>>

Init == McpInit /\ ProxyInit /\ clients \in Workloads

CallsAndChanges ==
  /\ ControlPlane \/ \E c \in clients.calls : CallStep(c)
  /\ UNCHANGED proxied

Proxies ==
  /\ \E r \in clients.requests : ProxyHandles(r)
  /\ UNCHANGED <<registry, cache, call, changes>>

\* Who is watched through every step.
Watched == Observe /\ SeeBound /\ UNCHANGED clients

Next == (CallsAndChanges \/ Proxies) /\ Watched

Spec == Init /\ [][Next]_vars

\* Handlers are scheduled, and each tool call is bounded by its timeout.
FairSpec == Spec /\ \A c \in Calls : WF_<<registry, store, cache, call, changes>>(Progress(c))
=============================================================================
