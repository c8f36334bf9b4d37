\* Two tool calls, or a tool call and a proxied request, against hot swaps,
\* re-bindings, removals and expiries.
SPECIFICATION FairSpec
CONSTANTS
  c1 = c1
  c2 = c2
  s1 = s1
  s2 = s2
  u1 = u1
  u2 = u2
  r1 = r1
  Calls <- TwoCalls
  Servers <- TwoServers
  Urls <- TwoUrls
  FirstUrl <- OwnUrls
  FirstBinding <- TenantA
  Base <- NothingBound
  Bindings <- TwoBindings
  Rules <- OrgAndUser
  Required <- OrgOnly
  MaxChanges = 2
  Absent = Absent
  Unbound = Unbound
  NoClient = NoClient
  NoOverlay = NoOverlay
  Requests <- OneRequest
  Workloads <- CallsOrBoth
  Written <- TwoRoutes
  Incoming <- SomeIncoming
  Statuses = {"200", "401"}
  MaxRetries = 1
  Writable <- InAHeader
  Caller = Caller
  Opaque = Opaque
  None = None
INVARIANTS
  ForwardedAsAuthorised
  RefusedForCause
  OneConnectionPerServer
  SentAsBound
  SentOnceUnlessIdempotent
PROPERTIES
  RemovedServersAreSwept
  CallsFollowTheControlPlane
