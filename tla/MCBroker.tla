------------------------------- MODULE MCBroker -------------------------------
(* An instance of Broker: two MCP servers and two proxied routes, and two    *)
(* tenants of which the second binds the optional user key as well, and a    *)
(* team no header can carry. Either two tool calls meet, or a tool call and  *)
(* a proxied request.                                                        *)
EXTENDS Broker, TLC

CONSTANTS c1, c2, s1, s2, u1, u2, r1

TwoCalls   == {c1, c2}
TwoServers == {s1, s2}
TwoUrls    == {u1, u2}
OwnUrls    == (s1 :> u1) @@ (s2 :> u2)
OneRequest == {r1}
CallsOrBoth == {[calls |-> {c1, c2}, requests |-> {}], [calls |-> {c1}, requests |-> {r1}]}

OrgAndUser == {"org", "user"}
OrgOnly    == {"org"}

NothingBound == [k \in {} |-> ""]
TenantA      == [k \in {"org"} |-> "a"]
TenantBAnna  == ("org" :> "b") @@ ("user" :> "anna") @@ ("team" :> "an accented name")
TwoBindings  == {TenantA, TenantBAnna}
InAHeader    == {"a", "b", "anna", "static"}

Into(header, body, key) ==
  [header |-> header, body |-> body, from_context |-> key, const |-> None]
\* One route requires its tenant, puts a constant where the tenant goes, then the
\* tenant and the user; the longer one, for POST only, requires nothing and wraps.
TwoRoutes == <<
  [prefix |-> <<"v1">>, methods |-> {}, require |-> {"org"}, remap |-> {},
   headers |-> << <<"X-Org", "static">> >>,
   steps |-> << Into("X-Org", None, "org"), Into("X-User", None, "user"),
               Into("X-Team", None, "team"), Into(None, "user", "user") >>],
  [prefix |-> <<"v1", "call">>, methods |-> {"POST"}, require |-> {}, remap |-> {"401"},
   headers |-> << >>,
   steps |-> << [under |-> "request", inject |-> << Into(None, "org", "org") >>],
                Into("X-Org", None, "org") >>] >>

\* A caller that writes its own tenant and user wherever it can, or sends no JSON.
Spoofed == [headers |-> [h \in {"X-Org", "X-User", "X-Team"} |-> Caller], body |-> [f \in {"org", "user"} |-> Caller]]
Plain   == [headers |-> << >>, body |-> Opaque]
Sends(path, method, what) ==
  [path |-> path, method |-> method, headers |-> what.headers, body |-> what.body]
SomeIncoming == {Sends(<<"v1", "call">>, "GET", Spoofed), Sends(<<"v1", "call">>, "POST", Spoofed),
                 Sends(<<"v1">>, "POST", Plain), Sends(<<"v2">>, "GET", Plain)}
=============================================================================
