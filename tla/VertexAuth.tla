----------------------------- MODULE VertexAuth -----------------------------
(***************************************************************************)
(* The bearer tokens Vertex is called with (providers/vertex_auth.rs):     *)
(* VertexAuth keeps the last token it was issued for a short while and     *)
(* asks google-cloud-auth again after that.  Requests that find it stale   *)
(* at the same time fetch side by side, and each installs what it got.     *)
(*                                                                         *)
(* Time is counted in ticks.  A token is the time it is still good for.    *)
(***************************************************************************)
EXTENDS Integers

CONSTANTS
  Requests,   \* calls that need a token
  Ttl,        \* what with_fetcher's fetcher says a token may be kept for
  Margin,     \* refresh_margin
  MinLeft,    \* what google-cloud-auth's tokens are good for when issued, at least
  MaxLeft,    \* and at most
  Delay       \* bound: ticks a task waits to be scheduled between two steps

\* google-cloud-auth renews its own token minutes before it expires; the 120 s
\* and 60 s of the code stay within that.
ASSUME VertexAuthAssumption ==
  /\ Ttl \in Nat /\ Margin \in Nat /\ Delay \in Nat
  /\ MinLeft \in Nat /\ MaxLeft \in Nat
  /\ MinLeft <= MaxLeft
  /\ Ttl - Margin + 2 * Delay <= MinLeft
  /\ 2 * Delay < MinLeft

VARIABLES
  cached,   \* the lock's content: a token and how long it may be kept, or neither
  phase,    \* request -> where it stands
  token,    \* request -> the token in its hands
  late      \* request -> ticks since it was due to go on

authVars == <<cached, phase, token, late>>

NoToken == [left |-> 0, keep |-> 0]

AuthInit ==
  /\ cached = NoToken
  /\ phase = [r \in Requests |-> "idle"]
  /\ token = [r \in Requests |-> 0]
  /\ late = [r \in Requests |-> 0]

Goes(r, to) ==
  /\ phase' = [phase EXCEPT ![r] = to]
  /\ late' = [late EXCEPT ![r] = 0]

\* Fresh enough to go without a fetch.
Fresh == cached.keep > Margin

TokenCached(r) ==
  /\ phase[r] = "idle" /\ Fresh
  /\ token' = [token EXCEPT ![r] = cached.left]
  /\ Goes(r, "send") /\ UNCHANGED cached

TokenStale(r) ==
  /\ phase[r] = "idle" /\ ~ Fresh
  /\ Goes(r, "fetch") /\ UNCHANGED <<cached, token>>

\* google-cloud-auth answers with its current token, or with an error.
TokenIssued(r) ==
  /\ phase[r] = "fetch"
  /\ \E left \in MinLeft..MaxLeft : token' = [token EXCEPT ![r] = left]
  /\ Goes(r, "issued") /\ UNCHANGED cached

TokenRefused(r) ==
  /\ phase[r] = "fetch"
  /\ Goes(r, "failed") /\ UNCHANGED <<cached, token>>

\* Fault: a token is kept for what tokens are usually good for.
TokenInstalled_Pinned(r) ==
  /\ phase[r] = "issued"
  /\ cached' = [left |-> token[r], keep |-> MaxLeft + Margin]
  /\ Goes(r, "send") /\ UNCHANGED token

\* The time it may be kept is counted from here.
TokenInstalled(r) ==
  /\ phase[r] = "issued"
  /\ cached' = [left |-> token[r], keep |-> Ttl]
  /\ Goes(r, "send") /\ UNCHANGED token

\* The call is made with the token.
TokenUsed(r) ==
  /\ phase[r] = "send"
  /\ token' = [token EXCEPT ![r] = 0]
  /\ Goes(r, "sent") /\ UNCHANGED cached

\* The call is over, or its task is dropped at any point of it; another may be made.
TokenLeft(r) ==
  /\ phase[r] # "idle"
  /\ token' = [token EXCEPT ![r] = 0]
  /\ Goes(r, "idle") /\ UNCHANGED cached

Due(r)    == phase[r] \in {"issued", "send"}
Less(n)   == IF n > 0 THEN n - 1 ELSE 0

\* A tick. A task that could go on is not kept waiting for ever.
Tick ==
  /\ \A r \in Requests : Due(r) => late[r] < Delay
  /\ cached' = [left |-> Less(cached.left), keep |-> Less(cached.keep)]
  /\ token' = [r \in Requests |-> Less(token[r])]
  /\ late' = [r \in Requests |-> IF Due(r) THEN late[r] + 1 ELSE 0]
  /\ UNCHANGED phase

GetsToken(r) ==
  TokenCached(r) \/ TokenStale(r) \/ TokenIssued(r) \/ TokenRefused(r) \/ TokenInstalled(r)

AuthNext == Tick \/ \E r \in Requests : GetsToken(r) \/ TokenUsed(r) \/ TokenLeft(r)

AuthSpec == AuthInit /\ [][AuthNext]_authVars

\* No call is made with a token that has run out, however many requests fetch
\* at once and in whatever order they install what they got (VertexAuth::token).
NoExpiredToken == \A r \in Requests : phase[r] = "send" => token[r] > 0
=============================================================================
