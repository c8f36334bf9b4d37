--------------------------- MODULE FallbackChain ---------------------------
(***************************************************************************)
(* The standard lane's walk along a fallback chain                         *)
(* (crates/synapse-gateway/src/routing/executor.rs):                       *)
(* execute_buffered_with_timeouts and execute_streaming_with_timeouts over *)
(* commit_one_leg, with the retries and the provider's breaker around the  *)
(* start of each leg.  Several requests walk their routes' chains at once  *)
(* and meet in the breakers, one per provider.                             *)
(*                                                                         *)
(* A reply is abstracted to the set of legs its text came from.  Upstream  *)
(* is a health flag per provider and model that changes at any time: a     *)
(* healthy one answers, an unhealthy one fails to start or breaks          *)
(* mid-stream.                                                             *)
(***************************************************************************)
EXTENDS Breaker, Sequences

CONSTANTS
  Requests,     \* concurrent chat requests
  Providers,    \* provider ids the legs may name
  Built,        \* those present in the catalog
  Routings,     \* request -> the legs of the route it names: the ways considered
  MaxAttempts   \* max_attempts of the providers' retry profile

Upstreams == [provider : Providers, model : STRING]

\* A static route may list any legs, and none (table.rs:427).
ASSUME ChainAssumption ==
  /\ Routings \subseteq [Requests -> Seq(Upstreams)]
  /\ Built \subseteq Providers
  /\ MaxAttempts \in Nat \ {0}

VARIABLES
  chain,     \* request -> its legs, each a [provider, model]; never changes
  breaker,   \* provider -> its breaker
  healthy,   \* upstream -> whether it answers at the moment
  phase,     \* request -> where it stands
  mode,      \* request -> "buffered" or "streaming"
  leg,       \* request -> index of the leg it is at
  tries,     \* request -> attempts made at this leg
  kinds,     \* request -> kinds of failure so far, one per failed leg
  allOpen,   \* request -> all_circuit_open
  called,    \* request -> legs whose provider was called
  content,   \* request -> legs whose text is in the reply
  answer     \* request -> how it was answered

breakerVars == <<breaker, healthy>>
asked == <<chain, mode>>
walkVars == <<chain, phase, mode, leg, tries, kinds, allOpen, called, content, answer>>
vars == <<chain, breaker, healthy, phase, mode, leg, tries, kinds, allOpen, called,
          content, answer>>

Modes == {"buffered", "streaming"}

LegIds(r) == 1..Len(chain[r])

Legs(r) == {chain[r][l] : l \in LegIds(r)}

Init ==
  /\ chain \in Routings
  /\ breaker = [p \in Providers |-> NewBreaker]
  /\ healthy = [u \in UNION {Legs(r) : r \in Requests} |-> TRUE]
  /\ phase = [r \in Requests |-> "idle"]
  /\ mode = [r \in Requests |-> "buffered"]
  /\ leg = [r \in Requests |-> 1]
  /\ tries = [r \in Requests |-> 0]
  /\ kinds = [r \in Requests |-> <<>>]
  /\ allOpen = [r \in Requests |-> TRUE]
  /\ called = [r \in Requests |-> {}]
  /\ content = [r \in Requests |-> {}]
  /\ answer = [r \in Requests |-> "none"]

ProviderOf(r) == chain[r][leg[r]].provider

Well(r) == healthy[chain[r][leg[r]]]

MoreLegs(r) == leg[r] <= Len(chain[r])

-----------------------------------------------------------------------------

\* A request enters the executor with a fresh walk; m is its stream flag.
Arrive(r, m) ==
  /\ phase[r] = "idle"
  /\ phase' = [phase EXCEPT ![r] = "next_leg"]
  /\ mode' = [mode EXCEPT ![r] = m]
  /\ UNCHANGED <<breakerVars, chain, leg, tries, kinds, allOpen, called, content,
                 answer>>

\* Fault: a failed leg leaves its buffered text behind.
LegFailed_KeepsText(r, kind) ==
  /\ kinds' = [kinds EXCEPT ![r] = Append(@, kind)]
  /\ allOpen' = [allOpen EXCEPT ![r] = @ /\ kind = "circuit_open"]
  /\ leg' = [leg EXCEPT ![r] = @ + 1]
  /\ tries' = [tries EXCEPT ![r] = 0]
  /\ phase' = [phase EXCEPT ![r] = "next_leg"]
  /\ UNCHANGED content

\* Fault: a leg that was called and failed leaves the flag as it was.
LegFailed_StaysOpen(r, kind) ==
  /\ kinds' = [kinds EXCEPT ![r] = Append(@, kind)]
  /\ allOpen' = [allOpen EXCEPT ![r] = @ /\ kind # "unbuilt_provider"]
  /\ leg' = [leg EXCEPT ![r] = @ + 1]
  /\ tries' = [tries EXCEPT ![r] = 0]
  /\ phase' = [phase EXCEPT ![r] = "next_leg"]
  /\ content' = [content EXCEPT ![r] = {}]

\* Fault: the failed leg is tried again for ever.
LegFailed_Stays(r, kind) ==
  /\ kinds' = [kinds EXCEPT ![r] = <<kind>>]
  /\ allOpen' = [allOpen EXCEPT ![r] = @ /\ kind = "circuit_open"]
  /\ tries' = [tries EXCEPT ![r] = 0]
  /\ phase' = [phase EXCEPT ![r] = "next_leg"]
  /\ content' = [content EXCEPT ![r] = {}]
  /\ UNCHANGED leg

\* Every failure pushes a LegFailure and moves on; the leg's accumulator is
\* dropped with it.  What a client was sent stays sent.
LegFailed(r, kind) ==
  /\ kinds' = [kinds EXCEPT ![r] = Append(@, kind)]
  /\ allOpen' = [allOpen EXCEPT ![r] = @ /\ kind = "circuit_open"]
  /\ leg' = [leg EXCEPT ![r] = @ + 1]
  /\ tries' = [tries EXCEPT ![r] = 0]
  /\ phase' = [phase EXCEPT ![r] = "next_leg"]
  /\ content' = [content EXCEPT ![r] = IF mode[r] = "buffered" THEN {} ELSE @]

SkipUnbuilt(r) ==
  /\ phase[r] = "next_leg" /\ MoreLegs(r)
  /\ ProviderOf(r) \notin Built
  /\ LegFailed(r, "unbuilt_provider")
  /\ UNCHANGED <<breakerVars, asked, called, answer>>

SkipOpen(r) ==
  /\ phase[r] = "next_leg" /\ MoreLegs(r)
  /\ ProviderOf(r) \in Built
  /\ ~GuardAdmits(breaker[ProviderOf(r)])
  /\ LegFailed(r, "circuit_open")
  /\ UNCHANGED <<breakerVars, asked, called, answer>>

EnterLeg(r) ==
  /\ phase[r] = "next_leg" /\ MoreLegs(r)
  /\ ProviderOf(r) \in Built
  /\ GuardAdmits(breaker[ProviderOf(r)])
  /\ breaker' = [breaker EXCEPT ![ProviderOf(r)] = AfterGuard(@)]
  /\ phase' = [phase EXCEPT ![r] = "attempt"]
  /\ called' = [called EXCEPT ![r] = @ \cup {leg[r]}]
  /\ UNCHANGED <<healthy, asked, leg, tries, kinds, allOpen, content, answer>>

-----------------------------------------------------------------------------
(* Starting a leg: run_with_classifier around the first item of its stream *)

\* How an attempt may fail: an error of the genai client, wrapped or not, is
\* told by its status or by the transport; the last two are the executor's own.
Statuses    == {"5xx", "429", "408", "4xx"}
Transports  == {"timeout", "connect", "transport"}
StartErrors == Statuses \cup Transports
                 \cup {"web_stream", "genai_error", "first_chunk_timeout", "empty_stream"}
StatusRetryable == {"5xx", "429", "408"}
GenaiRetryable  == StatusRetryable \cup {"timeout", "connect"}
Retryable(e)    == e \in GenaiRetryable

AttemptRetried(r) ==
  /\ phase[r] = "attempt" /\ ~Well(r)
  /\ tries[r] + 1 < MaxAttempts
  /\ {e \in StartErrors : Retryable(e)} # {}
  /\ tries' = [tries EXCEPT ![r] = @ + 1]
  /\ UNCHANGED <<breakerVars, phase, asked, leg, kinds, allOpen, called, content, answer>>

\* The last attempt, or one that fails in a way that is not retried.
StartFails(r) ==
  /\ phase[r] = "attempt" /\ ~Well(r)
  /\ {e \in StartErrors : Retryable(e) => tries[r] + 1 = MaxAttempts} # {}
  /\ breaker' = [breaker EXCEPT ![ProviderOf(r)] = AfterErr(@)]
  /\ LegFailed(r, "start")
  /\ UNCHANGED <<healthy, asked, called, answer>>

\* The first item arrives in time.  An ailing upstream may get this far too.
LegStarts(r) ==
  /\ phase[r] = "attempt"
  /\ breaker' = [breaker EXCEPT ![ProviderOf(r)] = AfterOk(@)]
  /\ phase' = [phase EXCEPT ![r] =
                 IF mode[r] = "buffered" THEN "drain" ELSE "committed"]
  /\ tries' = [tries EXCEPT ![r] = 0]
  /\ content' = [content EXCEPT ![r] = @ \cup {leg[r]}]
  /\ UNCHANGED <<healthy, asked, leg, kinds, allOpen, called, answer>>

-----------------------------------------------------------------------------
(* After the first item *)

\* The stream reaches Done: a buffered reply is complete, a committed stream
\* ends.
Completes(r) ==
  /\ phase[r] \in {"drain", "committed"}
  /\ phase' = [phase EXCEPT ![r] = "answered"]
  /\ answer' = [answer EXCEPT ![r] = "reply"]
  /\ UNCHANGED <<breakerVars, asked, leg, tries, kinds, allOpen, called, content>>

\* Idle timeout, stream error or end without Done while buffering: recorded,
\* and on to the next leg.
DrainBreaks(r) ==
  /\ phase[r] = "drain" /\ ~Well(r)
  /\ breaker' = [breaker EXCEPT ![ProviderOf(r)] = AfterErr(@)]
  /\ LegFailed(r, "mid_stream")
  /\ UNCHANGED <<healthy, asked, called, answer>>

\* Fault: a stream that breaks after its first item falls back too.
CommittedBreaks_FallsBack(r) ==
  /\ phase[r] = "committed" /\ ~Well(r)
  /\ kinds' = [kinds EXCEPT ![r] = Append(@, "mid_stream")]
  /\ leg' = [leg EXCEPT ![r] = @ + 1]
  /\ phase' = [phase EXCEPT ![r] = "next_leg"]
  /\ UNCHANGED <<breakerVars, asked, tries, allOpen, called, content, answer>>

\* The same on a committed stream: an error item, no fallback, no record.
CommittedBreaks(r) ==
  /\ phase[r] = "committed" /\ ~Well(r)
  /\ phase' = [phase EXCEPT ![r] = "answered"]
  /\ answer' = [answer EXCEPT ![r] = "error_event"]
  /\ UNCHANGED <<breakerVars, asked, leg, tries, kinds, allOpen, called, content>>

ChainExhausted(r) ==
  /\ phase[r] = "next_leg" /\ ~MoreLegs(r)
  /\ phase' = [phase EXCEPT ![r] = "answered"]
  /\ answer' = [answer EXCEPT ![r] =
                  IF allOpen[r] /\ kinds[r] # <<>>
                  THEN "all_circuits_open" ELSE "all_legs_failed"]
  /\ UNCHANGED <<breakerVars, asked, leg, tries, kinds, allOpen, called, content>>

\* The request is over, answered or abandoned by its client; its task is free
\* for another.  Abandoned calls record nothing.
Leave(r) ==
  /\ phase[r] # "idle"
  /\ phase' = [phase EXCEPT ![r] = "idle"]
  /\ leg' = [leg EXCEPT ![r] = 1]
  /\ tries' = [tries EXCEPT ![r] = 0]
  /\ kinds' = [kinds EXCEPT ![r] = <<>>]
  /\ allOpen' = [allOpen EXCEPT ![r] = TRUE]
  /\ called' = [called EXCEPT ![r] = {}]
  /\ content' = [content EXCEPT ![r] = {}]
  /\ answer' = [answer EXCEPT ![r] = "none"]
  /\ mode' = [mode EXCEPT ![r] = "buffered"]
  /\ UNCHANGED <<breakerVars, chain>>

-----------------------------------------------------------------------------
(* The environment *)

Tick ==
  /\ breaker' = [p \in Providers |-> Aged(breaker[p])]
  /\ UNCHANGED <<healthy, walkVars>>

\* Of an upstream somebody may call.
HealthChanges(u) ==
  /\ u.provider \in Built
  /\ healthy' = [healthy EXCEPT ![u] = ~@]
  /\ UNCHANGED <<breaker, walkVars>>

Walk(r) ==
  \/ SkipUnbuilt(r) \/ SkipOpen(r) \/ EnterLeg(r) \/ ChainExhausted(r)
  \/ AttemptRetried(r) \/ StartFails(r) \/ LegStarts(r)
  \/ Completes(r) \/ DrainBreaks(r) \/ CommittedBreaks(r)

Next ==
  \/ \E r \in Requests : Walk(r) \/ Leave(r) \/ \E m \in Modes : Arrive(r, m)
  \/ \E u \in DOMAIN healthy : HealthChanges(u)
  \/ Tick

Spec == Init /\ [][Next]_vars

(***************************************************************************)
(* The executor runs on and every wait for upstream is bounded by a        *)
(* timeout (first chunk, idle, and the client's own); time passes.  Nobody *)
(* has to send a request, and nothing obliges an upstream to recover.      *)
(***************************************************************************)
Fairness == WF_vars(Tick) /\ \A r \in Requests : WF_vars(Walk(r))

FairSpec == Spec /\ Fairness

-----------------------------------------------------------------------------
(* Properties *)

\* Among the requests no leg answered, 503 all_circuits_open goes to exactly those
\* that had a leg, called no provider and missed none in the catalog: every leg
\* was refused by its breaker.  All others are told 502 all_legs_failed: some leg
\* was called, or could not be, or the route has no leg at all
\* (executor.rs:1308-1315).
OpenAnswerMeansNoCall ==
  \A r \in Requests :
    answer[r] \in {"all_circuits_open", "all_legs_failed"} =>
      (answer[r] = "all_circuits_open"
         <=> /\ chain[r] # <<>>
             /\ called[r] = {}
             /\ \A u \in Legs(r) : u.provider \in Built)

\* A reply, and whatever a client has been sent before an error, is the text
\* of exactly one leg, the one the request ends at: a leg that broke half-way
\* leaves nothing in the reply of the leg that replaced it.
ReplyFromOneLeg ==
  \A r \in Requests :
    answer[r] \in {"reply", "error_event"} => content[r] = {leg[r]}

\* Once the client of a streaming request has been sent an item, no other
\* provider is called for it.
NoCallAfterCommit ==
  [][\A r \in Requests :
       (mode[r] = "streaming" /\ content[r] # {} /\ phase'[r] # "idle")
         => called'[r] = called[r]]_vars

\* Every request is answered, or left by its client: none stays among the legs.
EveryRequestAnswered ==
  \A r \in Requests : []<>(phase[r] \in {"answered", "idle"})

\* Everything a route's first leg can blame for an open breaker is well: the
\* breaker is the provider's, so all of its upstreams are.
FirstLegIsWell(r) ==
  /\ chain[r] # <<>> /\ chain[r][1].provider \in Built
  /\ \A u \in DOMAIN healthy : u.provider = chain[r][1].provider => healthy[u]

\* Failback: once the provider of a route's first leg is well for good, whichever
\* of its models had opened the breaker and for whichever request, the first leg
\* in the end serves every request of that route: no fallback outlives its cause.
FirstLegRecovers ==
  \A r \in Requests :
    <>[]FirstLegIsWell(r) /\ []<>(phase[r] = "idle")
      => <>[](phase[r] = "answered" => leg[r] = 1 /\ answer[r] = "reply")
=============================================================================
