------------------------------- MODULE Ledger -------------------------------
(***************************************************************************)
(* The usage ledger (crates/synapse-gateway/src/ledger): LedgerHandle, the *)
(* background writer it spawns, and FanoutLedger over the sinks build_store*)
(* could connect.                                                          *)
(*                                                                         *)
(* Requests enqueue rows without waiting; one writer takes them off a      *)
(* bounded channel and sends each to every connected sink at once, moving  *)
(* on when all have answered.  A sink may be down for a while: its calls   *)
(* then fail, after as long as its driver takes.  The process may stop at  *)
(* any point and start again with an empty queue and fresh counters: it    *)
(* connects its sinks one after the other before it serves anybody.        *)
(***************************************************************************)
EXTENDS SequencesExt, Integers

CONSTANTS
  Rows,        \* usage rows, each offered once
  Backends,    \* the configured ledger backends, in order
  Kind,        \* backend -> "sqlite", "postgres", "pubsub" or "sns"
  Complete,    \* backends whose settings and cargo feature are there
  MaxConnects, \* PUBSUB_CONNECT_MAX_ATTEMPTS
  Capacity,    \* bound of the channel
  MaxRepeats,  \* bound: publishes a topic's client tries again
  MaxCrashes   \* bound: process stops

Sinks  == Range(Backends)
Topics == {s \in Sinks : Kind[s] \in {"pubsub", "sns"}}

\* parse_ledger_backends takes a name once, and at least one.
ASSUME LedgerAssumption ==
  /\ Capacity \in Nat \ {0} /\ MaxConnects \in Nat \ {0}
  /\ MaxRepeats \in Nat /\ MaxCrashes \in Nat
  /\ Backends \in Seq(Sinks) \ {<<>>} /\ IsInjective(Backends)
  /\ Kind \in [Sinks -> {"sqlite", "postgres", "pubsub", "sns"}]
  /\ Complete \subseteq Sinks
  /\ IsFiniteSet(Rows)

VARIABLES
  offered,     \* every row given to enqueue, in order
  firstNow,    \* how many of them were offered before this process started
  queue,       \* the channel
  hand,        \* the row the writer took last
  waiting,     \* connected sinks that have not answered for it yet
  toConnect,   \* backends build_store has not tried yet; none once it serves
  tries,       \* failed attempts at the first of them
  connected,   \* sinks build_store connected at startup
  up,          \* sink -> whether its backend answers at the moment
  stored,      \* sink -> rows its backend holds, in order
  errors,      \* label -> synapse_ledger_errors_total of this process
  dropped,     \* synapse_ledger_dropped_total of this process
  repeats,     \* publishes tried again so far
  crashes      \* process stops so far

startVars == <<toConnect, tries, connected>>
bounds    == <<repeats, crashes>>
vars == <<offered, firstNow, queue, hand, waiting, startVars, up, stored,
          errors, dropped, bounds>>

\* A lone sink stands without a fan-out, and its failures are the writer's.
Labels   == Sinks \cup {"writer"}
Label(s) == IF connected = {s} THEN "writer" ELSE s

Init ==
  /\ offered = <<>> /\ firstNow = 0
  /\ queue = <<>> /\ hand = <<>> /\ waiting = {}
  /\ toConnect = Backends /\ tries = 0 /\ connected = {}
  /\ up \in {health \in [Sinks -> BOOLEAN] : \A s \in Sinks \ Complete : ~ health[s]}
  /\ stored = [s \in Sinks |-> <<>>]
  /\ errors = [l \in Labels |-> 0] /\ dropped = 0
  /\ repeats = 0 /\ crashes = 0

(***************************************************************************)
(* build_store: every backend in turn, until one connects or is given up.  *)
(***************************************************************************)
NextBackend == Head(toConnect)

\* A database is opened and its table made, or brought up to date, keeping the
\* rows it holds; Pub/Sub authenticates; an SNS client calls nobody.
SqliteOpens(s)   == Kind[s] = "sqlite" /\ up[s]
PostgresOpens(s) == Kind[s] = "postgres" /\ up[s]
PubsubOpens(s)   == Kind[s] = "pubsub" /\ up[s]
SnsOpens(s)      == Kind[s] = "sns"
Opens(s) == SqliteOpens(s) \/ PostgresOpens(s) \/ PubsubOpens(s) \/ SnsOpens(s)

ConnectErrors == {"transport", "permission"}
Transient(e)  == e = "transport"
Retried(s, e) == Kind[s] = "pubsub" /\ Transient(e) /\ tries + 1 < MaxConnects

Connect ==
  /\ toConnect # <<>> /\ NextBackend \in Complete /\ Opens(NextBackend)
  /\ connected' = connected \cup {NextBackend}
  /\ toConnect' = Tail(toConnect) /\ tries' = 0
  /\ UNCHANGED <<offered, firstNow, queue, hand, waiting, up, stored, errors,
                 dropped, bounds>>

\* Pub/Sub is tried again after a transient error; any other failure skips the
\* sink.  With none left a NoopLedger takes the rows, and answers at once.
ConnectFails ==
  /\ toConnect # <<>> /\ NextBackend \in Complete /\ ~ Opens(NextBackend)
  /\ \E e \in ConnectErrors :
       IF Retried(NextBackend, e)
       THEN tries' = tries + 1 /\ UNCHANGED toConnect
       ELSE toConnect' = Tail(toConnect) /\ tries' = 0
  /\ UNCHANGED <<offered, firstNow, queue, hand, waiting, connected, up, stored,
                 errors, dropped, bounds>>

ConnectSkipped ==
  /\ toConnect # <<>> /\ NextBackend \notin Complete
  /\ toConnect' = Tail(toConnect)
  /\ UNCHANGED <<offered, firstNow, queue, hand, waiting, tries, connected, up,
                 stored, errors, dropped, bounds>>

(***************************************************************************)
(* Serving                                                                 *)
(***************************************************************************)
\* enqueue: try_send, and a full channel drops the row and counts it.
Enqueue(r) ==
  /\ toConnect = <<>>
  /\ r \notin Range(offered)
  /\ offered' = Append(offered, r)
  /\ IF Len(queue) < Capacity
     THEN queue' = Append(queue, r) /\ UNCHANGED dropped
     ELSE dropped' = dropped + 1 /\ UNCHANGED queue
  /\ UNCHANGED <<firstNow, hand, waiting, startVars, up, stored, errors, bounds>>

\* Fault: the writer gives up after a failed write.
Receive_StopsOnError ==
  /\ waiting = {} /\ queue # <<>>
  /\ \A l \in Labels : errors[l] = 0
  /\ hand' = <<Head(queue)>> /\ queue' = Tail(queue)
  /\ waiting' = connected
  /\ UNCHANGED <<offered, firstNow, startVars, up, stored, errors, dropped,
                 bounds>>

\* The writer takes the next row once every sink has answered for the last.
Receive ==
  /\ waiting = {} /\ queue # <<>>
  /\ hand' = <<Head(queue)>> /\ queue' = Tail(queue)
  /\ waiting' = connected
  /\ UNCHANGED <<offered, firstNow, startVars, up, stored, errors, dropped,
                 bounds>>

\* A sink's call returns.
Answered(s) ==
  /\ s \in waiting
  /\ waiting' = waiting \ {s}
  /\ UNCHANGED <<offered, firstNow, queue, hand, startVars, up, dropped, bounds>>

SinkStores(s) ==
  /\ Answered(s) /\ up[s]
  /\ stored' = [stored EXCEPT ![s] = Append(@, hand[1])]
  /\ UNCHANGED errors

\* Fault: the first failure ends the row for every sink (try_join_all).
SinkFails_Aborts(s) ==
  /\ s \in waiting /\ ~ up[s]
  /\ waiting' = {}
  /\ errors' = [errors EXCEPT ![Label(s)] = @ + 1]
  /\ UNCHANGED <<stored, offered, firstNow, queue, hand, startVars, up, dropped,
                 bounds>>

\* Fault: a failed write is put back at the end of the queue.
SinkFails_Requeues(s) ==
  /\ s \in waiting /\ ~ up[s]
  /\ waiting' = waiting \ {s}
  /\ errors' = [errors EXCEPT ![Label(s)] = @ + 1]
  /\ queue' = IF Len(queue) < Capacity THEN Append(queue, hand[1]) ELSE queue
  /\ UNCHANGED <<stored, offered, firstNow, hand, startVars, up, dropped, bounds>>

\* A failed write is counted and not retried; the backend may have taken the
\* row before the call failed.
SinkFails(s) ==
  /\ Answered(s) /\ ~ up[s]
  /\ errors' = [errors EXCEPT ![Label(s)] = @ + 1]
  /\ \/ stored' = stored
     \/ stored' = [stored EXCEPT ![s] = Append(@, hand[1])]

\* A topic takes the row and its answer is lost: its client, inside the same call,
\* publishes the row again.
PublishRepeated(s) ==
  /\ s \in waiting \cap Topics /\ up[s]
  /\ repeats < MaxRepeats /\ repeats' = repeats + 1
  /\ stored' = [stored EXCEPT ![s] = Append(@, hand[1])]
  /\ UNCHANGED <<offered, firstNow, queue, hand, waiting, startVars, up, errors, dropped,
                 crashes>>

\* A backend goes away or comes back.
Flip(s) ==
  /\ s \in Complete
  /\ up' = [up EXCEPT ![s] = ~ @]
  /\ UNCHANGED <<offered, firstNow, queue, hand, waiting, startVars, stored,
                 errors, dropped, bounds>>

\* The process stops and starts again: the queue and the row in hand are gone,
\* the counters start from zero and the sinks have to connect anew.
Restart ==
  /\ crashes < MaxCrashes
  /\ crashes' = crashes + 1
  /\ firstNow' = Len(offered)
  /\ queue' = <<>> /\ hand' = <<>> /\ waiting' = {}
  /\ toConnect' = Backends /\ tries' = 0 /\ connected' = {}
  /\ errors' = [l \in Labels |-> 0] /\ dropped' = 0
  /\ UNCHANGED <<offered, up, stored, repeats>>

Connecting == Connect \/ ConnectFails \/ ConnectSkipped

Next ==
  \/ Connecting
  \/ \E r \in Rows : Enqueue(r)
  \/ Receive
  \/ \E s \in Sinks : SinkStores(s) \/ PublishRepeated(s) \/ SinkFails(s) \/ Flip(s)
  \/ Restart

Spec == Init /\ [][Next]_vars

\* The writer task is scheduled, and every sink call returns.
FairSpec ==
  /\ Spec
  /\ WF_vars(Connecting)
  /\ WF_vars(Receive)
  /\ \A s \in Sinks : WF_vars(SinkStores(s) \/ SinkFails(s))

(***************************************************************************)
(* What the ledger promises.                                               *)
(***************************************************************************)
\* Rows this process was offered that a sink does not hold.
Missing(s) == {i \in (firstNow + 1)..Len(offered) : offered[i] \notin Range(stored[s])}

\* No gap without a trace: what a connected sink is missing is still on its
\* way, was counted as dropped, or was counted as that sink's own error: a
\* write that fails costs no other sink that row (FanoutLedger).  A sink whose
\* calls take long can still fill the queue, which every sink then misses rows
\* of, counted as dropped (enqueue).
CountersAccountForGaps ==
  \A s \in connected :
    Cardinality(Missing(s)) <=
      dropped + errors[Label(s)] + Len(queue) + (IF s \in waiting THEN 1 ELSE 0)

\* Every sink's log is a lossy feed of the offered rows, across failures and
\* restarts: in order, and at most once but for the copies a topic's own client
\* makes of a row before the next one is sent.
Feed(s) == INSTANCE LossyFeed WITH log <- stored[s], Repeats <- s \in Topics
EverySinkIsAFeed ==
  /\ \A s \in Sinks : Feed(s)!FeedInit
  /\ [][\A s \in Sinks : [Feed(s)!FeedNext]_(Feed(s)!feedVars)]_vars

\* A sink that is down holds up neither the start, however it fails, nor the rows
\* of a sink that stays up, which gets every row the queue accepted as long as the
\* process runs (build_store, PUBSUB_CONNECT_MAX_ATTEMPTS, FanoutLedger::record).
DownSinksHoldNobodyUp ==
  /\ toConnect # <<>> ~> toConnect = <<>>
  /\ \A r \in Rows, s \in Complete :
       [](up[s] /\ crashes = 0) => (r \in Range(queue) ~> r \in Range(stored[s]))
=============================================================================
