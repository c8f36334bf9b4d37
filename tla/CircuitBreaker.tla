--------------------------- MODULE CircuitBreaker ---------------------------
(***************************************************************************)
(* One provider's circuit breaker and the calls that share it              *)
(* (crates/synapse-gateway/src/resilience.rs).  A call is                  *)
(* run_with_classifier: guard, a bounded number of attempts, one record of *)
(* the final result.  The breaker is three independent cells -- two        *)
(* atomics and a mutex -- so guard and record are split here into one      *)
(* action per access, and the calls of other tasks run in between.  A      *)
(* buffered request goes on to drain the stream it opened and records a    *)
(* second result when the stream breaks (routing/executor.rs).             *)
(*                                                                         *)
(* Instants are modelled by their age, and an age stops growing at         *)
(* OpenFor; the failure counter stops at Threshold.  The code only ever    *)
(* asks whether an age reached OpenFor or a count reached Threshold, so    *)
(* both caps lose nothing and no other bound is needed.                    *)
(***************************************************************************)
EXTENDS Integers

CONSTANTS
  Callers,      \* tasks that call through this breaker
  Threshold,    \* breaker_threshold: consecutive failures that open it
  OpenFor,      \* breaker_open_for, in clock ticks
  MaxAttempts,  \* max_attempts of the retry policy
  NoInstant     \* opened_at's None

ASSUME BreakerAssumption ==
  /\ Threshold \in Nat \ {0}
  /\ OpenFor \in Nat \ {0}
  /\ MaxAttempts \in Nat \ {0}
  /\ NoInstant \notin Nat

CLOSED    == "closed"
OPEN      == "open"
HALF_OPEN == "half_open"

BreakerStates == {CLOSED, OPEN, HALF_OPEN}

VARIABLES
  state,      \* AtomicU8 state
  failures,   \* AtomicU64 consecutive_failures, capped at Threshold
  openedAt,   \* Mutex<Option<Instant>> opened_at, as an age
  gauge,      \* last value of synapse_resilience_breaker_state
  pc,         \* where each caller stands in run_with_classifier
  tries,      \* attempts each caller has made in this call
  seen,       \* guard's copy of opened_at, as an age
  prev        \* what record's swap returned

breakerVars == <<state, failures, openedAt, gauge>>
vars == <<state, failures, openedAt, gauge, pc, tries, seen, prev>>

GuardSteps  == {"load", "read_opened", "compare", "emit_half_open"}
RecordSteps == {"ok_reset", "ok_swap", "emit_closed",
                "err_count", "err_swap", "err_stamp", "emit_open"}
PCs == {"idle", "attempt", "drain"} \cup GuardSteps \cup RecordSteps

Ages == 0..OpenFor

TypeOK ==
  /\ state \in BreakerStates
  /\ failures \in 0..Threshold
  /\ openedAt \in Ages \cup {NoInstant}
  /\ gauge \in BreakerStates
  /\ pc \in [Callers -> PCs]
  /\ tries \in [Callers -> 0..MaxAttempts]
  /\ seen \in [Callers -> Ages]
  /\ prev \in [Callers -> BreakerStates]

Init ==
  /\ state = CLOSED
  /\ failures = 0
  /\ openedAt = NoInstant
  /\ gauge = CLOSED          \* no sample yet
  /\ pc = [c \in Callers |-> "idle"]
  /\ tries = [c \in Callers |-> 0]
  /\ seen = [c \in Callers |-> 0]
  /\ prev = [c \in Callers |-> CLOSED]

Goto(c, from, to) ==
  /\ pc[c] = from
  /\ pc' = [pc EXCEPT ![c] = to]

UpTo(n, cap) == IF n < cap THEN n + 1 ELSE cap

-----------------------------------------------------------------------------
(* guard *)

Begin(c) ==
  /\ Goto(c, "idle", "load")
  /\ UNCHANGED <<breakerVars, tries, seen, prev>>

\* state.load: closed and half-open both admit, every caller alike.
LoadState(c) ==
  /\ Goto(c, "load", IF state = OPEN THEN "read_opened" ELSE "attempt")
  /\ UNCHANGED <<breakerVars, tries, seen, prev>>

\* Copy opened_at under its lock; None counts as opened just now.
ReadOpenedAt(c) ==
  /\ Goto(c, "read_opened", "compare")
  /\ seen' = [seen EXCEPT ![c] = IF openedAt = NoInstant THEN 0 ELSE openedAt]
  /\ UNCHANGED <<breakerVars, tries, prev>>

\* Fault: the window is compared with > instead of >=.
WindowPassed_Strict(age) == age > OpenFor

WindowPassed(age) == age >= OpenFor

\* The window has passed: swap in half-open, whatever the state is by now.
HalfOpen(c) ==
  /\ WindowPassed(seen[c])
  /\ Goto(c, "compare", "emit_half_open")
  /\ state' = HALF_OPEN
  /\ seen' = [seen EXCEPT ![c] = 0]
  /\ UNCHANGED <<failures, openedAt, gauge, tries, prev>>

EmitHalfOpen(c) ==
  /\ Goto(c, "emit_half_open", "attempt")
  /\ gauge' = HALF_OPEN
  /\ UNCHANGED <<state, failures, openedAt, tries, seen, prev>>

\* CircuitOpen: the provider is not called and nothing is recorded.
Reject(c) ==
  /\ ~WindowPassed(seen[c])
  /\ Goto(c, "compare", "idle")
  /\ seen' = [seen EXCEPT ![c] = 0]
  /\ UNCHANGED <<breakerVars, tries, prev>>

-----------------------------------------------------------------------------
(* The attempts, and a caller that goes away between them *)

AttemptSucceeds(c) ==
  /\ Goto(c, "attempt", "ok_reset")
  /\ tries' = [tries EXCEPT ![c] = 0]
  /\ UNCHANGED <<breakerVars, seen, prev>>

\* Fault: the attempt counter wraps round instead of running out.
AttemptRetried_Wraps(c) ==
  /\ pc[c] = "attempt"
  /\ tries' = [tries EXCEPT ![c] = (@ + 1) % MaxAttempts]
  /\ UNCHANGED <<breakerVars, pc, seen, prev>>

\* A retryable failure with attempts left is retried and not recorded.
AttemptRetried(c) ==
  /\ pc[c] = "attempt"
  /\ tries[c] + 1 < MaxAttempts
  /\ tries' = [tries EXCEPT ![c] = @ + 1]
  /\ UNCHANGED <<breakerVars, pc, seen, prev>>

\* A failure that is not retryable, at any attempt, or a retryable one at
\* the last.
AttemptsExhausted(c) ==
  /\ Goto(c, "attempt", "err_count")
  /\ tries' = [tries EXCEPT ![c] = 0]
  /\ UNCHANGED <<breakerVars, seen, prev>>

\* The client disconnects: the future is dropped at an await.
Cancel(c) ==
  /\ pc[c] \in {"attempt", "drain"}
  /\ pc' = [pc EXCEPT ![c] = "idle"]
  /\ tries' = [tries EXCEPT ![c] = 0]
  /\ UNCHANGED <<breakerVars, seen, prev>>

-----------------------------------------------------------------------------
(* record(Ok) *)

\* What a started stream is for: a buffered request drains it here, a
\* streaming request takes it away and records nothing more.
AfterSuccess == {"idle", "drain"}

ResetFailures(c) ==
  /\ Goto(c, "ok_reset", "ok_swap")
  /\ failures' = 0
  /\ UNCHANGED <<state, openedAt, gauge, tries, seen, prev>>

\* Fault: the closed transition is reported for the wrong previous state.
SwapClosed_WrongPrev(c) ==
  /\ \E next \in IF state = OPEN THEN {"emit_closed"} ELSE AfterSuccess :
       Goto(c, "ok_swap", next)
  /\ state' = CLOSED
  /\ UNCHANGED <<failures, openedAt, gauge, tries, seen, prev>>

SwapClosed(c) ==
  /\ \E next \in IF state = HALF_OPEN THEN {"emit_closed"} ELSE AfterSuccess :
       Goto(c, "ok_swap", next)
  /\ state' = CLOSED
  /\ UNCHANGED <<failures, openedAt, gauge, tries, seen, prev>>

EmitClosed(c) ==
  /\ \E next \in AfterSuccess : Goto(c, "emit_closed", next)
  /\ gauge' = CLOSED
  /\ UNCHANGED <<state, failures, openedAt, tries, seen, prev>>

-----------------------------------------------------------------------------
(* record(Err) *)

CountFailure(c) ==
  LET n == UpTo(failures, Threshold) IN
  /\ failures' = n
  /\ Goto(c, "err_count", IF n >= Threshold THEN "err_swap" ELSE "idle")
  /\ UNCHANGED <<state, openedAt, gauge, tries, seen, prev>>

SwapOpen(c) ==
  /\ Goto(c, "err_swap", "err_stamp")
  /\ prev' = [prev EXCEPT ![c] = state]
  /\ state' = OPEN
  /\ UNCHANGED <<failures, openedAt, gauge, tries, seen>>

\* Fault: only a re-opening writes the instant.
StampOpenedAt_OnReopen(c) ==
  /\ Goto(c, "err_stamp", IF prev[c] # OPEN THEN "emit_open" ELSE "idle")
  /\ openedAt' = IF prev[c] = HALF_OPEN THEN 0 ELSE openedAt
  /\ prev' = [prev EXCEPT ![c] = CLOSED]
  /\ UNCHANGED <<state, failures, gauge, tries, seen>>

StampOpenedAt(c) ==
  /\ Goto(c, "err_stamp", IF prev[c] # OPEN THEN "emit_open" ELSE "idle")
  /\ openedAt' = 0
  /\ prev' = [prev EXCEPT ![c] = CLOSED]
  /\ UNCHANGED <<state, failures, gauge, tries, seen>>

EmitOpen(c) ==
  /\ Goto(c, "emit_open", "idle")
  /\ gauge' = OPEN
  /\ UNCHANGED <<state, failures, openedAt, tries, seen, prev>>

-----------------------------------------------------------------------------
(* A buffered request reading the stream it opened *)

DrainCompletes(c) ==
  /\ Goto(c, "drain", "idle")
  /\ UNCHANGED <<breakerVars, tries, seen, prev>>

\* Idle timeout, mid-stream error or a stream that ends without Done.
DrainBreaks(c) ==
  /\ Goto(c, "drain", "err_count")
  /\ UNCHANGED <<breakerVars, tries, seen, prev>>

-----------------------------------------------------------------------------

\* The monotonic clock behind Instant::now: every instant held grows older.
Tick ==
  /\ openedAt' = IF openedAt = NoInstant THEN NoInstant ELSE UpTo(openedAt, OpenFor)
  /\ seen' = [c \in Callers |->
                IF pc[c] = "compare" THEN UpTo(seen[c], OpenFor) ELSE seen[c]]
  /\ UNCHANGED <<state, failures, gauge, pc, tries, prev>>

Guard(c) ==
  \/ LoadState(c)
  \/ ReadOpenedAt(c)
  \/ HalfOpen(c)
  \/ EmitHalfOpen(c)
  \/ Reject(c)

Attempt(c) ==
  \/ AttemptSucceeds(c)
  \/ AttemptRetried(c)
  \/ AttemptsExhausted(c)

Record(c) ==
  \/ ResetFailures(c)
  \/ SwapClosed(c)
  \/ EmitClosed(c)
  \/ CountFailure(c)
  \/ SwapOpen(c)
  \/ StampOpenedAt(c)
  \/ EmitOpen(c)

Drain(c) == DrainCompletes(c) \/ DrainBreaks(c)

Next ==
  \/ \E c \in Callers :
       Begin(c) \/ Guard(c) \/ Attempt(c) \/ Record(c) \/ Drain(c) \/ Cancel(c)
  \/ Tick

Spec == Init /\ [][Next]_vars

(***************************************************************************)
(* Time passes; synchronous code runs on; every attempt and every wait for *)
(* a chunk ends, because the provider's client and the drain loop both     *)
(* have timeouts.  Nothing obliges anyone to make a call.                  *)
(***************************************************************************)
Fairness ==
  /\ WF_vars(Tick)
  /\ \A c \in Callers :
       WF_vars(Guard(c) \/ Attempt(c) \/ Record(c) \/ Drain(c))

FairSpec == Spec /\ Fairness

-----------------------------------------------------------------------------
(* Properties *)

\* An open or half-open breaker has the instant it was opened, or the call
\* that opened it is about to write it.  guard reads a missing instant as
\* "just now", so an open breaker without one would refuse calls for ever.
OpenHasInstant ==
  (state # CLOSED /\ openedAt = NoInstant)
    => \E c \in Callers : pc[c] = "err_stamp"

\* guard decides on a copy of opened_at taken under a lock it has released.
\* However stale that copy is, a call is never refused once the breaker's
\* own window has passed.
NoRejectionAfterCoolDown ==
  [][\A c \in Callers :
       Reject(c) => openedAt = NoInstant \/ openedAt < OpenFor]_vars

Quiescent == \A c \in Callers : pc[c] \notin GuardSteps \cup RecordSteps

\* Between calls to guard and record, the breaker_state gauge shows the
\* state of the breaker.
GaugeTracksState == Quiescent => gauge = state

\* Every call that is guarded comes to an end: rejected, recorded or
\* cancelled.
EveryCallResolves ==
  \A c \in Callers : pc[c] = "load" ~> pc[c] = "idle"

\* While calls keep coming, the breaker does not stay open for ever.
NoPermanentRejection ==
  []<>(\E c \in Callers : pc[c] = "load") => []<>(state # OPEN)

-----------------------------------------------------------------------------
(* Refinement.  record(Err) takes effect when it writes opened_at: between   *)
(* the swap to open and that write the abstract state is the one swapped out. *)

EffectiveState ==
  IF \E c \in Callers : pc[c] = "err_stamp"
  THEN LET c == CHOOSE d \in Callers : pc[d] = "err_stamp" IN prev[c]
  ELSE state

StateMachine == INSTANCE BreakerStateMachine WITH state <- EffectiveState

\* The breaker is the textbook state machine, with a gauge that follows it.
ImplementsStateMachine == StateMachine!SMSpec
=============================================================================
