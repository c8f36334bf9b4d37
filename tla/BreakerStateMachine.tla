------------------------ MODULE BreakerStateMachine ------------------------
(***************************************************************************)
(* What a circuit breaker promises to someone who watches only its state   *)
(* and its gauge: closed -> open -> half-open and back, one edge at a      *)
(* time, an open breaker kept open for its whole window, and a gauge that  *)
(* is told of every change.  CircuitBreaker implements it when its calls   *)
(* do not overlap, and does not when they do.                              *)
(***************************************************************************)
EXTENDS Integers

CONSTANTS OpenFor, NoInstant

VARIABLES
  state,      \* "closed", "open" or "half_open"
  openedAt,   \* age of the last opening, or NoInstant
  gauge       \* the state last reported

smVars == <<state, openedAt, gauge>>

SMInit ==
  /\ state = "closed"
  /\ openedAt = NoInstant
  /\ gauge = "closed"

\* The threshold is reached, or a probe fails: a new window starts.
Open ==
  /\ state \in {"closed", "half_open"}
  /\ gauge = state
  /\ state' = "open"
  /\ openedAt' = 0
  /\ UNCHANGED gauge

\* The first call after the window is let through.
Probe ==
  /\ state = "open"
  /\ gauge = state
  /\ openedAt = OpenFor
  /\ state' = "half_open"
  /\ UNCHANGED <<openedAt, gauge>>

\* A call let through succeeds.
Close ==
  /\ state = "half_open"
  /\ gauge = state
  /\ state' = "closed"
  /\ UNCHANGED <<openedAt, gauge>>

\* The gauge catches up before the state moves again.
Report ==
  /\ gauge' = state
  /\ UNCHANGED <<state, openedAt>>

Age ==
  /\ openedAt # NoInstant
  /\ openedAt < OpenFor
  /\ openedAt' = openedAt + 1
  /\ UNCHANGED <<state, gauge>>

SMNext == Open \/ Probe \/ Close \/ Report \/ Age

SMSpec == SMInit /\ [][SMNext]_smVars
=============================================================================
