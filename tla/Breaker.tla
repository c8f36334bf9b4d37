------------------------------ MODULE Breaker ------------------------------
(***************************************************************************)
(* CircuitBreaker's guard and record as whole operations on one value, for *)
(* the modules whose subject is what calls the breaker rather than the     *)
(* races inside it.  CircuitBreaker splits the same code into its atomic   *)
(* accesses.                                                               *)
(***************************************************************************)
EXTENDS Integers

CONSTANTS
  Threshold,  \* consecutive failures that open a breaker
  OpenFor,    \* ticks an open breaker refuses calls
  NoInstant   \* opened_at's None

ASSUME BreakerOpsAssumption ==
  /\ Threshold \in Nat \ {0}
  /\ OpenFor \in Nat \ {0}
  /\ NoInstant \notin Nat

\* state, consecutive_failures (capped at Threshold) and the age of opened_at
\* (capped at OpenFor).
NewBreaker == [state |-> "closed", failures |-> 0, openedAt |-> NoInstant]

\* Fault: the window never ends.
GuardAdmits_Never(b) == b.state # "open"

\* Closed and half-open admit, open admits once its window has passed.
GuardAdmits(b) ==
  b.state = "open" => b.openedAt # NoInstant /\ b.openedAt >= OpenFor

\* What guard leaves behind when it admits.
AfterGuard(b) ==
  [b EXCEPT !.state = IF b.state = "open" THEN "half_open" ELSE b.state]

AfterOk(b) == [b EXCEPT !.failures = 0, !.state = "closed"]

AfterErr(b) ==
  LET n == IF b.failures < Threshold THEN b.failures + 1 ELSE Threshold
  IN  IF n >= Threshold
      THEN [state |-> "open", failures |-> n, openedAt |-> 0]
      ELSE [b EXCEPT !.failures = n]

Aged(b) ==
  IF b.openedAt = NoInstant \/ b.openedAt = OpenFor
  THEN b
  ELSE [b EXCEPT !.openedAt = @ + 1]
=============================================================================
