----------------------- MODULE CircuitBreaker_proofs -----------------------
(***************************************************************************)
(* Proofs about CircuitBreaker for any set of callers, any threshold,      *)
(* window and number of attempts.                                          *)
(***************************************************************************)
EXTENDS CircuitBreaker, TLAPS

\* A counter that stops at its cap stays within it and never goes back.
LEMMA UpToBounds ==
  ASSUME NEW cap \in Nat, NEW n \in 0..cap
  PROVE  /\ UpTo(n, cap) \in 0..cap
         /\ n <= UpTo(n, cap)
  BY DEF UpTo

\* Ages grow together: one instant stays no younger than another.
LEMMA UpToMonotone ==
  ASSUME NEW cap \in Nat, NEW m \in 0..cap, NEW n \in 0..cap, m <= n
  PROVE  UpTo(m, cap) <= UpTo(n, cap)
  BY DEF UpTo

\* Every variable keeps its type, whatever the callers do: in particular the
\* failure counter and every age stay within their caps.
THEOREM TypeCorrect == Spec => []TypeOK
  <1> USE BreakerAssumption
  <1>1. Init => TypeOK
    BY DEF Init, TypeOK, Ages, PCs, BreakerStates, CLOSED, OPEN, HALF_OPEN
  <1>2. TypeOK /\ [Next]_vars => TypeOK'
    <2> SUFFICES ASSUME TypeOK, [Next]_vars PROVE TypeOK'
      OBVIOUS
    <2> USE DEF TypeOK, breakerVars, Goto, PCs, GuardSteps, RecordSteps,
                BreakerStates, CLOSED, OPEN, HALF_OPEN
    <2>1. ASSUME NEW c \in Callers, Begin(c) PROVE TypeOK'
      BY <2>1 DEF Begin
    <2>2. ASSUME NEW c \in Callers, Guard(c) PROVE TypeOK'
      <3>1. CASE LoadState(c)    BY <3>1 DEF LoadState
      <3>2. CASE ReadOpenedAt(c) BY <3>2 DEF ReadOpenedAt, Ages
      <3>3. CASE HalfOpen(c)     BY <3>3 DEF HalfOpen, Ages
      <3>4. CASE EmitHalfOpen(c) BY <3>4 DEF EmitHalfOpen
      <3>5. CASE Reject(c)       BY <3>5 DEF Reject, Ages
      <3> QED BY <2>2, <3>1, <3>2, <3>3, <3>4, <3>5 DEF Guard
    <2>3. ASSUME NEW c \in Callers, Attempt(c) PROVE TypeOK'
      <3>1. CASE AttemptSucceeds(c)   BY <3>1 DEF AttemptSucceeds
      <3>2. CASE AttemptRetried(c)    BY <3>2 DEF AttemptRetried
      <3>3. CASE AttemptsExhausted(c) BY <3>3 DEF AttemptsExhausted
      <3> QED BY <2>3, <3>1, <3>2, <3>3 DEF Attempt
    <2>4. ASSUME NEW c \in Callers, Record(c) PROVE TypeOK'
      <3>1. CASE ResetFailures(c) BY <3>1 DEF ResetFailures
      <3>2. CASE SwapClosed(c)
        <4>1. PICK next \in {"emit_closed", "idle", "drain"} :
                Goto(c, "ok_swap", next)
          BY <3>2 DEF SwapClosed, AfterSuccess
        <4> QED BY <3>2, <4>1 DEF SwapClosed
      <3>3. CASE EmitClosed(c)    BY <3>3 DEF EmitClosed, AfterSuccess
      <3>4. CASE CountFailure(c)  BY <3>4, UpToBounds DEF CountFailure
      <3>5. CASE SwapOpen(c)      BY <3>5 DEF SwapOpen
      <3>6. CASE StampOpenedAt(c) BY <3>6 DEF StampOpenedAt, Ages
      <3>7. CASE EmitOpen(c)      BY <3>7 DEF EmitOpen
      <3> QED BY <2>4, <3>1, <3>2, <3>3, <3>4, <3>5, <3>6, <3>7 DEF Record
    <2>5. ASSUME NEW c \in Callers, Drain(c) PROVE TypeOK'
      BY <2>5 DEF Drain, DrainCompletes, DrainBreaks
    <2>6. ASSUME NEW c \in Callers, Cancel(c) PROVE TypeOK'
      BY <2>6 DEF Cancel
    <2>7. CASE Tick
      <3>1. openedAt' \in Ages \cup {NoInstant}
        BY <2>7, UpToBounds DEF Tick, Ages
      <3>2. \A c \in Callers : UpTo(seen[c], OpenFor) \in Ages
        BY UpToBounds DEF Ages
      <3>3. seen' \in [Callers -> Ages]
        BY <2>7, <3>2 DEF Tick
      <3> QED BY <2>7, <3>1, <3>3 DEF Tick
    <2>8. CASE UNCHANGED vars
      BY <2>8 DEF vars
    <2> QED BY <2>1, <2>2, <2>3, <2>4, <2>5, <2>6, <2>7, <2>8 DEF Next
  <1> QED BY <1>1, <1>2, PTL DEF Spec

-----------------------------------------------------------------------------
(* A breaker that is not closed knows when it was opened.  The property is   *)
(* not inductive: a caller between loading OPEN and comparing instants can    *)
(* turn the breaker half-open later, so it must know as much as the state.    *)

Stamping == \E c \in Callers : pc[c] = "err_stamp"

InstantInv ==
  /\ OpenHasInstant
  /\ \A c \in Callers :
       (pc[c] \in {"read_opened", "compare"} /\ openedAt = NoInstant) => Stamping

\* Steps that neither stamp nor open keep a stamping caller where it is.
LEMMA StampingStays ==
  ASSUME TypeOK, NEW c \in Callers, Stamping, pc[c] # "err_stamp",
         NEW to, pc' = [pc EXCEPT ![c] = to]
  PROVE  Stamping'
  BY DEF Stamping, TypeOK

\* Whoever is about to rely on the instant has it, or it is being written.
LEMMA InstantInvariant == Spec => []InstantInv
  <1> USE BreakerAssumption
  <1>1. Init => InstantInv
    BY DEF Init, InstantInv, OpenHasInstant, Stamping
  <1>2. TypeOK /\ InstantInv /\ [Next]_vars => InstantInv'
    <2> SUFFICES ASSUME TypeOK, InstantInv, [Next]_vars PROVE InstantInv'
      OBVIOUS
    <2>1. CASE openedAt' # NoInstant
      BY <2>1 DEF InstantInv, OpenHasInstant
    <2>2. CASE openedAt' = NoInstant
      <3>1. openedAt = NoInstant
        <4>1. ASSUME NEW c \in Callers, StampOpenedAt(c) PROVE FALSE
          BY <4>1, <2>2 DEF StampOpenedAt
        <4>2. CASE Tick
          BY <4>2, <2>2, UpToBounds DEF Tick, TypeOK, Ages
        <4> QED
          BY <4>1, <4>2, <2>2
          DEF Next, Begin, Guard, LoadState, ReadOpenedAt, HalfOpen,
              EmitHalfOpen, Reject, Attempt, AttemptSucceeds, AttemptRetried,
              AttemptsExhausted, Record, ResetFailures, SwapClosed, EmitClosed,
              CountFailure, SwapOpen, EmitOpen, Drain, DrainCompletes,
              DrainBreaks, Cancel, breakerVars, vars
      <3> DEFINE Pending == \/ state # CLOSED
                            \/ \E c \in Callers : pc[c] \in {"read_opened", "compare"}
      <3>2. Pending => Stamping
        BY <3>1 DEF InstantInv, OpenHasInstant, Stamping
      <3>3. SUFFICES ASSUME Pending' PROVE Stamping'
        BY <3>3 DEF InstantInv, OpenHasInstant, Stamping
      <3> USE DEF TypeOK, Goto, breakerVars, OPEN, CLOSED, HALF_OPEN
      <3>4. ASSUME NEW c \in Callers, pc[c] # "err_stamp", Pending,
                   NEW to, pc' = [pc EXCEPT ![c] = to]
            PROVE  Stamping'
        BY <3>2, <3>4, StampingStays
      <3>5. ASSUME NEW c \in Callers, SwapOpen(c) PROVE Stamping'
        BY <3>5 DEF SwapOpen, Stamping
      <3>6. ASSUME NEW c \in Callers, StampOpenedAt(c) PROVE Stamping'
        BY <3>6, <2>2 DEF StampOpenedAt
      <3>7. ASSUME NEW c \in Callers, LoadState(c) PROVE Stamping'
        <4>1. Pending
          BY <3>7, <3>3 DEF LoadState
        <4> QED BY <3>7, <4>1, <3>4 DEF LoadState
      <3>8. ASSUME NEW c \in Callers, SwapClosed(c) PROVE Stamping'
        <4>1. PICK next \in {"emit_closed", "idle", "drain"} :
                Goto(c, "ok_swap", next)
          BY <3>8 DEF SwapClosed, AfterSuccess
        <4>2. Pending
          BY <3>8, <4>1, <3>3 DEF SwapClosed
        <4> QED BY <4>1, <4>2, <3>4
      <3>9. ASSUME NEW c \in Callers,
                   \/ Begin(c) \/ ReadOpenedAt(c) \/ HalfOpen(c)
                   \/ EmitHalfOpen(c) \/ Reject(c)
            PROVE Stamping'
        <4>1. PICK to : pc' = [pc EXCEPT ![c] = to] /\ pc[c] # "err_stamp"
          BY <3>9 DEF Begin, ReadOpenedAt, HalfOpen, EmitHalfOpen, Reject
        <4>2. Pending
          BY <3>9, <3>3 DEF Begin, ReadOpenedAt, HalfOpen, EmitHalfOpen, Reject
        <4> QED BY <4>1, <4>2, <3>4
      <3>10. ASSUME NEW c \in Callers,
                    \/ Attempt(c) \/ ResetFailures(c) \/ EmitClosed(c)
                    \/ CountFailure(c) \/ EmitOpen(c) \/ Drain(c) \/ Cancel(c)
             PROVE Stamping'
        <4>1. PICK to : pc' = [pc EXCEPT ![c] = to] /\ pc[c] # "err_stamp"
          BY <3>10 DEF Attempt, AttemptSucceeds, AttemptRetried, AttemptsExhausted,
                       ResetFailures, EmitClosed, CountFailure, EmitOpen, Drain,
                       DrainCompletes, DrainBreaks, Cancel
        <4>2. to \notin {"read_opened", "compare"} \/ pc' = pc
          BY <3>10, <4>1 DEF Attempt, AttemptSucceeds, AttemptRetried,
                       AttemptsExhausted, ResetFailures, EmitClosed, AfterSuccess,
                       CountFailure, EmitOpen, Drain, DrainCompletes, DrainBreaks,
                       Cancel
        <4>3. state' = state
          BY <3>10 DEF Attempt, AttemptSucceeds, AttemptRetried, AttemptsExhausted,
                       ResetFailures, EmitClosed, CountFailure, EmitOpen, Drain,
                       DrainCompletes, DrainBreaks, Cancel
        <4>4. Pending
          BY <4>1, <4>2, <4>3, <3>3
        <4> QED BY <4>1, <4>4, <3>4
      <3>11. CASE Tick
        BY <3>11, <3>2, <3>3 DEF Tick, Stamping
      <3>12. CASE UNCHANGED vars
        BY <3>12, <3>2, <3>3 DEF vars, Stamping
      <3> QED BY <3>5, <3>6, <3>7, <3>8, <3>9, <3>10, <3>11, <3>12
              DEF Next, Guard, Record
    <2> QED BY <2>1, <2>2
  <1> QED BY <1>1, <1>2, TypeCorrect, PTL DEF Spec

\* A state that is not closed always has an opening instant, or the call that
\* opened it is about to write one.
THEOREM OpenInstantKnown == Spec => []OpenHasInstant
  <1>1. InstantInv => OpenHasInstant
    BY DEF InstantInv
  <1> QED BY <1>1, InstantInvariant, PTL

-----------------------------------------------------------------------------
(* guard's copy of opened_at may be stale, but only in one direction.        *)

\* A copy being compared is at least as old as what the breaker holds now.
SeenNeverYounger ==
  \A c \in Callers :
    pc[c] = "compare" => openedAt = NoInstant \/ openedAt <= seen[c]

\* No call is refused once the breaker's current window has passed.
THEOREM RejectionsAreTimely == Spec => NoRejectionAfterCoolDown
  <1> USE BreakerAssumption
  <1>1. Init => SeenNeverYounger
    BY DEF Init, SeenNeverYounger
  <1>2. TypeOK /\ SeenNeverYounger /\ [Next]_vars => SeenNeverYounger'
    <2> SUFFICES ASSUME TypeOK, SeenNeverYounger, [Next]_vars,
                        NEW d \in Callers, pc'[d] = "compare"
                 PROVE  openedAt' = NoInstant \/ openedAt' <= seen'[d]
      BY DEF SeenNeverYounger
    <2> USE DEF TypeOK, Ages, Goto, breakerVars
    <2>1. ASSUME NEW c \in Callers, ReadOpenedAt(c)
          PROVE  openedAt' = NoInstant \/ openedAt' <= seen'[d]
      BY <2>1 DEF ReadOpenedAt, SeenNeverYounger
    <2>2. ASSUME NEW c \in Callers, StampOpenedAt(c)
          PROVE  openedAt' = NoInstant \/ openedAt' <= seen'[d]
      BY <2>2 DEF StampOpenedAt
    <2>3. CASE Tick
      <3>1. pc[d] = "compare" /\ seen'[d] = UpTo(seen[d], OpenFor)
        BY <2>3 DEF Tick
      <3>2. CASE openedAt = NoInstant
        BY <2>3, <3>2 DEF Tick
      <3>3. CASE openedAt # NoInstant
        <4>1. openedAt <= seen[d] /\ openedAt \in 0..OpenFor /\ seen[d] \in 0..OpenFor
          BY <3>1, <3>3 DEF SeenNeverYounger
        <4>2. openedAt' = UpTo(openedAt, OpenFor)
          BY <2>3, <3>3 DEF Tick
        <4> QED BY <3>1, <4>1, <4>2, UpToMonotone
      <3> QED BY <3>2, <3>3
    <2>4. CASE pc'[d] = pc[d] /\ seen'[d] = seen[d] /\ openedAt' = openedAt
      BY <2>4 DEF SeenNeverYounger
    <2>5. ASSUME NEW c \in Callers,
                 \/ Begin(c) \/ LoadState(c) \/ EmitHalfOpen(c) \/ Attempt(c)
                 \/ ResetFailures(c) \/ EmitClosed(c) \/ CountFailure(c)
                 \/ SwapOpen(c) \/ EmitOpen(c) \/ Drain(c) \/ Cancel(c)
          PROVE  pc'[d] = pc[d] /\ seen'[d] = seen[d] /\ openedAt' = openedAt
      BY <2>5 DEF Begin, LoadState, EmitHalfOpen, Attempt, AttemptSucceeds,
            AttemptRetried, AttemptsExhausted, ResetFailures, EmitClosed,
            AfterSuccess, CountFailure, SwapOpen, EmitOpen, Drain,
            DrainCompletes, DrainBreaks, Cancel
    <2>6. ASSUME NEW c \in Callers, HalfOpen(c) \/ Reject(c) \/ SwapClosed(c)
          PROVE  pc'[d] = pc[d] /\ seen'[d] = seen[d] /\ openedAt' = openedAt
      BY <2>6 DEF HalfOpen, Reject, SwapClosed, AfterSuccess
    <2>7. CASE UNCHANGED vars
      BY <2>7, <2>4 DEF vars
    <2> QED BY <2>1, <2>2, <2>3, <2>4, <2>5, <2>6, <2>7 DEF Next, Guard, Record
  <1>3. TypeOK /\ SeenNeverYounger =>
          [\A c \in Callers :
             Reject(c) => openedAt = NoInstant \/ openedAt < OpenFor]_vars
    BY DEF TypeOK, Ages, SeenNeverYounger, Reject, Goto, WindowPassed
  <1> QED BY <1>1, <1>2, <1>3, TypeCorrect, PTL DEF Spec, NoRejectionAfterCoolDown

-----------------------------------------------------------------------------
(* Calls that do not overlap.  With one caller the breaker is the textbook   *)
(* state machine; the invariant says what that caller knows at each point of *)
(* a call, which is what the swaps rely on and overlapping calls break.      *)

OneCallAt(c) ==
  /\ pc[c] \notin {"emit_half_open", "err_stamp", "emit_closed", "emit_open"}
       => gauge = state
  /\ pc[c] \in {"read_opened", "compare", "err_stamp", "emit_open"} => state = OPEN
  /\ pc[c] = "compare" => openedAt # NoInstant /\ seen[c] = openedAt
  /\ pc[c] \in {"attempt", "ok_reset", "ok_swap", "err_count", "err_swap"} => state # OPEN
  /\ pc[c] = "emit_half_open" => state = HALF_OPEN
  /\ pc[c] \in {"emit_closed", "drain"} => state = CLOSED
  /\ pc[c] = "err_stamp" => prev[c] # OPEN /\ gauge = prev[c]

\* With one caller the state seen from outside is the one swapped out until
\* the instant is written.
LEMMA EffectiveOfOne ==
  ASSUME NEW c, Callers = {c}
  PROVE  /\ EffectiveState = IF pc[c] = "err_stamp" THEN prev[c] ELSE state
         /\ EffectiveState' = IF pc'[c] = "err_stamp" THEN prev'[c] ELSE state'
  <1>1. ASSUME pc[c] = "err_stamp"
        PROVE  (CHOOSE d \in Callers : pc[d] = "err_stamp") = c
    BY <1>1
  <1>2. ASSUME pc'[c] = "err_stamp"
        PROVE  (CHOOSE d \in Callers : pc'[d] = "err_stamp") = c
    BY <1>2
  <1> QED BY <1>1, <1>2 DEF EffectiveState

\* What a lone caller knows it knows after its every step.
LEMMA OneCallKeepsUp ==
  ASSUME NEW c, Callers = {c}, TypeOK, InstantInv, OneCallAt(c), [Next]_vars
  PROVE  OneCallAt(c)'
  <1> USE BreakerAssumption
  <1> USE DEF TypeOK, OneCallAt, Goto, breakerVars, OPEN, CLOSED, HALF_OPEN, Ages
  <1>1. CASE Begin(c)          BY <1>1 DEF Begin
  <1>2. CASE LoadState(c)      BY <1>2 DEF LoadState
  <1>3. CASE ReadOpenedAt(c)
    <2>1. openedAt # NoInstant
      BY <1>3 DEF ReadOpenedAt, InstantInv, Stamping
    <2> QED BY <1>3, <2>1 DEF ReadOpenedAt
  <1>4. CASE HalfOpen(c)       BY <1>4 DEF HalfOpen
  <1>5. CASE EmitHalfOpen(c)   BY <1>5 DEF EmitHalfOpen
  <1>6. CASE Reject(c)         BY <1>6 DEF Reject
  <1>7. CASE Attempt(c)
    BY <1>7 DEF Attempt, AttemptSucceeds, AttemptRetried, AttemptsExhausted
  <1>8. CASE ResetFailures(c)  BY <1>8 DEF ResetFailures
  <1>9. CASE SwapClosed(c)
    <2>1. PICK next \in {"emit_closed", "idle", "drain"} :
            /\ Goto(c, "ok_swap", next)
            /\ state = HALF_OPEN <=> next = "emit_closed"
      BY <1>9 DEF SwapClosed, AfterSuccess
    <2> QED BY <1>9, <2>1 DEF SwapClosed, BreakerStates
  <1>10. CASE EmitClosed(c)    BY <1>10 DEF EmitClosed, AfterSuccess
  <1>11. CASE CountFailure(c)  BY <1>11 DEF CountFailure
  <1>12. CASE SwapOpen(c)      BY <1>12 DEF SwapOpen
  <1>13. CASE StampOpenedAt(c) BY <1>13 DEF StampOpenedAt
  <1>14. CASE EmitOpen(c)      BY <1>14 DEF EmitOpen
  <1>15. CASE Drain(c)         BY <1>15 DEF Drain, DrainCompletes, DrainBreaks
  <1>16. CASE Cancel(c)        BY <1>16 DEF Cancel
  <1>17. CASE Tick
    <2>1. pc[c] = "compare" => openedAt' # NoInstant /\ seen'[c] = openedAt'
      BY <1>17, UpToBounds DEF Tick
    <2> QED BY <1>17, <2>1 DEF Tick
  <1>18. CASE UNCHANGED vars   BY <1>18 DEF vars
  <1> QED BY <1>1, <1>2, <1>3, <1>4, <1>5, <1>6, <1>7, <1>8, <1>9, <1>10, <1>11,
             <1>12, <1>13, <1>14, <1>15, <1>16, <1>17, <1>18
          DEF Next, Guard, Record

\* Every state of a lone caller is one in which it knows that.
LEMMA OneCallInvariant ==
  ASSUME NEW c, Callers = {c}
  PROVE  Spec => [](TypeOK /\ InstantInv /\ OneCallAt(c))
  <1>1. Init => OneCallAt(c)
    BY DEF Init, OneCallAt
  <1>2. TypeOK /\ InstantInv /\ OneCallAt(c) /\ [Next]_vars => OneCallAt(c)'
    BY OneCallKeepsUp
  <1> QED BY <1>1, <1>2, TypeCorrect, InstantInvariant, PTL DEF Spec

\* Between the calls of a lone caller the gauge shows the breaker's state.
THEOREM LoneGaugeIsTrue ==
  ASSUME NEW c, Callers = {c}
  PROVE  Spec => []GaugeTracksState
  <1>1. OneCallAt(c) => GaugeTracksState
    BY DEF OneCallAt, GaugeTracksState, Quiescent, GuardSteps, RecordSteps
  <1> QED BY <1>1, OneCallInvariant, PTL

\* Calls that do not overlap see the textbook state machine: one edge at a
\* time, probed once its window has passed, the gauge told of every change.
THEOREM LoneCallsSeeTheStateMachine ==
  ASSUME NEW c, Callers = {c}
  PROVE  Spec => ImplementsStateMachine
  <1> USE BreakerAssumption
  <1>1. Init => StateMachine!SMInit
    <2> SUFFICES ASSUME Init PROVE StateMachine!SMInit
      OBVIOUS
    <2>1. EffectiveState = state
      BY EffectiveOfOne DEF Init
    <2> QED BY <2>1 DEF Init, StateMachine!SMInit, CLOSED
  <1>2. TypeOK /\ InstantInv /\ OneCallAt(c) /\ [Next]_vars
          => [StateMachine!SMNext]_(StateMachine!smVars)
    <2> SUFFICES ASSUME TypeOK, InstantInv, OneCallAt(c), [Next]_vars
                 PROVE  StateMachine!SMNext \/ UNCHANGED StateMachine!smVars
      OBVIOUS
    <2> DEFINE before == IF pc[c] = "err_stamp" THEN prev[c] ELSE state
               after  == IF pc'[c] = "err_stamp" THEN prev'[c] ELSE state'
    <2>1. EffectiveState = before /\ EffectiveState' = after
      BY EffectiveOfOne
    <2> USE DEF TypeOK, OneCallAt, Goto, breakerVars, OPEN, CLOSED, HALF_OPEN
    <2>2. CASE after = before /\ UNCHANGED <<openedAt, gauge>>
      BY <2>1, <2>2 DEF StateMachine!smVars
    <2>3. CASE Begin(c) \/ LoadState(c) \/ ReadOpenedAt(c) \/ Reject(c)
      BY <2>3, <2>2 DEF Begin, LoadState, ReadOpenedAt, Reject
    <2>4. CASE HalfOpen(c)
      <3>1. before = "open" /\ after = "half_open" /\ gauge = "open"
        BY <2>4 DEF HalfOpen
      <3>2. openedAt = OpenFor
        BY <2>4 DEF HalfOpen, WindowPassed, Ages
      <3>3. UNCHANGED <<openedAt, gauge>>
        BY <2>4 DEF HalfOpen
      <3> QED BY <2>1, <3>1, <3>2, <3>3 DEF StateMachine!SMNext, StateMachine!Probe
    <2>5. CASE EmitHalfOpen(c) \/ EmitClosed(c) \/ EmitOpen(c)
      <3>1. after = before /\ gauge' = before /\ UNCHANGED openedAt
        BY <2>5 DEF EmitHalfOpen, EmitClosed, AfterSuccess, EmitOpen
      <3> QED BY <2>1, <3>1 DEF StateMachine!SMNext, StateMachine!Report
    <2>6. CASE Attempt(c) \/ ResetFailures(c) \/ CountFailure(c) \/ Drain(c) \/ Cancel(c)
      BY <2>6, <2>2 DEF Attempt, AttemptSucceeds, AttemptRetried, AttemptsExhausted,
         ResetFailures, CountFailure, Drain, DrainCompletes, DrainBreaks, Cancel
    <2>7. CASE SwapClosed(c)
      <3>1. before = state /\ after = "closed" /\ gauge = state /\ state # OPEN
            /\ UNCHANGED <<openedAt, gauge>>
        BY <2>7 DEF SwapClosed, AfterSuccess
      <3>2. state \in {"closed", "half_open"}
        BY <3>1 DEF BreakerStates
      <3> QED BY <2>1, <2>2, <3>1, <3>2 DEF StateMachine!SMNext, StateMachine!Close
    <2>8. CASE SwapOpen(c)
      BY <2>8, <2>2 DEF SwapOpen
    <2>9. CASE StampOpenedAt(c)
      <3>1. before = prev[c] /\ after = "open" /\ gauge = prev[c] /\ prev[c] # OPEN
            /\ openedAt' = 0 /\ UNCHANGED gauge
        BY <2>9 DEF StampOpenedAt
      <3>2. prev[c] \in {"closed", "half_open"}
        BY <3>1 DEF BreakerStates
      <3> QED BY <2>1, <3>1, <3>2 DEF StateMachine!SMNext, StateMachine!Open
    <2>10. CASE Tick
      <3>1. after = before /\ UNCHANGED gauge
        BY <2>10 DEF Tick
      <3>2. CASE openedAt' = openedAt
        BY <2>2, <3>1, <3>2
      <3>3. CASE openedAt' # openedAt
        <4>1. openedAt # NoInstant /\ openedAt < OpenFor /\ openedAt' = openedAt + 1
          BY <2>10, <3>3 DEF Tick, UpTo, Ages
        <4> QED BY <2>1, <3>1, <4>1 DEF StateMachine!SMNext, StateMachine!Age
      <3> QED BY <3>2, <3>3
    <2>11. CASE UNCHANGED vars
      BY <2>11, <2>2 DEF vars
    <2> QED BY <2>3, <2>4, <2>5, <2>6, <2>7, <2>8, <2>9, <2>10, <2>11
            DEF Next, Guard, Record
  <1> QED BY <1>1, <1>2, OneCallInvariant, PTL
          DEF Spec, ImplementsStateMachine, StateMachine!SMSpec
=============================================================================
