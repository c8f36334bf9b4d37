------------------------ MODULE FallbackChain_proofs ------------------------
(***************************************************************************)
(* Proofs about FallbackChain for any set of requests, any chains, the     *)
(* empty one included, any set of providers in the catalog and any number  *)
(* of attempts.                                                            *)
(***************************************************************************)
EXTENDS FallbackChain, SequenceTheorems, TLAPS

Phases  == {"idle", "next_leg", "attempt", "drain", "committed", "answered"}
Kinds   == {"unbuilt_provider", "circuit_open", "start", "mid_stream"}
Answers == {"none", "reply", "error_event", "all_circuits_open", "all_legs_failed"}

(***************************************************************************)
(* The inductive invariant, in three parts: the types; what the failures   *)
(* so far say of the legs that were passed; whose text the reply holds.    *)
(***************************************************************************)

WalkTypes ==
  /\ chain \in [Requests -> Seq(Upstreams)]
  /\ phase \in [Requests -> Phases]
  /\ mode \in [Requests -> Modes]
  /\ leg \in [Requests -> Nat \ {0}]
  /\ kinds \in [Requests -> Seq(Kinds)]
  /\ allOpen \in [Requests -> BOOLEAN]
  /\ called \in [Requests -> SUBSET Nat]
  /\ content \in [Requests -> SUBSET Nat]
  /\ answer \in [Requests -> Answers]

Passed(r) == 1..(leg[r] - 1)

\* all_circuit_open holds the verdict on the legs passed, but a leg that is
\* being tried does not count yet: only between legs, and once the chain is
\* exhausted, does it speak for every call made.
PassedLegs(r) ==
  /\ leg[r] <= Len(chain[r]) + 1
  /\ phase[r] \in {"attempt", "drain", "committed"} =>
       leg[r] \in LegIds(r) /\ leg[r] \in called[r]
  /\ kinds[r] = <<>> <=> leg[r] = 1
  /\ allOpen[r] => \A l \in Passed(r) : chain[r][l].provider \in Built
  /\ ~allOpen[r] =>
       called[r] # {} \/ \E l \in Passed(r) : chain[r][l].provider \notin Built
  /\ phase[r] = "next_leg" /\ allOpen[r] => called[r] = {}
  /\ answer[r] = "all_circuits_open" =>
       allOpen[r] /\ called[r] = {} /\ leg[r] = Len(chain[r]) + 1 /\ leg[r] # 1
  /\ answer[r] = "all_legs_failed" => ~allOpen[r] \/ chain[r] = <<>>

\* Text is held from the first item of a leg to its end, and of that leg only.
TextHeld(r) ==
  /\ phase[r] \in {"idle", "next_leg", "attempt"} => content[r] = {}
  /\ phase[r] \in {"drain", "committed"} => content[r] = {leg[r]}
  /\ phase[r] = "drain" => mode[r] = "buffered"
  /\ phase[r] # "answered" => answer[r] = "none"
  /\ answer[r] \in {"reply", "error_event"} => content[r] = {leg[r]}

\* A task that is free holds a fresh walk.
Fresh(r) ==
  phase[r] = "idle" =>
    leg[r] = 1 /\ kinds[r] = <<>> /\ allOpen[r] /\ called[r] = {}

WalkInv ==
  /\ WalkTypes
  /\ \A r \in Requests : PassedLegs(r) /\ TextHeld(r) /\ Fresh(r)

-----------------------------------------------------------------------------

\* A leg that failed leaves a sound walk behind, one leg further, whichever way
\* it failed: skipped without a call, or called in vain.
LEMMA LegFailedKeepsWalk ==
  ASSUME WalkInv,
         NEW r \in Requests, NEW kind \in Kinds,
         phase[r] \in {"next_leg", "attempt", "drain"},
         leg[r] \in LegIds(r),
         kind = "unbuilt_provider" => ProviderOf(r) \notin Built,
         kind = "circuit_open" => ProviderOf(r) \in Built /\ phase[r] = "next_leg",
         kind \in {"start", "mid_stream"} => phase[r] # "next_leg",
         LegFailed(r, kind),
         UNCHANGED <<asked, called, answer>>
  PROVE  WalkInv'
  <1> USE ChainAssumption
  <1>1. leg[r] \in Nat /\ Len(chain[r]) \in Nat /\ chain' = chain
    BY DEF WalkInv, WalkTypes, asked
  <1>2. WalkTypes'
    <2>1. Append(kinds[r], kind) \in Seq(Kinds)
      BY DEF WalkInv, WalkTypes
    <2> QED
      BY <1>1, <2>1 DEF WalkInv, WalkTypes, LegFailed, Phases, asked
  <1>3. ASSUME NEW q \in Requests
        PROVE  (PassedLegs(q) /\ TextHeld(q) /\ Fresh(q))'
    <2>1. CASE q # r
      <3>1. /\ phase'[q] = phase[q] /\ leg'[q] = leg[q] /\ kinds'[q] = kinds[q]
            /\ allOpen'[q] = allOpen[q] /\ content'[q] = content[q]
        BY <2>1 DEF WalkInv, WalkTypes, LegFailed
      <3> QED
        BY <1>1, <3>1 DEF WalkInv, PassedLegs, TextHeld, Fresh, Passed, LegIds, asked
    <2>2. CASE q = r
      <3>1. /\ phase'[r] = "next_leg" /\ leg'[r] = leg[r] + 1
            /\ kinds'[r] = Append(kinds[r], kind)
            /\ allOpen'[r] = (allOpen[r] /\ kind = "circuit_open")
            /\ content'[r] = IF mode[r] = "buffered" THEN {} ELSE content[r]
        BY DEF WalkInv, WalkTypes, LegFailed
      <3>2. content'[r] = {}
        BY <3>1 DEF WalkInv, TextHeld
      <3>3. kinds'[r] # <<>>
        <4>1. kinds[r] \in Seq(Kinds)
          BY DEF WalkInv, WalkTypes
        <4>2. Append(kinds[r], kind) # <<>>
          BY <4>1, AppendProperties
        <4> QED BY <3>1, <4>2
      <3>4. answer[r] = "none"
        BY DEF WalkInv, TextHeld
      <3>5. /\ leg[r] \in Passed(r)'
            /\ Passed(r)' = Passed(r) \cup {leg[r]}
            /\ leg'[r] # 1 /\ leg'[r] <= Len(chain[r]) + 1
        BY <1>1, <3>1 DEF WalkInv, WalkTypes, Passed, LegIds
      <3>6. PassedLegs(r)'
        <4>1. allOpen'[r] => \A l \in Passed(r)' : chain[r][l].provider \in Built
          BY <1>1, <3>1, <3>5 DEF WalkInv, PassedLegs, ProviderOf
        <4>2. ~allOpen'[r] => \/ called'[r] # {}
                              \/ \E l \in Passed(r)' : chain[r][l].provider \notin Built
          BY <1>1, <3>1, <3>5 DEF WalkInv, PassedLegs, ProviderOf, Kinds, asked
        <4>3. allOpen'[r] => called'[r] = {}
          BY <3>1 DEF WalkInv, PassedLegs, asked
        <4> QED
          BY <1>1, <3>1, <3>3, <3>4, <3>5, <4>1, <4>2, <4>3 DEF PassedLegs, asked
      <3> QED
        BY <2>2, <3>1, <3>2, <3>4, <3>6 DEF TextHeld, Fresh, asked
    <2> QED BY <2>1, <2>2
  <1> QED BY <1>2, <1>3 DEF WalkInv

\* The walks of the requests that do not move are as sound as before.
LEMMA OthersKeepWalk ==
  ASSUME WalkInv, WalkTypes',
         NEW r \in Requests, (PassedLegs(r) /\ TextHeld(r) /\ Fresh(r))',
         UNCHANGED chain,
         \A q \in Requests \ {r} :
           /\ phase'[q] = phase[q] /\ mode'[q] = mode[q] /\ leg'[q] = leg[q]
           /\ kinds'[q] = kinds[q] /\ allOpen'[q] = allOpen[q]
           /\ called'[q] = called[q] /\ content'[q] = content[q]
           /\ answer'[q] = answer[q]
  PROVE  WalkInv'
  BY DEF WalkInv, PassedLegs, TextHeld, Fresh, Passed, LegIds, asked

\* The invariant holds in every state: one step per action of a walk.
LEMMA WalkInvariant == Spec => []WalkInv
  <1> USE ChainAssumption
  <1>0. WalkTypes => \A r \in Requests : leg[r] \in Nat \ {0} /\ Len(chain[r]) \in Nat
    BY DEF WalkTypes
  <1>1. Init => WalkInv
    <2> SUFFICES ASSUME Init PROVE WalkInv
      OBVIOUS
    <2>1. <<>> \in Seq(Kinds)
      OBVIOUS
    <2>2. WalkTypes
      BY <1>0, <2>1 DEF Init, WalkTypes, Phases, Modes, Answers
    <2> QED
      BY <1>0, <2>2 DEF Init, WalkInv, PassedLegs, TextHeld, Fresh, Passed, LegIds, asked
  <1>2. WalkInv /\ [Next]_vars => WalkInv'
    <2> SUFFICES ASSUME WalkInv, [Next]_vars PROVE WalkInv'
      OBVIOUS
    <2>1. ASSUME NEW r \in Requests, SkipUnbuilt(r) PROVE WalkInv'
      BY <1>0, <2>1, LegFailedKeepsWalk
      DEF SkipUnbuilt, MoreLegs, LegIds, Kinds, WalkInv, WalkTypes
    <2>2. ASSUME NEW r \in Requests, SkipOpen(r) PROVE WalkInv'
      BY <1>0, <2>2, LegFailedKeepsWalk
      DEF SkipOpen, MoreLegs, LegIds, Kinds, WalkInv, WalkTypes
    <2>3. ASSUME NEW r \in Requests, EnterLeg(r) PROVE WalkInv'
      <3>1. leg[r] \in LegIds(r)
        BY <1>0, <2>3 DEF EnterLeg, MoreLegs, LegIds, WalkInv
      <3>2. WalkTypes'
        BY <2>3, <3>1 DEF EnterLeg, WalkInv, WalkTypes, Phases, asked
      <3>3. (PassedLegs(r) /\ TextHeld(r) /\ Fresh(r))'
        BY <2>3, <3>1
        DEF EnterLeg, WalkInv, WalkTypes, PassedLegs, TextHeld, Fresh, Passed, LegIds, asked
      <3> QED
        BY <2>3, <3>2, <3>3, OthersKeepWalk DEF EnterLeg, WalkInv, WalkTypes, asked
    <2>4. ASSUME NEW r \in Requests, ChainExhausted(r) PROVE WalkInv'
      <3>1. WalkTypes'
        BY <2>4 DEF ChainExhausted, WalkInv, WalkTypes, Phases, Answers, asked
      <3>2. leg[r] = Len(chain[r]) + 1
        BY <1>0, <2>4 DEF ChainExhausted, MoreLegs, WalkInv, WalkTypes, PassedLegs
      <3>3. /\ phase'[r] = "answered"
            /\ answer'[r] = IF allOpen[r] /\ kinds[r] # <<>>
                            THEN "all_circuits_open" ELSE "all_legs_failed"
            /\ UNCHANGED <<chain, mode, leg, kinds, allOpen, called, content>>
        BY <2>4, <3>2 DEF ChainExhausted, WalkInv, WalkTypes, asked
      <3>4. (PassedLegs(r) /\ TextHeld(r) /\ Fresh(r))'
        BY <2>4, <3>2, <3>3
        DEF ChainExhausted, WalkInv, PassedLegs, TextHeld, Fresh, Passed, LegIds, asked
      <3> QED
        BY <2>4, <3>1, <3>4, OthersKeepWalk DEF ChainExhausted, WalkInv, WalkTypes, asked
    <2>5. ASSUME NEW r \in Requests, AttemptRetried(r) PROVE WalkInv'
      BY <2>5
      DEF AttemptRetried, WalkInv, WalkTypes, PassedLegs, TextHeld, Fresh, Passed, LegIds, asked
    <2>6. ASSUME NEW r \in Requests, StartFails(r) PROVE WalkInv'
      BY <2>6, LegFailedKeepsWalk DEF StartFails, Kinds, WalkInv, PassedLegs
    <2>7. ASSUME NEW r \in Requests, LegStarts(r) PROVE WalkInv'
      <3>1. leg[r] \in LegIds(r) /\ content[r] = {}
        BY <2>7 DEF LegStarts, WalkInv, PassedLegs, TextHeld
      <3>2. WalkTypes'
        BY <2>7, <3>1 DEF LegStarts, WalkInv, WalkTypes, Phases, asked
      <3>3. (PassedLegs(r) /\ TextHeld(r) /\ Fresh(r))'
        BY <2>7, <3>1
        DEF LegStarts, WalkInv, WalkTypes, PassedLegs, TextHeld, Fresh, Passed, LegIds, asked
      <3> QED
        BY <2>7, <3>2, <3>3, OthersKeepWalk DEF LegStarts, WalkInv, WalkTypes, asked
    <2>8. ASSUME NEW r \in Requests, Completes(r) PROVE WalkInv'
      <3>1. WalkTypes'
        BY <2>8 DEF Completes, WalkInv, WalkTypes, Phases, Answers, asked
      <3>2. (PassedLegs(r) /\ TextHeld(r) /\ Fresh(r))'
        BY <2>8
        DEF Completes, WalkInv, WalkTypes, PassedLegs, TextHeld, Fresh, Passed, LegIds, asked
      <3> QED
        BY <2>8, <3>1, <3>2, OthersKeepWalk DEF Completes, WalkInv, WalkTypes, asked
    <2>9. ASSUME NEW r \in Requests, DrainBreaks(r) PROVE WalkInv'
      BY <2>9, LegFailedKeepsWalk DEF DrainBreaks, Kinds, WalkInv, PassedLegs
    <2>10. ASSUME NEW r \in Requests, CommittedBreaks(r) PROVE WalkInv'
      <3>1. WalkTypes'
        BY <2>10 DEF CommittedBreaks, WalkInv, WalkTypes, Phases, Answers, asked
      <3>2. (PassedLegs(r) /\ TextHeld(r) /\ Fresh(r))'
        BY <2>10
        DEF CommittedBreaks, WalkInv, WalkTypes, PassedLegs, TextHeld, Fresh, Passed, LegIds, asked
      <3> QED
        BY <2>10, <3>1, <3>2, OthersKeepWalk DEF CommittedBreaks, WalkInv, WalkTypes, asked
    <2>11. ASSUME NEW r \in Requests, Leave(r) PROVE WalkInv'
      <3>1. <<>> \in Seq(Kinds)
        OBVIOUS
      <3>2. WalkTypes'
        BY <1>0, <2>11, <3>1 DEF Leave, WalkInv, WalkTypes, Phases, Modes, Answers
      <3>3. (PassedLegs(r) /\ TextHeld(r) /\ Fresh(r))'
        BY <1>0, <2>11
        DEF Leave, WalkInv, WalkTypes, PassedLegs, TextHeld, Fresh, Passed, LegIds, asked
      <3> QED
        BY <2>11, <3>2, <3>3, OthersKeepWalk DEF Leave, WalkInv, WalkTypes
    <2>12. ASSUME NEW r \in Requests, NEW m \in Modes, Arrive(r, m) PROVE WalkInv'
      <3>1. WalkTypes'
        BY <2>12 DEF Arrive, WalkInv, WalkTypes, Phases
      <3>2. (PassedLegs(r) /\ TextHeld(r) /\ Fresh(r))'
        BY <2>12
        DEF Arrive, WalkInv, WalkTypes, PassedLegs, TextHeld, Fresh, Passed, LegIds, asked
      <3> QED
        BY <2>12, <3>1, <3>2, OthersKeepWalk DEF Arrive, WalkInv, WalkTypes
    <2>13. CASE UNCHANGED walkVars
      BY <2>13
      DEF walkVars, WalkInv, WalkTypes, PassedLegs, TextHeld, Fresh, Passed, LegIds, asked
    <2> QED
      BY <2>1, <2>2, <2>3, <2>4, <2>5, <2>6, <2>7, <2>8, <2>9, <2>10, <2>11,
         <2>12, <2>13
      DEF Next, Walk, Tick, HealthChanges, vars, walkVars
  <1> QED BY <1>1, <1>2, PTL DEF Spec

-----------------------------------------------------------------------------

\* Whatever the chain, even one without legs, and however many requests share its
\* breakers: of the requests no leg answered, "all circuits open" is said to exactly
\* those that had a leg, called no provider and missed none.
THEOREM OpenAnswerIsTrue == Spec => []OpenAnswerMeansNoCall
  <1>1. WalkInv => OpenAnswerMeansNoCall
    <2> SUFFICES ASSUME WalkInv, NEW r \in Requests,
                        answer[r] \in {"all_circuits_open", "all_legs_failed"}
                 PROVE  answer[r] = "all_circuits_open" <=>
                          /\ chain[r] # <<>> /\ called[r] = {}
                          /\ \A u \in Legs(r) : u.provider \in Built
      BY DEF OpenAnswerMeansNoCall
    <2>1. leg[r] \in 1..(Len(chain[r]) + 1) /\ Len(chain[r]) \in Nat
      BY DEF WalkInv, WalkTypes, PassedLegs
    <2>2. Passed(r) \subseteq LegIds(r)
      BY <2>1 DEF Passed, LegIds
    <2>3. CASE answer[r] = "all_circuits_open"
      <3>1. Passed(r) = LegIds(r)
        BY <2>1, <2>3 DEF WalkInv, PassedLegs, Passed, LegIds
      <3>2. chain[r] # <<>>
        BY <2>1, <2>3 DEF WalkInv, PassedLegs
      <3> QED BY <2>3, <3>1, <3>2 DEF WalkInv, PassedLegs, Legs
    <2>4. CASE answer[r] = "all_legs_failed"
      BY <2>2, <2>4 DEF WalkInv, PassedLegs, Legs
    <2> QED BY <2>3, <2>4
  <1> QED BY <1>1, WalkInvariant, PTL

\* A reply holds the text of the leg the request ended at and of no leg that
\* broke before it.
THEOREM ReplyIsOneLegs == Spec => []ReplyFromOneLeg
  <1>1. WalkInv => ReplyFromOneLeg
    BY DEF WalkInv, TextHeld, ReplyFromOneLeg
  <1> QED BY <1>1, WalkInvariant, PTL

\* A streaming client that was sent something is never handed over to another
\* provider: text is held only in phases that enter no leg.
THEOREM CommitIsFinal == Spec => NoCallAfterCommit
  <1>1. WalkInv /\ [Next]_vars =>
          [\A r \in Requests :
             (mode[r] = "streaming" /\ content[r] # {} /\ phase'[r] # "idle")
               => called'[r] = called[r]]_vars
    <2> SUFFICES ASSUME WalkInv, Next, NEW r \in Requests,
                        content[r] # {}, phase'[r] # "idle"
                 PROVE  called'[r] = called[r]
      BY DEF vars
    <2>1. ASSUME NEW q \in Requests, EnterLeg(q) PROVE called'[r] = called[r]
      <3>1. r # q
        BY <2>1 DEF EnterLeg, WalkInv, TextHeld
      <3> QED BY <2>1, <3>1 DEF EnterLeg, WalkInv, WalkTypes, asked
    <2>2. ASSUME NEW q \in Requests, Leave(q) PROVE called'[r] = called[r]
      BY <2>2 DEF Leave, WalkInv, WalkTypes
    <2>3. CASE UNCHANGED called
      BY <2>3
    <2> QED
      BY <2>1, <2>2, <2>3
      DEF Next, Walk, SkipUnbuilt, SkipOpen, ChainExhausted, AttemptRetried,
          StartFails, LegStarts, Completes, DrainBreaks, CommittedBreaks, Arrive,
          Tick, HealthChanges, walkVars
  <1> QED BY <1>1, WalkInvariant, PTL DEF Spec, NoCallAfterCommit
=============================================================================
