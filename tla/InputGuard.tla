------------------------------ MODULE InputGuard ------------------------------
(* What one screening makes of a request's text (guard/engine.rs, guard/     *)
(* mask.rs) and what startup asks of a policy (guard/validate.rs).           *)
(*   segment  the set of scanners whose patterns occur in it; masking a      *)
(*            match takes its scanner out                                    *)
(*   policy   [enforce, wants : scanner -> action (its own or, by severity,  *)
(*             block or log), output : the same or None, classifier : None   *)
(*             or [route, onError, wants : question -> action],              *)
(*             agreed : no scanner is configured with two actions,           *)
(*             inRange : its holdback is not 0 and the thresholds of its     *)
(*             questions are within [0, 1]]                                  *)
EXTENDS RouteTable

\* The scanners that know where their match is.
Maskable  == {"secrets", "pii", "ban_substrings"}
InputOnly == {"token_limit", "role_override", "prompt_injection"}

\* What a wanted action does: in observe mode it is only recorded.
Effect(wanted, enforce) ==
  IF ~ enforce \/ wanted = "log" THEN "record" ELSE wanted

Matching(wants, segment, action) == {s \in segment \cap DOMAIN wants : wants[s] = action}

\* One segment: who blocks it, what is left of it, and what the classifier
\* gets to see, masked whether or not the policy enforces.
\* Fault: the classifier sees what is left.
ScanSegment_ClassifiesLeft(policy, segment) ==
  LET blockers == {s \in segment \cap DOMAIN policy.wants :
                     Effect(policy.wants[s], policy.enforce) = "block"}
      spans == Matching(policy.wants, segment, "mask")
      masks == policy.enforce /\ blockers = {} /\ spans # {}
      left  == IF masks THEN segment \ spans ELSE segment
  IN [blockers |-> blockers, masked |-> masks, left |-> left, classified |-> left]
ScanSegment(policy, segment) ==
  LET blockers == {s \in segment \cap DOMAIN policy.wants :
                     Effect(policy.wants[s], policy.enforce) = "block"}
      spans == Matching(policy.wants, segment, "mask")
      masks == policy.enforce /\ blockers = {} /\ spans # {}
  IN [blockers |-> blockers, masked |-> masks,
      left |-> IF masks THEN segment \ spans ELSE segment,
      classified |-> segment \ spans]

\* All segments' verdicts together.
\* Fault: the last segment's verdict stands for all.
Merged_Last(verdicts) ==
  [blocked |-> verdicts # <<>> /\ verdicts[Len(verdicts)].blockers # {},
   masked |-> \E i \in DOMAIN verdicts : verdicts[i].masked,
   left |-> [i \in DOMAIN verdicts |-> verdicts[i].left],
   classified |-> [i \in DOMAIN verdicts |-> verdicts[i].classified]]
Merged(verdicts) ==
  [blocked |-> \E i \in DOMAIN verdicts : verdicts[i].blockers # {},
   masked |-> \E i \in DOMAIN verdicts : verdicts[i].masked,
   left |-> [i \in DOMAIN verdicts |-> verdicts[i].left],
   classified |-> [i \in DOMAIN verdicts |-> verdicts[i].classified]]
Scan(policy, segments) ==
  Merged([i \in DOMAIN segments |-> ScanSegment(policy, segments[i])])

\* The questions whose scores reach their thresholds, judged as matches.
ScoresBlock(policy, reached) ==
  \E q \in reached : Effect(policy.classifier.wants[q], policy.enforce) = "block"

\* The typesafe legs of the classifier's route, in order.
ClassifierLegs(table, policy) ==
  SelectSeq(table.legs[policy.classifier.route], LAMBDA l : l.provider = "typesafe")

\* A reply nobody streams is scanned whole, with nothing held back.
BufferedScan(policy, segment) ==
  ScanSegment([enforce |-> policy.enforce, wants |-> policy.output], segment)

----------------------------------------------------------------------------
(* Startup *)

ScannersOf(policy) == DOMAIN policy.wants \cup
                      (IF policy.output = None THEN {} ELSE DOMAIN policy.output)

\* check_policy, check_classifier and compile: what the engine cannot honour is
\* refused.
PolicyAllowed(policy, table) ==
  /\ policy.inRange /\ policy.agreed
  /\ \A s \in ScannersOf(policy) \ Maskable :
       /\ s \in DOMAIN policy.wants => policy.wants[s] # "mask"
       /\ policy.output # None /\ s \in DOMAIN policy.output => policy.output[s] # "mask"
  /\ policy.output # None => DOMAIN policy.output \cap InputOnly = {}
  /\ policy.classifier # None =>
       /\ policy.classifier.route \in DOMAIN table.legs
       /\ ClassifierLegs(table, policy) # <<>>
       /\ DOMAIN policy.classifier.wants # {}
       /\ "mask" \notin Range(policy.classifier.wants)

\* guardrails : policy name -> policy, or None when there is no such file. With
\* `required`, the file must exist and define every policy a route names.
GuardrailsAllowed(guardrails, named, table, required) ==
  IF guardrails = None THEN ~ required
  ELSE /\ \A p \in DOMAIN guardrails : PolicyAllowed(guardrails[p], table)
       /\ required => named \subseteq DOMAIN guardrails

\* with_classifiers: a classifier needs Jev.
ClassifiersWired(guardrails, jev) ==
  \A p \in DOMAIN guardrails : guardrails[p].classifier # None => jev
=============================================================================
