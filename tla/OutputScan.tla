----------------------------- MODULE OutputScan -----------------------------
(***************************************************************************)
(* Screening of held reply text (guard/engine.rs release_output and        *)
(* scan_segment, guard/mask.rs): what matches, where the release point     *)
(* settles, what is released and what the scan is worth.                   *)
(*                                                                         *)
(* Text is a sequence of symbols.  Two scanners stand for the pattern      *)
(* library: one masks every run of at least MinMatch "s" symbols (a        *)
(* secret, which keeps growing while it streams in), one blocks on the     *)
(* banned word <<"b", "n">>.  Everything else is plain.                    *)
(***************************************************************************)
EXTENDS SequencesExt, Integers

CONSTANT MinMatch    \* shortest text the secrets scanner recognises

ASSUME OutputScanAssumption == MinMatch \in Nat \ {0}

Mask    == "[REDACTED]"
Symbols == {"t", "s", "b", "n"}

\* Policies of a route: no output scanners, a dry run, or enforcing.
Policies == {"off", "observe", "block"}

\* The matches of each scanner, as <<first, last>> positions.
Secrets(text) ==
  {span \in (DOMAIN text) \X (DOMAIN text) :
     /\ span[2] - span[1] + 1 >= MinMatch
     /\ \A i \in span[1]..span[2] : text[i] = "s"
     /\ span[1] = 1 \/ text[span[1] - 1] # "s"
     /\ span[2] = Len(text) \/ text[span[2] + 1] # "s"}

Banned(text) ==
  {span \in (DOMAIN text) \X (DOMAIN text) :
     span[2] = span[1] + 1 /\ text[span[1]] = "b" /\ text[span[2]] = "n"}

\* Fault: the release point is not pulled back to the start of a match.
Settled_Unsettled(text, cut) == cut

\* settled_cut: the first `cut` characters may leave unless a match straddles
\* that point; then the release point moves to the start of the match, until
\* no match straddles it.
Settled(text, cut) ==
  LET matches  == Secrets(text) \cup Banned(text)
      Clean(c) == \A m \in matches : ~(m[1] - 1 < c /\ c < m[2])
  IN  CHOOSE c \in 0..cut : Clean(c) /\ \A d \in (c + 1)..cut : ~ Clean(d)

\* mask::apply: every span gives way to one placeholder.
Masked(text) ==
  LET hidden == UNION {m[1]..m[2] : m \in Secrets(text)}
      starts == {m[1] : m \in Secrets(text)}
  IN  FlattenSeq([i \in DOMAIN text |->
        IF i \notin hidden THEN <<text[i]>>
        ELSE IF i \in starts THEN <<Mask>> ELSE <<>>])

\* What a client may see of a whole reply under each policy.
Screened(policy, text) == IF policy = "block" THEN Masked(text) ELSE text

\* One call of release_output on `held`, asked to let `cut` characters go.
\* A blocking match anywhere in `held` blocks and releases nothing; masking
\* matches count only when they lie before the settled release point.
Release(policy, held, cut) ==
  LET at   == Settled(held, cut)
      gone == SubSeq(held, 1, at)
      past == {m \in Secrets(held) \cup Banned(held) : m[2] <= at}
  IN  [blocked |-> policy = "block" /\ Banned(held) # {},
       text    |-> Screened(policy, gone),
       held    |-> SubSeq(held, at + 1, Len(held)),
       outcome |-> IF policy = "block" /\ Banned(held) # {} THEN "block"
                   ELSE IF past = {} THEN "pass"
                   ELSE IF policy = "block" THEN "masked" ELSE "observe"]

\* output.rs rank and worse: the outcome of a reply is that of its worst scan.
Outcomes == {"pass", "observe", "masked", "block"}
Rank(o)  == CASE o = "block" -> 4 [] o = "masked" -> 3
              [] o = "observe" -> 2 [] o = "pass" -> 0
\* Fault: the latest scan wins instead of the worst.
Worse_Latest(a, b) == b

Worse(a, b) == IF Rank(b) > Rank(a) THEN b ELSE a
=============================================================================
