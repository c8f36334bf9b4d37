-------------------------- MODULE MCFallbackChain --------------------------
(* Small instances of FallbackChain for TLC. *)
EXTENDS FallbackChain

CONSTANTS r1, r2, p1, p2, p3

TwoRequests == {r1, r2}

AllProviders == {p1, p2, p3}
BuiltTwo     == {p1, p2}

Leg(p, m) == [provider |-> p, model |-> m]

Large == Leg(p1, "large")
Small == Leg(p1, "small")
Other == Leg(p2, "other")
Gone  == Leg(p3, "gone")    \* its provider is not in the catalog

\* Both requests on a chain without a gap, with the gap first and last, and without
\* legs; the gap in the middle; two legs of one provider, and a second route that
\* meets the first in one of its breakers.
SmallRoutings ==
  {[r \in TwoRequests |-> c] :
     c \in {<<Large, Other>>, <<Gone, Large>>, <<Large, Gone>>, <<>>}}
  \cup {[r \in TwoRequests |-> IF r = r1 THEN <<Large, Gone, Other>> ELSE <<Other, Large>>],
        [r \in TwoRequests |-> IF r = r1 THEN <<Large, Small>> ELSE <<Small>>]}
=============================================================================
