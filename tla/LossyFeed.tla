----------------------------- MODULE LossyFeed -----------------------------
(***************************************************************************)
(* What the usage ledger promises of any one sink: it gets a subsequence   *)
(* of the rows the gateway offered, in the order they were offered, each   *)
(* at most once or, where the sink repeats rows, several times on end.     *)
(* Rows may be lost, never reordered.                                      *)
(***************************************************************************)
EXTENDS Sequences, Integers

CONSTANTS
  Rows,
  Repeats    \* whether the last row stored may be stored again

VARIABLES
  offered,   \* rows offered so far, in order
  log        \* rows the sink holds, in order

feedVars == <<offered, log>>

FeedInit == offered = <<>> /\ log = <<>>

Offer ==
  /\ \E r \in Rows : offered' = Append(offered, r)
  /\ UNCHANGED log

\* Only a row offered after the last one stored may be stored, or that one.
Follows(i) ==
  \/ log = <<>>
  \/ \E j \in 1..(i - 1) : offered[j] = log[Len(log)]
  \/ Repeats /\ offered[i] = log[Len(log)]

Store ==
  /\ \E i \in DOMAIN offered :
       Follows(i) /\ log' = Append(log, offered[i])
  /\ UNCHANGED offered

FeedNext == Offer \/ Store

FeedSpec == FeedInit /\ [][FeedNext]_feedVars
=============================================================================
