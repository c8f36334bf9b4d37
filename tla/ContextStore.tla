---------------------------- MODULE ContextStore ----------------------------
(***************************************************************************)
(* The bound context (crates/synapse-context/src/lib.rs) and the           *)
(* operations on it.  A permanent base is overlaid by at most one pushed   *)
(* binding, whose keys win until it is replaced, cleared or due.  Every    *)
(* operation holds the store's mutex, so each is one step of the component *)
(* that calls it; components that extend this module share the store.      *)
(***************************************************************************)
CONSTANTS
  Base,        \* the base map, fixed at startup
  Writable,    \* the bound values that can be written in a header
  NoOverlay    \* model value: nothing is pushed

\* The overlay: NoOverlay, or the pushed values and whether their deadline has
\* passed.  An overlay without a TTL is one that is never due.
VARIABLE store

Pushed(binding) == [values |-> binding, due |-> FALSE]

Cleared == NoOverlay

HasDeadlineAhead == store # NoOverlay /\ ~ store.due

AtDeadline == [store EXCEPT !.due = TRUE]

\* What resolve returns, and the store it leaves: a due overlay is dropped.
Resolved ==
  IF store = NoOverlay \/ store.due THEN Base
  ELSE [k \in DOMAIN Base \cup DOMAIN store.values |->
          IF k \in DOMAIN store.values THEN store.values[k] ELSE Base[k]]

AfterResolve ==
  IF store # NoOverlay /\ store.due THEN NoOverlay ELSE store
=============================================================================
